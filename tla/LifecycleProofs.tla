--------------------------- MODULE LifecycleProofs ---------------------------
(***************************************************************************)
(* WorkerQueue implements TaskLifecycle, for any number of tasks, workers, *)
(* sessions and incidents.                                                 *)
(*                                                                         *)
(* Every step of a worker, of the database or of the outside world either  *)
(* leaves the stage of every task as it is, or moves one task along an     *)
(* edge of the lifecycle.  Which edge follows from ownership: the one who  *)
(* owns a row in "processing" is alone in deciding its stage.              *)
(***************************************************************************)
EXTENDS WorkerQueueProofs

Runs(w, t) == pc[w] = "working" /\ task[w] = t
IsRun(t) == \E w \in Workers : Runs(w, t)

(* A task that is run is not also about to be completed or just claimed.   *)
OneOwner ==
  \A t \in Tasks :
    /\ \A v, w \in Workers : Runs(v, t) /\ Runs(w, t) => v = w
    /\ ~(IsRun(t) /\ CompletePending(t))
    /\ ~(IsRun(t) /\ ReplyPending(t))
    /\ ~(CompletePending(t) /\ ReplyPending(t))
    /\ IsRun(t) \/ CompletePending(t) \/ ReplyPending(t) => status[t] = "processing"

(* The stage and the runner of a task, case by case.                       *)
StageTable ==
  \A t \in Tasks :
    /\ status[t] # "processing" => StageOf(t) = status[t]
    /\ IsRun(t) => StageOf(t) = "running"
    /\ CompletePending(t) => StageOf(t) = "worked"
    /\ ReplyPending(t) => StageOf(t) = "claimed"
    /\ status[t] = "processing" /\ ~IsRun(t) /\ ~CompletePending(t) /\ ~ReplyPending(t)
         => StageOf(t) = "dropped"
    /\ \A w \in Workers : Runs(w, t) => RunnerOf(t) = w
    /\ ~IsRun(t) => RunnerOf(t) = NoWorker

(* The invariant of WorkerQueueProofs gives each task one owner.           *)
LEMMA OneOwnerHolds == IInv => OneOwner
<1> SUFFICES ASSUME IInv, NEW t \in Tasks PROVE OneOwner!(t)
  BY DEF OneOwner
<1>1. SessionInv /\ OwnerInv!(t) /\ TypeOK
  BY DEF IInv, OwnerInv
<1>2. \A w \in Workers : Runs(w, t) => Holds(w, t)
  BY DEF Runs, Holds
<1>3. CompletePending(t) => \/ \E w \in Workers : pc[w] = "complete" /\ Holds(w, t)
                            \/ \E b \in Backends : Owns(b, t) /\ stmt[b].kind = "complete"
  BY DEF CompletePending, Holds, Owns
<1>4. ReplyPending(t) => \E b \in Backends : Owns(b, t) /\ stmt[b].kind = "claim"
  BY <1>1 DEF ReplyPending, Replied, Waiting, Owns, TypeOK
<1>5. \A v, w \in Workers : Runs(v, t) /\ Runs(w, t) => v = w
  BY <1>1, <1>2
<1>6. ~(IsRun(t) /\ CompletePending(t))
  BY <1>1, <1>2, <1>3 DEF IsRun, Runs
<1>7. ~(IsRun(t) /\ ReplyPending(t))
  BY <1>1, <1>2, <1>4 DEF IsRun
<1>8. ~(CompletePending(t) /\ ReplyPending(t))
  BY <1>1, <1>3, <1>4
<1>9. IsRun(t) \/ CompletePending(t) \/ ReplyPending(t) => status[t] = "processing"
  BY <1>1, <1>2, <1>3, <1>4 DEF IsRun
<1> QED BY <1>5, <1>6, <1>7, <1>8, <1>9

(* With one owner the cases of the stage exclude each other.               *)
LEMMA StageTableHolds == OneOwner => StageTable
<1> SUFFICES ASSUME OneOwner, NEW t \in Tasks PROVE StageTable!(t)
  BY DEF StageTable
<1>1. OneOwner!(t)
  BY DEF OneOwner
<1>2. IsRun(t) <=> \E w \in Workers : pc[w] = "working" /\ task[w] = t
  BY DEF IsRun, Runs
<1>3. status[t] # "processing" => StageOf(t) = status[t]
  BY <1>2 DEF StageOf
<1>4. IsRun(t) => StageOf(t) = "running"
  BY <1>1, <1>2 DEF StageOf
<1>5. CompletePending(t) => StageOf(t) = "worked"
  BY <1>1, <1>2 DEF StageOf
<1>6. ReplyPending(t) => StageOf(t) = "claimed"
  BY <1>1, <1>2 DEF StageOf
<1>7. status[t] = "processing" /\ ~IsRun(t) /\ ~CompletePending(t) /\ ~ReplyPending(t)
        => StageOf(t) = "dropped"
  BY <1>1, <1>2 DEF StageOf
<1>8. ASSUME NEW w \in Workers, Runs(w, t) PROVE RunnerOf(t) = w
  <2>1. \E v \in Workers : pc[v] = "working" /\ task[v] = t
    BY <1>8 DEF Runs
  <2>2. RunnerOf(t) = CHOOSE v \in Workers : pc[v] = "working" /\ task[v] = t
    BY <2>1 DEF RunnerOf
  <2>3. RunnerOf(t) \in Workers /\ Runs(RunnerOf(t), t)
    BY <2>1, <2>2, Zenon DEF Runs
  <2> QED BY <1>1, <1>8, <2>3
<1>9. ~IsRun(t) => RunnerOf(t) = NoWorker
  BY <1>2 DEF RunnerOf
<1> QED BY <1>3, <1>4, <1>5, <1>6, <1>7, <1>8, <1>9

(* The same after a step.                                                  *)
LEMMA TableNext == IInv' => OneOwner' /\ StageTable'
BY OneOwnerHolds, StageTableHolds, PTL

-----------------------------------------------------------------------------
(* A step leaves everything alone that the stage of a task depends on.     *)
Same(t) ==
  /\ status'[t] = status[t]
  /\ \A w \in Workers : Runs(w, t)' <=> Runs(w, t)
  /\ CompletePending(t)' <=> CompletePending(t)
  /\ ReplyPending(t)' <=> ReplyPending(t)

(* A step that touches nothing of a task leaves its stage and runner.      *)
LEMMA SameStage ==
  ASSUME OneOwner, OneOwner', StageTable, StageTable', NEW t \in Tasks, Same(t)
  PROVE  StageOf(t)' = StageOf(t) /\ RunnerOf(t)' = RunnerOf(t)
<1>1. IsRun(t)' <=> IsRun(t)
  BY DEF Same, IsRun
<1>2. StageOf(t)' = StageOf(t)
  BY <1>1 DEF Same, StageTable
<1>3. RunnerOf(t)' = RunnerOf(t)
  <2>1. CASE IsRun(t)
    BY <2>1 DEF Same, StageTable, IsRun
  <2>2. CASE ~IsRun(t)
    BY <1>1, <2>2 DEF StageTable
  <2> QED BY <2>1, <2>2
<1> QED BY <1>2, <1>3

-----------------------------------------------------------------------------
(* A step moves a task along an edge of the lifecycle.                     *)
Advance(t) ==
  \/ /\ <<StageOf(t), StageOf(t)'>> \in
          {<<"absent", "pending">>, <<"pending", "claimed">>, <<"pending", "dropped">>,
           <<"claimed", "dropped">>, <<"worked", "dropped">>, <<"dropped", "pending">>,
           <<"worked", "done">>, <<"done", "purged">>}
     /\ RunnerOf(t)' = RunnerOf(t)
  \/ StageOf(t) = "claimed" /\ StageOf(t)' = "running" /\ RunnerOf(t)' \in Workers
  \/ StageOf(t) = "running" /\ StageOf(t)' \in {"worked", "dropped"} /\ RunnerOf(t)' = NoWorker

Moves == \/ \A u \in Tasks : Same(u)
         \/ \E t \in Tasks : Advance(t) /\ \A u \in Tasks : u # t => Same(u)

(* Such steps are those of TaskLifecycle.                                  *)
LEMMA MovesImplement ==
  ASSUME OneOwner, OneOwner', StageTable, StageTable', Moves
  PROVE  [Lifecycle!Next]_(Lifecycle!vars)
<1> DEFINE stage  == [t \in Tasks |-> StageOf(t)]
           runner == [t \in Tasks |-> RunnerOf(t)]
<1>1. CASE \A u \in Tasks : Same(u)
  <2>1. \A u \in Tasks : StageOf(u)' = StageOf(u) /\ RunnerOf(u)' = RunnerOf(u)
    BY <1>1, SameStage
  <2>2. stage' = stage /\ runner' = runner
    BY <2>1
  <2> QED BY <2>2 DEF Lifecycle!vars
<1>2. ASSUME NEW t \in Tasks, Advance(t), \A u \in Tasks : u # t => Same(u)
      PROVE  Lifecycle!Next
  <2>1. \A u \in Tasks : u # t => StageOf(u)' = StageOf(u) /\ RunnerOf(u)' = RunnerOf(u)
    BY <1>2, SameStage
  <2>2. stage' = [stage EXCEPT ![t] = StageOf(t)']
    BY <2>1
  <2>3. runner' = [runner EXCEPT ![t] = RunnerOf(t)']
    BY <2>1
  <2>4. stage[t] = StageOf(t) /\ (RunnerOf(t)' = RunnerOf(t) => runner' = runner)
    BY <2>1
  <2> HIDE DEF stage, runner
  <2>5. CASE RunnerOf(t)' = RunnerOf(t) /\ <<StageOf(t), StageOf(t)'>> \in
          {<<"absent", "pending">>, <<"pending", "claimed">>, <<"pending", "dropped">>,
           <<"claimed", "dropped">>, <<"worked", "dropped">>, <<"dropped", "pending">>,
           <<"worked", "done">>, <<"done", "purged">>}
    BY <2>2, <2>4, <2>5 DEF Lifecycle!Next, Lifecycle!Move, Lifecycle!Add, Lifecycle!Claim,
       Lifecycle!ClaimLost, Lifecycle!GiveBack, Lifecycle!Complete, Lifecycle!Purge, stage, runner
  <2>6. CASE StageOf(t) = "claimed" /\ StageOf(t)' = "running" /\ RunnerOf(t)' \in Workers
    BY <2>2, <2>3, <2>4, <2>6 DEF Lifecycle!Next, Lifecycle!Begin, stage, runner
  <2>7. CASE /\ StageOf(t) = "running" /\ StageOf(t)' \in {"worked", "dropped"}
             /\ RunnerOf(t)' = NoWorker
    BY <2>2, <2>3, <2>4, <2>7 DEF Lifecycle!Next, Lifecycle!End, stage, runner
  <2> QED BY <1>2, <2>5, <2>6, <2>7 DEF Advance
<1> QED BY <1>1, <1>2 DEF Moves

-----------------------------------------------------------------------------
(* The steps that move no task.                                            *)
LEMMA StillSteps ==
  ASSUME IInv, NEW w \in Workers,
         \/ ClaimCall(w) \/ LoopEnd(w) \/ ClaimEmpty(w) \/ ClaimFailed(w) \/ Wake(w)
         \/ CompleteCall(w) \/ CompleteOk(w) \/ CompleteFailed(w) \/ ReleaseEnd(w)
         \/ Stop(w) \/ ReleaseTimeout(w) \/ Sigterm(w) \/ LivenessRestart(w) \/ Start(w)
  PROVE  \A u \in Tasks : Same(u)
<1> SUFFICES ASSUME NEW u \in Tasks PROVE Same(u)
  OBVIOUS
<1>0. TypeOK /\ SessionInv /\ ShapeInv
  BY DEF IInv
<1> USE <1>0, QueueAssumption DEF Same, Runs, CompletePending, ReplyPending, Replied, Waiting, TypeOK, Statement,
        rows, counters, incidents, Goto, Idle
<1>1. CASE LoopEnd(w) \/ Wake(w) \/ Stop(w) \/ ReleaseTimeout(w) \/ Sigterm(w)
           \/ LivenessRestart(w) \/ Start(w)
  BY <1>1 DEF LoopEnd, Wake, Stop, ReleaseTimeout, Sigterm, LivenessRestart, Start
<1>2. CASE ClaimCall(w)
  BY <1>2 DEF ClaimCall, Call, SessionInv
<1>3. CASE CompleteCall(w)
  BY <1>3 DEF CompleteCall, Call, SessionInv
<1>4. CASE ClaimEmpty(w)
  BY <1>4 DEF ClaimEmpty, Return, SessionInv
<1>5. CASE ClaimFailed(w)
  BY <1>5 DEF ClaimFailed, Return, SessionInv
<1>6. CASE CompleteOk(w)
  <2>1. stmt[conn[w]].kind = "complete" /\ stmt[conn[w]].phase # "sent" /\ conn[w] \in Backends
    BY <1>6 DEF CompleteOk, SessionInv, KindOf
  <2> QED BY <1>6, <2>1 DEF CompleteOk, Return, SessionInv
<1>7. CASE CompleteFailed(w)
  BY <1>7 DEF CompleteFailed, Return, SessionInv
<1>8. CASE ReleaseEnd(w)
  <2>1. stmt[conn[w]].kind = "release" /\ stmt[conn[w]].phase # "sent" /\ conn[w] \in Backends
    BY <1>8 DEF ReleaseEnd, SessionInv, KindOf
  <2> QED BY <1>8, <2>1 DEF ReleaseEnd, Return, SessionInv
<1> QED BY <1>1, <1>2, <1>3, <1>4, <1>5, <1>6, <1>7, <1>8

(* A worker lets go of the reply it waits for: if it is that of a claim,   *)
(* the task is dropped.                                                    *)
LEMMA DropReply ==
  ASSUME IInv, IInv', NEW w \in Workers, Waiting(w), UNCHANGED <<status, task>>,
         conn' = [conn EXCEPT ![w] = NoBackend],
         \/ UNCHANGED stmt
         \/ stmt[conn[w]].phase # "sent" /\ stmt' = [stmt EXCEPT ![conn[w]] = Idle],
         pc' = pc \/ \E to \in {"loop", "backoff", "stopping", "exited"} : pc' = [pc EXCEPT ![w] = to]
  PROVE  Moves
<1>0. TypeOK /\ SessionInv /\ OneOwner /\ OneOwner' /\ StageTable /\ StageTable'
  BY OneOwnerHolds, StageTableHolds, TableNext DEF IInv
<1>1. conn[w] \in Backends /\ pc[w] \in {"claiming", "completing", "releasing"}
  BY <1>0 DEF TypeOK, SessionInv, Waiting
<1>2. \A v \in Workers, u \in Tasks : Runs(v, u)' <=> Runs(v, u)
  BY <1>0, <1>1 DEF Runs, TypeOK
<1>3. \A u \in Tasks : CompletePending(u)' <=> CompletePending(u)
  BY <1>0, <1>1 DEF CompletePending, TypeOK, Idle, Statement
<1>4. \A u \in Tasks : ReplyPending(u) /\ ~(Replied(w, "ok") /\ stmt[conn[w]].kind = "claim"
                                            /\ stmt[conn[w]].task = u) => ReplyPending(u)'
  BY <1>0, <1>1, QueueAssumption DEF ReplyPending, Replied, Waiting, SessionInv, TypeOK
<1>5. \A u \in Tasks : ReplyPending(u)' => ReplyPending(u)
  BY <1>0, <1>1, QueueAssumption DEF ReplyPending, Replied, Waiting, TypeOK, Idle
<1>6. CASE \E t \in Tasks : ReplyPending(t) /\ ~ReplyPending(t)'
  <2> PICK t \in Tasks : ReplyPending(t) /\ ~ReplyPending(t)'
    BY <1>6
  <2>1. \A u \in Tasks : u # t => Same(u)
    BY <1>2, <1>3, <1>4, <1>5 DEF Same
  <2>2. StageOf(t) = "claimed" /\ ~IsRun(t) /\ ~CompletePending(t) /\ status[t] = "processing"
    BY <1>0 DEF StageTable, OneOwner
  <2>3. StageOf(t)' = "dropped" /\ ~IsRun(t)'
    BY <1>0, <1>2, <1>3, <2>2 DEF StageTable, IsRun
  <2>4. RunnerOf(t)' = RunnerOf(t)
    BY <1>0, <2>2, <2>3 DEF StageTable
  <2> QED BY <2>1, <2>2, <2>3, <2>4 DEF Moves, Advance
<1>7. CASE \A t \in Tasks : ReplyPending(t) => ReplyPending(t)'
  BY <1>2, <1>3, <1>5, <1>7 DEF Same, Moves
<1> QED BY <1>6, <1>7

(* A worker lets go of the task it holds without completing it.            *)
LEMMA DropTask ==
  ASSUME IInv, IInv', NEW w \in Workers, pc[w] \in {"working", "complete"}, UNCHANGED status,
         task' = [task EXCEPT ![w] = NoTask],
         \E to \in {"loop", "releasing", "exited"} : pc' = [pc EXCEPT ![w] = to],
         \/ UNCHANGED stmt /\ conn' = [conn EXCEPT ![w] = NoBackend]
         \/ UNCHANGED stmt /\ UNCHANGED conn
         \/ Call(w, "release", task[w])
  PROVE  Moves
<1>0. TypeOK /\ SessionInv /\ OneOwner /\ OneOwner' /\ StageTable /\ StageTable' /\ OwnerInv
  BY OneOwnerHolds, StageTableHolds, TableNext DEF IInv
<1> PICK t \in Tasks : t = task[w]
  BY <1>0 DEF TypeOK
<1>1. Holds(w, t) /\ status[t] = "processing" /\ status'[t] = "processing"
  BY <1>0 DEF TypeOK, Holds, OwnerInv
<1>2. pc'[w] \notin {"working", "complete"} /\ task'[w] = NoTask /\ conn[w] = NoBackend
  BY <1>0 DEF TypeOK, SessionInv
<1>3. \A u \in Tasks, v \in Workers : Runs(v, u)' <=> (Runs(v, u) /\ v # w)
  BY <1>0, <1>2 DEF TypeOK, Runs
<1>4. \A u \in Tasks : CompletePending(u)' => CompletePending(u)
  BY <1>0, <1>2 DEF CompletePending, Call, TypeOK
<1>5. \A u \in Tasks : u # t /\ CompletePending(u) => CompletePending(u)'
  BY <1>0, <1>2 DEF CompletePending, Call, TypeOK
<1>6. \A u \in Tasks : ReplyPending(u)' <=> ReplyPending(u)
  BY <1>0, <1>2, QueueAssumption DEF ReplyPending, Replied, Waiting, Call, TypeOK, SessionInv
<1>7. \A u \in Tasks : u # t => Same(u)
  BY <1>1, <1>3, <1>4, <1>5, <1>6 DEF Same, Runs
<1>8. ~ReplyPending(t)
  BY <1>0, <1>1 DEF OneOwner, CompletePending, IsRun, Runs, Holds
<1>9. ~IsRun(t)'
  BY <1>0, <1>1, <1>3 DEF IsRun, Runs, OwnerInv, Holds
<1>10. \A b \in Backends : ~Owns(b, t)
  BY <1>0, <1>1 DEF OwnerInv
<1>11. ~CompletePending(t)'
  <2>1. \A v \in Workers : pc'[v] = "complete" => task'[v] # t
    BY <1>0, <1>1, <1>2 DEF OwnerInv, Holds, TypeOK
  <2>2. \A b \in Backends : ~(stmt'[b].kind = "complete" /\ stmt'[b].phase = "sent"
                              /\ stmt'[b].task = t)
    BY <1>0, <1>10 DEF Owns, Call, TypeOK
  <2> QED BY <2>1, <2>2 DEF CompletePending
<1>12. StageOf(t)' = "dropped" /\ RunnerOf(t)' = NoWorker
  BY <1>0, <1>1, <1>6, <1>8, <1>9, <1>11 DEF StageTable
<1>13. CASE pc[w] = "working"
  <2>1. StageOf(t) = "running"
    BY <1>0, <1>1, <1>13 DEF StageTable, IsRun, Runs
  <2> QED BY <1>1, <1>7, <1>12, <2>1 DEF Moves, Advance
<1>14. CASE pc[w] = "complete"
  <2>1. CompletePending(t) /\ ~IsRun(t)
    BY <1>0, <1>1, <1>14 DEF CompletePending, OneOwner
  <2>2. StageOf(t) = "worked" /\ RunnerOf(t) = NoWorker
    BY <1>0, <1>1, <2>1 DEF StageTable
  <2> QED BY <1>1, <1>7, <1>12, <2>2 DEF Moves, Advance
<1> QED BY <1>13, <1>14

(* A claim's reply starts the run of its task; a run that ends is worked.  *)
LEMMA RunSteps ==
  ASSUME IInv, IInv', NEW w \in Workers, ClaimGot(w) \/ WorkDone(w)
  PROVE  Moves
<1>0. TypeOK /\ SessionInv /\ ShapeInv /\ OneOwner /\ OneOwner' /\ StageTable /\ StageTable' /\ OwnerInv
  BY OneOwnerHolds, StageTableHolds, TableNext DEF IInv
<1>1. CASE ClaimGot(w)
  <2> PICK t \in Tasks : t = stmt[conn[w]].task
    BY <1>0, <1>1 DEF ClaimGot, TypeOK, Statement, Replied, Waiting
  <2>1. conn[w] \in Backends /\ stmt[conn[w]].kind = "claim" /\ stmt[conn[w]].phase = "ok"
    BY <1>0, <1>1 DEF ClaimGot, TypeOK, Replied, Waiting, SessionInv, KindOf
  <2>2. ReplyPending(t) /\ status[t] = "processing"
    BY <1>0, <1>1, <2>1 DEF ClaimGot, Replied, ReplyPending, OneOwner
  <2>3. Runs(w, t)' /\ status' = status
    BY <1>0, <1>1 DEF ClaimGot, Runs, Goto, rows, TypeOK
  <2>4. \A u \in Tasks, v \in Workers : u # t => (Runs(v, u)' <=> Runs(v, u))
    BY <1>0, <1>1 DEF ClaimGot, Runs, Goto, TypeOK
  <2>5. \A u \in Tasks : CompletePending(u)' <=> CompletePending(u)
    BY <1>0, <1>1, <2>1 DEF ClaimGot, CompletePending, Return, Goto, TypeOK, Idle
  <2>6. \A u \in Tasks : u # t => (ReplyPending(u)' <=> ReplyPending(u))
    BY <1>0, <1>1, <2>1, QueueAssumption DEF ClaimGot, ReplyPending, Replied, Waiting,
       Return, TypeOK, SessionInv, Idle
  <2>7. \A u \in Tasks : u # t => Same(u)
    BY <2>3, <2>4, <2>5, <2>6 DEF Same
  <2>8. StageOf(t) = "claimed" /\ StageOf(t)' = "running" /\ RunnerOf(t)' \in Workers
    BY <1>0, <2>2, <2>3 DEF StageTable, IsRun
  <2> QED BY <2>7, <2>8 DEF Moves, Advance
<1>2. CASE WorkDone(w)
  <2> PICK t \in Tasks : t = task[w]
    BY <1>0, <1>2 DEF WorkDone, TypeOK
  <2>1. Runs(w, t) /\ status[t] = "processing" /\ status' = status
    BY <1>0, <1>2 DEF WorkDone, Runs, OneOwner, IsRun, rows
  <2>2. CompletePending(t)' /\ ~IsRun(t)'
    <3>1. CompletePending(t)'
      BY <1>0, <1>2 DEF WorkDone, CompletePending, Goto, TypeOK
    <3> QED BY <1>0, <3>1 DEF OneOwner
  <2>3. \A u \in Tasks, v \in Workers : u # t => (Runs(v, u)' <=> Runs(v, u))
    BY <1>0, <1>2 DEF WorkDone, Runs, Goto, TypeOK
  <2>4. \A u \in Tasks : u # t => (CompletePending(u)' <=> CompletePending(u))
    BY <1>0, <1>2 DEF WorkDone, CompletePending, Goto, TypeOK
  <2>5. \A u \in Tasks : ReplyPending(u)' <=> ReplyPending(u)
    BY <1>2 DEF WorkDone, ReplyPending, Replied, Waiting
  <2>6. \A u \in Tasks : u # t => Same(u)
    BY <2>1, <2>3, <2>4, <2>5 DEF Same
  <2>7. StageOf(t) = "running" /\ StageOf(t)' = "worked" /\ RunnerOf(t)' = NoWorker
    BY <1>0, <2>1, <2>2 DEF StageTable, IsRun
  <2> QED BY <2>6, <2>7 DEF Moves, Advance
<1> QED BY <1>1, <1>2

(* Every step of a worker moves one task at most.                          *)
LEMMA WorkerMoves ==
  ASSUME IInv, IInv', NEW w \in Workers,
         Loop(w) \/ Incident(w) \/ LivenessRestart(w) \/ Start(w)
  PROVE  Moves
<1>0. TypeOK /\ SessionInv
  BY DEF IInv
<1>1. CASE Cancelled(w) \/ ConnectionLost(w) \/ ReplyLost(w)
  <2>1. CASE Waiting(w)
    <3>1. CASE Cancelled(w)
      BY <2>1, <3>1, DropReply DEF Cancelled, HangUp, Goto, AfterError, rows
    <3>2. CASE ConnectionLost(w)
      BY <2>1, <3>2, DropReply DEF ConnectionLost, HangUp, Goto, AfterError, rows
    <3>3. CASE ReplyLost(w)
      BY <2>1, <3>3, DropReply DEF ReplyLost, Return, Replied, rows
    <3> QED BY <1>1, <3>1, <3>2, <3>3
  <2>2. CASE ~Waiting(w)
    <3>1. Cancelled(w)
      BY <1>1, <2>2 DEF ConnectionLost, ReplyLost, Replied
    <3>2. UNCHANGED <<status, stmt, task, conn>>
      BY <1>0, <2>2, <3>1 DEF Cancelled, HangUp, Waiting, TypeOK, rows
    <3>3. /\ pc[w] \notin {"working", "complete"} /\ pc'[w] \notin {"working", "complete"}
          /\ \A v \in Workers : v # w => pc'[v] = pc[v]
      BY <1>0, <3>1 DEF Cancelled, Goto, AfterError, TypeOK
    <3> QED BY <3>2, <3>3 DEF Moves, Same, Runs, CompletePending, ReplyPending, Replied, Waiting
  <2> QED BY <2>1, <2>2
<1>2. CASE Interrupted(w)
  BY <1>2, DropTask DEF Interrupted, Goto, rows
<1>3. CASE CompleteRefused(w)
  BY <1>3, DropTask DEF CompleteRefused, Goto, rows
<1>4. CASE Crash(w)
  <2>1. CASE pc[w] \in {"working", "complete"}
    BY <1>4, <2>1, DropTask DEF Crash, HangUp, Goto, rows
  <2>2. CASE pc[w] \notin {"working", "complete"}
    <3>1. task' = task
      BY <1>0, <1>4, <2>2 DEF Crash, TypeOK
    <3>2. CASE Waiting(w)
      BY <1>4, <3>1, <3>2, DropReply DEF Crash, HangUp, Goto, rows
    <3>3. CASE ~Waiting(w)
      <4>1. UNCHANGED <<status, stmt, task, conn>>
        BY <1>0, <1>4, <3>1, <3>3 DEF Crash, HangUp, Waiting, TypeOK, rows
      <4>2. pc'[w] \notin {"working", "complete"} /\ \A v \in Workers : v # w => pc'[v] = pc[v]
        BY <1>0, <1>4 DEF Crash, Goto, TypeOK
      <4> QED BY <2>2, <4>1, <4>2
              DEF Moves, Same, Runs, CompletePending, ReplyPending, Replied, Waiting
    <3> QED BY <3>2, <3>3
  <2> QED BY <2>1, <2>2
<1> QED BY <1>1, <1>2, <1>3, <1>4, RunSteps, StillSteps DEF Loop, Incident, Moves

-----------------------------------------------------------------------------
(* The database moves the task of the statement it executes.               *)
LEMMA ServerMoves ==
  ASSUME IInv, IInv', NEW b \in Backends, Server(b) \/ StmtFails(b)
  PROVE  Moves
<1>0. TypeOK /\ SessionInv /\ ShapeInv /\ LockInv /\ OneOwner /\ OneOwner'
      /\ StageTable /\ StageTable' /\ OwnerInv
  BY OneOwnerHolds, StageTableHolds, TableNext DEF IInv
<1>1. UNCHANGED <<pc, task, conn>>
  BY DEF Server, ClaimPick, ClaimCommit, ExecComplete, ExecRelease, Reap, StmtFails
<1>2. \A u \in Tasks, v \in Workers : Runs(v, u)' <=> Runs(v, u)
  BY <1>1 DEF Runs
<1>3. \A c \in Backends : c # b => stmt'[c] = stmt[c]
  BY <1>0 DEF Server, ClaimPick, ClaimCommit, ExecComplete, ExecRelease, Reap, StmtFails, TypeOK
<1>4. CASE ClaimPick(b) \/ Reap(b)
  <2>1. UNCHANGED status
    BY <1>4 DEF ClaimPick, Reap, rows
  <2>2. stmt[b].kind # "complete" \/ stmt[b].phase # "sent"
    BY <1>4 DEF ClaimPick, Reap
  <2>3. stmt'[b].kind # "complete" \/ stmt'[b].phase # "sent"
    BY <1>0, <1>4 DEF ClaimPick, Reap, TypeOK, Statement, Idle
  <2>4. \A u \in Tasks : CompletePending(u)' <=> CompletePending(u)
    BY <1>1, <1>3, <2>2, <2>3 DEF CompletePending
  <2>5. \A w \in Workers : conn[w] = b => ~(stmt[b].phase = "ok" /\ stmt[b].kind = "claim")
    BY <1>4 DEF ClaimPick, Reap
  <2>6. \A w \in Workers, u \in Tasks :
          conn[w] = b => ~(stmt'[b].phase = "ok" /\ stmt'[b].kind = "claim" /\ stmt'[b].task = u)
    <3>1. CASE ClaimPick(b)
      <4>1. stmt[b].task = NoTask
        BY <1>0, <3>1 DEF ClaimPick, ShapeInv
      <4> QED BY <1>0, <3>1, <4>1, QueueAssumption DEF ClaimPick, TypeOK, Statement
    <3>2. CASE Reap(b)
      BY <3>2 DEF Reap
    <3> QED BY <1>4, <3>1, <3>2
  <2>7. \A u \in Tasks : ReplyPending(u)' <=> ReplyPending(u)
    BY <1>0, <1>1, <1>3, <2>5, <2>6 DEF ReplyPending, Replied, Waiting, TypeOK
  <2> QED BY <1>2, <2>1, <2>4, <2>7 DEF Moves, Same
<1>5. CASE ClaimCommit(b)
  <2> PICK t \in Tasks : t = stmt[b].task
    BY <1>0, <1>5 DEF ClaimCommit, ShapeInv
  <2>1. /\ stmt[b].kind = "claim" /\ stmt[b].phase = "locked" /\ status[t] = "pending"
        /\ stmt'[b].kind = "claim" /\ stmt'[b].phase = "ok" /\ stmt'[b].task = t
        /\ status'[t] = "processing" /\ \A u \in Tasks : u # t => status'[u] = status[u]
    BY <1>0, <1>5 DEF ClaimCommit, ShapeInv, LockInv, TypeOK, Statement
  <2>2. \A u \in Tasks : CompletePending(u)' <=> CompletePending(u)
    BY <1>1, <1>3, <2>1 DEF CompletePending
  <2>3. \A u \in Tasks : u # t => (ReplyPending(u)' <=> ReplyPending(u))
    BY <1>0, <1>1, <1>3, <2>1 DEF ReplyPending, Replied, Waiting, TypeOK
  <2>4. ~IsRun(t) /\ ~CompletePending(t) /\ StageOf(t) = "pending" /\ RunnerOf(t) = NoWorker
    BY <1>0, <2>1 DEF OneOwner, StageTable
  <2>5. ~IsRun(t)' /\ ~CompletePending(t)'
    BY <1>2, <2>2, <2>4 DEF IsRun
  <2>6. StageOf(t)' \in {"claimed", "dropped"} /\ RunnerOf(t)' = NoWorker
    BY <1>0, <2>1, <2>5 DEF StageTable
  <2>7. \A u \in Tasks : u # t => Same(u)
    BY <1>2, <2>1, <2>2, <2>3 DEF Same
  <2> QED BY <2>4, <2>6, <2>7 DEF Moves, Advance
<1>6. CASE ExecComplete(b)
  <2> PICK t \in Tasks : t = stmt[b].task
    BY <1>0, <1>6 DEF ExecComplete, ShapeInv
  <2>1. /\ stmt[b].kind = "complete" /\ stmt[b].phase = "sent"
        /\ stmt'[b].kind = "complete" /\ stmt'[b].phase = "ok" /\ stmt'[b].task = t
        /\ \A u \in Tasks : u # t => status'[u] = status[u]
    BY <1>0, <1>6 DEF ExecComplete, TypeOK, Statement
  <2>2. CompletePending(t)
    BY <2>1 DEF CompletePending
  <2>3. status[t] = "processing" /\ ~IsRun(t)
    BY <1>0, <2>2 DEF OneOwner
  <2>4. status'[t] = "done"
    BY <1>0, <1>6, <2>3 DEF ExecComplete, TypeOK
  <2>5. \A u \in Tasks : u # t => (CompletePending(u)' <=> CompletePending(u))
    BY <1>1, <1>3, <2>1 DEF CompletePending
  <2>6. \A u \in Tasks : ReplyPending(u)' <=> ReplyPending(u)
    BY <1>0, <1>1, <1>3, <2>1 DEF ReplyPending, Replied, Waiting, TypeOK
  <2>7. ~IsRun(t)'
    BY <1>2, <2>3 DEF IsRun
  <2>8. StageOf(t) = "worked" /\ StageOf(t)' = "done" /\ RunnerOf(t)' = RunnerOf(t)
    BY <1>0, <2>2, <2>3, <2>4, <2>7 DEF StageTable
  <2>9. \A u \in Tasks : u # t => Same(u)
    BY <1>2, <2>1, <2>5, <2>6 DEF Same
  <2> QED BY <2>8, <2>9 DEF Moves, Advance
<1>7. CASE ExecRelease(b)
  <2> PICK t \in Tasks : t = stmt[b].task
    BY <1>0, <1>7 DEF ExecRelease, ShapeInv
  <2>1. /\ stmt[b].kind = "release" /\ stmt[b].phase = "sent"
        /\ stmt'[b].kind = "release" /\ stmt'[b].phase = "ok" /\ stmt'[b].task = t
        /\ \A u \in Tasks : u # t => status'[u] = status[u]
    BY <1>0, <1>7 DEF ExecRelease, TypeOK, Statement
  <2>2. Owns(b, t)
    BY <2>1 DEF Owns
  <2>3. status[t] = "processing" /\ \A w \in Workers : ~Holds(w, t)
    BY <1>0, <2>2 DEF OwnerInv
  <2>4. ~IsRun(t) /\ ~CompletePending(t) /\ ~ReplyPending(t)
    <3>1. \A c \in Backends : Owns(c, t) => c = b
      BY <1>0, <2>2 DEF OwnerInv
    <3>2. ~IsRun(t)
      BY <2>3 DEF IsRun, Runs, Holds
    <3>3. ~CompletePending(t)
      BY <2>1, <2>3, <3>1 DEF CompletePending, Owns, Holds
    <3>4. ~ReplyPending(t)
      BY <1>0, <2>1, <3>1 DEF ReplyPending, Owns, Replied, Waiting, TypeOK
    <3> QED BY <3>2, <3>3, <3>4
  <2>5. status'[t] = "pending"
    BY <1>0, <1>7, <2>3 DEF ExecRelease, TypeOK
  <2>6. \A u \in Tasks : CompletePending(u)' <=> CompletePending(u)
    BY <1>1, <1>3, <2>1 DEF CompletePending
  <2>7. \A u \in Tasks : ReplyPending(u)' <=> ReplyPending(u)
    BY <1>0, <1>1, <1>3, <2>1 DEF ReplyPending, Replied, Waiting, TypeOK
  <2>8. ~IsRun(t)'
    BY <1>2, <2>4 DEF IsRun
  <2>9. StageOf(t) = "dropped" /\ StageOf(t)' = "pending" /\ RunnerOf(t)' = RunnerOf(t)
    BY <1>0, <2>3, <2>4, <2>5, <2>8 DEF StageTable
  <2>10. \A u \in Tasks : u # t => Same(u)
    BY <1>2, <2>1, <2>6, <2>7 DEF Same
  <2> QED BY <2>9, <2>10 DEF Moves, Advance
<1>8. CASE StmtFails(b)
  <2>1. /\ UNCHANGED status
        /\ stmt[b].phase \in {"sent", "locked"}
        /\ stmt'[b].kind = stmt[b].kind /\ stmt'[b].phase = "failed" /\ stmt'[b].task = stmt[b].task
    BY <1>0, <1>8 DEF StmtFails, TypeOK, Statement, rows
  <2>2. \A u \in Tasks : ReplyPending(u)' <=> ReplyPending(u)
    BY <1>0, <1>1, <1>3, <2>1 DEF ReplyPending, Replied, Waiting, TypeOK
  <2>3. CASE \A u \in Tasks : CompletePending(u)' <=> CompletePending(u)
    BY <1>2, <2>1, <2>2, <2>3 DEF Moves, Same
  <2>4. CASE \E t \in Tasks : ~(CompletePending(t)' <=> CompletePending(t))
    <3> PICK t \in Tasks : ~(CompletePending(t)' <=> CompletePending(t))
      BY <2>4
    <3>1. /\ CompletePending(t) /\ ~CompletePending(t)' /\ stmt[b].task = t
          /\ \A u \in Tasks : u # t => (CompletePending(u)' <=> CompletePending(u))
      BY <1>1, <1>3, <2>1 DEF CompletePending
    <3>2. status[t] = "processing" /\ ~IsRun(t) /\ ~ReplyPending(t)
      BY <1>0, <3>1 DEF OneOwner
    <3>3. ~IsRun(t)' /\ ~ReplyPending(t)' /\ status'[t] = "processing"
      BY <1>2, <2>1, <2>2, <3>2 DEF IsRun
    <3>4. StageOf(t) = "worked" /\ StageOf(t)' = "dropped" /\ RunnerOf(t)' = RunnerOf(t)
      BY <1>0, <3>1, <3>2, <3>3 DEF StageTable
    <3>5. \A u \in Tasks : u # t => Same(u)
      BY <1>2, <2>1, <2>2, <3>1 DEF Same
    <3> QED BY <3>4, <3>5 DEF Moves, Advance
  <2> QED BY <2>3, <2>4
<1> QED BY <1>4, <1>5, <1>6, <1>7, <1>8 DEF Server

(* A row is inserted, or an old one deleted.                               *)
LEMMA RowMoves ==
  ASSUME IInv, IInv', NEW t \in Tasks, Create(t) \/ Purge(t)
  PROVE  Moves
<1>0. TypeOK /\ OneOwner /\ StageTable /\ StageTable'
  BY OneOwnerHolds, StageTableHolds, TableNext DEF IInv
<1>1. UNCHANGED <<pc, task, conn, stmt>> /\ \A u \in Tasks : u # t => status'[u] = status[u]
  BY <1>0 DEF Create, Purge, TypeOK
<1>2. \A u \in Tasks : u # t => Same(u)
  BY <1>1 DEF Same, Runs, CompletePending, ReplyPending, Replied, Waiting
<1>3. <<status[t], status'[t]>> \in {<<"absent", "pending">>, <<"done", "purged">>}
  BY <1>0 DEF Create, Purge, TypeOK
<1>4. ~IsRun(t) /\ ~IsRun(t)'
  BY <1>0, <1>1, <1>3 DEF OneOwner, IsRun, Runs
<1>5. StageOf(t) = status[t] /\ StageOf(t)' = status'[t] /\ RunnerOf(t)' = RunnerOf(t)
  BY <1>0, <1>3, <1>4 DEF StageTable
<1> QED BY <1>2, <1>3, <1>5 DEF Moves, Advance

-----------------------------------------------------------------------------
(* The queue implements the lifecycle: it starts where the lifecycle       *)
(* starts, and each of its steps is one of the lifecycle or a stutter.     *)
THEOREM ImplementsLifecycleHolds == Spec => ImplementsLifecycle
<1>1. Init => Lifecycle!Init
  <2> SUFFICES ASSUME Init PROVE Lifecycle!Init
    OBVIOUS
  <2>1. OneOwner /\ StageTable
    BY InitInv, OneOwnerHolds, StageTableHolds
  <2>2. \A t \in Tasks : status[t] = "absent" /\ ~IsRun(t)
    BY <2>1 DEF Init, OneOwner
  <2>3. \A t \in Tasks : StageOf(t) = "absent" /\ RunnerOf(t) = NoWorker
    BY <2>1, <2>2 DEF StageTable
  <2> QED BY <2>3 DEF Lifecycle!Init
<1>2. IInv /\ IInv' /\ [Next]_vars => [Lifecycle!Next]_(Lifecycle!vars)
  <2> SUFFICES ASSUME IInv, IInv', [Next]_vars PROVE Moves
    BY OneOwnerHolds, StageTableHolds, TableNext, MovesImplement
  <2>1. CASE UNCHANGED vars
    BY <2>1 DEF vars, Moves, Same, Runs, CompletePending, ReplyPending, Replied, Waiting
  <2> QED BY <2>1, WorkerMoves, ServerMoves, RowMoves DEF Next
<1> QED BY <1>1, <1>2, Ownership, PTL DEF Spec, ImplementsLifecycle, Lifecycle!Spec
=============================================================================
