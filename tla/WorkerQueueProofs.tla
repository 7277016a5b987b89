-------------------------- MODULE WorkerQueueProofs --------------------------
(***************************************************************************)
(* Proofs about WorkerQueue, for any number of tasks, workers, database    *)
(* sessions and incidents.                                                 *)
(*                                                                         *)
(* The safety of the queue rests on ownership.  A row in "processing" has  *)
(* at most one owner: the worker that holds the task, the session whose    *)
(* committed claim a worker still waits for, or the session with an        *)
(* unexecuted Complete or Release for it.  Ownership moves from the claim  *)
(* to the worker to the final update and is never duplicated; it may be    *)
(* lost, which is how a task is stranded.                                  *)
(***************************************************************************)
EXTENDS WorkerQueue, FiniteSetTheorems, TLAPS

(* Who waits for which session, and for what.                              *)
KindOf(where) == CASE where = "claiming"   -> "claim"
                   [] where = "completing" -> "complete"
                   [] where = "releasing"  -> "release"
                   [] OTHER                -> "none"

SessionInv ==
  \A w \in Workers : conn[w] # NoBackend =>
    /\ pc[w] \in {"claiming", "completing", "releasing"}
    /\ stmt[conn[w]].phase # "idle"
    /\ stmt[conn[w]].by = w
    /\ stmt[conn[w]].kind = KindOf(pc[w])

(* What a statement looks like in each phase.                              *)
ShapeInv ==
  \A b \in Backends :
    /\ stmt[b].phase = "locked" => stmt[b].kind = "claim" /\ stmt[b].task \in Tasks
    /\ stmt[b].phase # "idle" => stmt[b].by \in Workers /\ stmt[b].kind # "none"
    /\ stmt[b].kind \in {"complete", "release"} => stmt[b].task \in Tasks
    /\ stmt[b].kind = "claim" /\ stmt[b].phase = "sent" => stmt[b].task = NoTask

(* Row locks exclude each other and guard pending rows.                    *)
LockInv ==
  /\ \A b \in Backends : stmt[b].phase = "locked" => status[stmt[b].task] = "pending"
  /\ \A b, c \in Backends :
       /\ stmt[b].phase = "locked" /\ stmt[c].phase = "locked"
       /\ stmt[b].task = stmt[c].task
       => b = c

(* The session owns the task: its committed claim is awaited, or its       *)
(* update is still to be executed.                                         *)
Owns(b, t) ==
  /\ stmt[b].task = t
  /\ \/ /\ stmt[b].kind = "claim" /\ stmt[b].phase = "ok"
        /\ \E w \in Workers : conn[w] = b
     \/ stmt[b].kind \in {"complete", "release"} /\ stmt[b].phase = "sent"

OwnerInv ==
  \A t \in Tasks :
    /\ \A w \in Workers : Holds(w, t) => status[t] = "processing" /\ worker[t] = w
    /\ \A b \in Backends : Owns(b, t) => status[t] = "processing" /\ worker[t] = stmt[b].by
    /\ \A v, w \in Workers : Holds(v, t) /\ Holds(w, t) => v = w
    /\ \A w \in Workers, b \in Backends : ~(Holds(w, t) /\ Owns(b, t))
    /\ \A b, c \in Backends : Owns(b, t) /\ Owns(c, t) => b = c

IInv == TypeOK /\ SessionInv /\ ShapeInv /\ LockInv /\ OwnerInv

-----------------------------------------------------------------------------
(* The variables always hold values of their types.                        *)
LEMMA InitInv == Init => IInv
<1> SUFFICES ASSUME Init PROVE IInv
  OBVIOUS
<1> USE QueueAssumption DEF Init
<1>1. TypeOK
  BY DEF TypeOK, Status, Pcs, Statement, Kinds, Phases, Idle
<1>2. SessionInv
  BY DEF SessionInv
<1>3. ShapeInv /\ LockInv
  BY DEF ShapeInv, LockInv, Idle
<1>4. OwnerInv
  BY DEF OwnerInv, Owns, Holds, Idle
<1>5. QED
  BY <1>1, <1>2, <1>3, <1>4 DEF IInv

(* The server moves one statement to another phase and leaves the rest.    *)
LEMMA PhaseStep ==
  ASSUME stmt \in [Backends -> Statement], NEW b \in Backends, NEW x \in Phases,
         stmt' = [stmt EXCEPT ![b].phase = x]
  PROVE  stmt' \in [Backends -> Statement]
<1>1. stmt[b] \in Statement
  OBVIOUS
<1>2. [stmt[b] EXCEPT !.phase = x] \in Statement
  BY <1>1 DEF Statement
<1>3. stmt' = [stmt EXCEPT ![b] = [stmt[b] EXCEPT !.phase = x]]
  OBVIOUS
<1>4. QED
  BY <1>2, <1>3

(* Every step keeps every variable in its type.                            *)
LEMMA TypeStep == TypeOK /\ [Next]_vars => TypeOK'
<1> SUFFICES ASSUME TypeOK, [Next]_vars PROVE TypeOK'
  OBVIOUS
<1> USE QueueAssumption DEF TypeOK, Status, Pcs, Statement, Kinds, Phases, Idle,
        rows, counters, incidents, Call, Return, HangUp, Goto, Replied, Waiting,
        Fault, CountError
<1>1. ASSUME NEW w \in Workers, Loop(w) PROVE TypeOK'
  <2>1. CASE ClaimCall(w)
    BY <2>1 DEF ClaimCall
  <2>2. CASE LoopEnd(w)
    BY <2>2 DEF LoopEnd
  <2>3. CASE ClaimGot(w)
    BY <2>3 DEF ClaimGot
  <2>4. CASE ClaimEmpty(w)
    BY <2>4 DEF ClaimEmpty
  <2>5. CASE ClaimFailed(w)
    BY <2>5 DEF ClaimFailed
  <2>6. CASE Wake(w)
    BY <2>6 DEF Wake
  <2>7. CASE WorkDone(w)
    BY <2>7 DEF WorkDone
  <2>8. CASE Interrupted(w)
    BY <2>8 DEF Interrupted
  <2>9. CASE CompleteCall(w)
    BY <2>9 DEF CompleteCall
  <2>10. CASE CompleteRefused(w)
    BY <2>10 DEF CompleteRefused
  <2>11. CASE CompleteOk(w)
    BY <2>11 DEF CompleteOk
  <2>12. CASE CompleteFailed(w)
    BY <2>12 DEF CompleteFailed
  <2>13. CASE ReleaseEnd(w)
    BY <2>13 DEF ReleaseEnd
  <2>14. CASE Stop(w)
    BY <2>14 DEF Stop
  <2>15. CASE Cancelled(w)
    BY <2>15 DEF Cancelled, AfterError
  <2>16. CASE ReleaseTimeout(w)
    BY <2>16 DEF ReleaseTimeout
  <2>17. QED
    BY <1>1, <2>1, <2>2, <2>3, <2>4, <2>5, <2>6, <2>7, <2>8, <2>9, <2>10,
       <2>11, <2>12, <2>13, <2>14, <2>15, <2>16 DEF Loop
<1>2. ASSUME NEW w \in Workers, Incident(w) PROVE TypeOK'
  <2>1. CASE ConnectionLost(w)
    BY <2>1 DEF ConnectionLost, AfterError
  <2>2. CASE ReplyLost(w)
    BY <2>2 DEF ReplyLost
  <2>3. CASE Sigterm(w)
    BY <2>3 DEF Sigterm
  <2>4. CASE Crash(w)
    BY <2>4 DEF Crash
  <2>5. QED
    BY <1>2, <2>1, <2>2, <2>3, <2>4 DEF Incident
<1>3. ASSUME NEW w \in Workers, LivenessRestart(w) \/ Start(w) PROVE TypeOK'
  <2>1. CASE LivenessRestart(w)
    BY <2>1 DEF LivenessRestart, Wedged
  <2>2. CASE Start(w)
    BY <2>2 DEF Start
  <2>3. QED
    BY <1>3, <2>1, <2>2
<1>4. ASSUME NEW b \in Backends, Server(b) \/ StmtFails(b) PROVE TypeOK'
  <2>0. stmt[b] \in Statement
    OBVIOUS
  <2>1. CASE ClaimPick(b)
    <3>1. stmt' \in [Backends -> Statement]
      BY <2>1 DEF ClaimPick, Claimable
    <3>2. QED
      BY <2>1, <3>1 DEF ClaimPick
  <2>2. CASE ClaimCommit(b)
    <3>0. stmt' = [stmt EXCEPT ![b].phase = "ok"]
      BY <2>2 DEF ClaimCommit
    <3>1. stmt' \in [Backends -> Statement]
      BY <3>0, PhaseStep
    <3>. DEFINE i == stmt[b].task
                h == stmt[b].by
    <3>a. h \in Workers \cup {NoWorker}
      OBVIOUS
    <3>b. status' = [status EXCEPT ![i] = "processing"] /\ worker' = [worker EXCEPT ![i] = h]
      BY <2>2 DEF ClaimCommit
    <3>. HIDE DEF i, h
    <3>2. status' \in [Tasks -> Status] /\ worker' \in [Tasks -> Workers \cup {NoWorker}]
      BY <3>a, <3>b
    <3>3. UNCHANGED <<pc, task, conn, term, counters, incidents>>
      BY <2>2 DEF ClaimCommit
    <3>4. QED
      BY <3>1, <3>2, <3>3
  <2>3. CASE ExecComplete(b)
    <3>0. stmt' = [stmt EXCEPT ![b].phase = "ok"]
      BY <2>3 DEF ExecComplete
    <3>1. stmt' \in [Backends -> Statement]
      BY <3>0, PhaseStep
    <3>. DEFINE i == stmt[b].task
    <3>b. status' = [status EXCEPT ![i] = IF @ \in {"absent", "purged"} THEN @ ELSE "done"]
      BY <2>3 DEF ExecComplete
    <3>. HIDE DEF i
    <3>2. status' \in [Tasks -> Status]
      BY <3>b
    <3>3. UNCHANGED <<worker, pc, task, conn, term, counters, incidents>>
      BY <2>3 DEF ExecComplete
    <3>4. QED
      BY <3>1, <3>2, <3>3
  <2>4. CASE ExecRelease(b)
    <3>0. stmt' = [stmt EXCEPT ![b].phase = "ok"]
      BY <2>4 DEF ExecRelease
    <3>1. stmt' \in [Backends -> Statement]
      BY <3>0, PhaseStep
    <3>2. status' \in [Tasks -> Status] /\ worker' \in [Tasks -> Workers \cup {NoWorker}]
      BY <2>0, <2>4 DEF ExecRelease
    <3>3. UNCHANGED <<pc, task, conn, term, counters, incidents>>
      BY <2>4 DEF ExecRelease
    <3>4. QED
      BY <3>1, <3>2, <3>3
  <2>5. CASE Reap(b)
    BY <2>5 DEF Reap
  <2>6. CASE StmtFails(b)
    BY <2>6 DEF StmtFails
  <2>7. QED
    BY <1>4, <2>1, <2>2, <2>3, <2>4, <2>5, <2>6 DEF Server
<1>5. ASSUME NEW t \in Tasks, Create(t) \/ Purge(t) PROVE TypeOK'
  BY <1>5 DEF Create, Purge
<1>6. CASE UNCHANGED vars
  BY <1>6 DEF vars
<1>7. QED
  BY <1>1, <1>2, <1>3, <1>4, <1>5, <1>6 DEF Next

(* Type correctness of the queue, for every value of the constants.        *)
THEOREM TypeCorrect == Spec => []TypeOK
<1>1. Init => TypeOK
  BY InitInv DEF IInv
<1>2. QED
  BY <1>1, TypeStep, PTL DEF Spec
-----------------------------------------------------------------------------
(* The session a worker waits for, the statements' shapes, the row locks   *)
(* and the ownership of tasks are kept by every step.                      *)
LEMMA OwnershipStep ==
  IInv /\ [Next]_vars => SessionInv' /\ ShapeInv' /\ LockInv' /\ OwnerInv'
<1> SUFFICES ASSUME IInv, [Next]_vars
             PROVE  SessionInv' /\ ShapeInv' /\ LockInv' /\ OwnerInv'
  OBVIOUS
<1> DEFINE G == SessionInv' /\ ShapeInv' /\ LockInv' /\ OwnerInv'
<1> USE QueueAssumption
<1>0. TypeOK /\ TypeOK' /\ SessionInv /\ ShapeInv /\ LockInv /\ OwnerInv
  BY TypeStep DEF IInv
<1> USE <1>0 DEF TypeOK, Statement, Idle, SessionInv, ShapeInv, LockInv, OwnerInv,
        Owns, Holds, KindOf, rows, Goto, HangUp, Return, Replied, Waiting
<1>1. ASSUME NEW w \in Workers, Loop(w) PROVE G
  <2>1. CASE ClaimCall(w)
    BY <2>1 DEF ClaimCall, Call
  <2>2. CASE LoopEnd(w)
    BY <2>2 DEF LoopEnd
  <2>3. CASE ClaimGot(w)
    <3>1. /\ conn[w] \in Backends
          /\ stmt[conn[w]].task \in Tasks
          /\ Owns(conn[w], stmt[conn[w]].task)
          /\ stmt[conn[w]].by = w
      BY <2>3 DEF ClaimGot
    <3>2. \A t \in Tasks : Holds(w, t)' => t = stmt[conn[w]].task
      BY <2>3 DEF ClaimGot
    <3>3. \A v \in Workers, t \in Tasks : v # w => (Holds(v, t)' <=> Holds(v, t))
      BY <2>3 DEF ClaimGot
    <3>4. \A b \in Backends, t \in Tasks : Owns(b, t)' => Owns(b, t) /\ b # conn[w]
      BY <2>3 DEF ClaimGot
    <3>5. status' = status /\ worker' = worker
      BY <2>3 DEF ClaimGot
    <3>6. OwnerInv'
      <4>1. \A b \in Backends : b # conn[w] => stmt'[b] = stmt[b]
        BY <2>3 DEF ClaimGot
      <4>. HIDE DEF Owns, Holds
      <4>2. \A t \in Tasks, v \in Workers :
              Holds(v, t)' => status'[t] = "processing" /\ worker'[t] = v
        BY <3>1, <3>2, <3>3, <3>5
      <4>3. \A t \in Tasks, b \in Backends :
              Owns(b, t)' => status'[t] = "processing" /\ worker'[t] = stmt'[b].by
        BY <3>4, <3>5, <4>1
      <4>4. \A t \in Tasks, u, v \in Workers : Holds(u, t)' /\ Holds(v, t)' => u = v
        <5>1. \A t \in Tasks, v \in Workers : v # w /\ t = stmt[conn[w]].task => ~Holds(v, t)
          BY <3>1
        <5>2. QED
          BY <3>2, <3>3, <5>1
      <4>5. \A t \in Tasks, v \in Workers, b \in Backends : ~(Holds(v, t)' /\ Owns(b, t)')
        BY <3>1, <3>2, <3>3, <3>4
      <4>6. \A t \in Tasks, b, c \in Backends : Owns(b, t)' /\ Owns(c, t)' => b = c
        BY <3>4
      <4>7. QED
        BY <4>2, <4>3, <4>4, <4>5, <4>6
    <3>7. SessionInv' /\ ShapeInv' /\ LockInv'
      BY <2>3 DEF ClaimGot
    <3>8. QED
      BY <3>6, <3>7
  <2>4. CASE ClaimEmpty(w)
    BY <2>4 DEF ClaimEmpty
  <2>5. CASE ClaimFailed(w)
    BY <2>5 DEF ClaimFailed
  <2>6. CASE Wake(w)
    BY <2>6 DEF Wake
  <2>7. CASE WorkDone(w)
    BY <2>7 DEF WorkDone
  <2>8. CASE Interrupted(w)
    BY <2>8 DEF Interrupted, Call
  <2>9. CASE CompleteCall(w)
    BY <2>9 DEF CompleteCall, Call
  <2>10. CASE CompleteRefused(w)
    BY <2>10 DEF CompleteRefused
  <2>11. CASE CompleteOk(w)
    BY <2>11 DEF CompleteOk
  <2>12. CASE CompleteFailed(w)
    BY <2>12 DEF CompleteFailed
  <2>13. CASE ReleaseEnd(w)
    BY <2>13 DEF ReleaseEnd
  <2>14. CASE Stop(w)
    BY <2>14 DEF Stop
  <2>15. CASE Cancelled(w)
    BY <2>15 DEF Cancelled, AfterError
  <2>16. CASE ReleaseTimeout(w)
    BY <2>16 DEF ReleaseTimeout
  <2>17. QED
    BY <1>1, <2>1, <2>2, <2>3, <2>4, <2>5, <2>6, <2>7, <2>8, <2>9, <2>10, <2>11, <2>12,
       <2>13, <2>14, <2>15, <2>16 DEF Loop
<1>2. ASSUME NEW w \in Workers, Incident(w) PROVE G
  <2>1. CASE ConnectionLost(w)
    BY <2>1 DEF ConnectionLost, AfterError
  <2>2. CASE ReplyLost(w)
    BY <2>2 DEF ReplyLost
  <2>3. CASE Sigterm(w)
    BY <2>3 DEF Sigterm
  <2>4. CASE Crash(w)
    BY <2>4 DEF Crash
  <2>5. QED
    BY <1>2, <2>1, <2>2, <2>3, <2>4 DEF Incident
<1>3. ASSUME NEW w \in Workers, LivenessRestart(w) \/ Start(w) PROVE G
  <2>1. CASE LivenessRestart(w)
    BY <2>1 DEF LivenessRestart, Wedged
  <2>2. CASE Start(w)
    BY <2>2 DEF Start
  <2>3. QED
    BY <1>3, <2>1, <2>2
<1>4. ASSUME NEW b \in Backends, Server(b) \/ StmtFails(b) PROVE G
  <2>1. CASE ClaimPick(b)
    <3>1. CASE Claimable = {} /\ stmt' = [stmt EXCEPT ![b].phase = "ok"]
      <4>1. stmt[b].task = NoTask
        BY <2>1 DEF ClaimPick
      <4>2. QED
        BY <2>1, <3>1, <4>1 DEF ClaimPick
    <3>2. ASSUME NEW t \in Claimable,
                 stmt' = [stmt EXCEPT ![b].phase = "locked", ![b].task = t]
          PROVE  G
      <4>1. /\ status' = status /\ worker' = worker /\ conn' = conn /\ pc' = pc
            /\ task' = task /\ t \in Tasks /\ status[t] = "pending" /\ ~Locked(t)
            /\ stmt[b].kind = "claim" /\ stmt[b].phase = "sent"
        BY <2>1 DEF ClaimPick, Claimable
      <4>2. /\ stmt'[b].kind = "claim" /\ stmt'[b].phase = "locked"
            /\ stmt'[b].task = t /\ stmt'[b].by = stmt[b].by
            /\ \A c \in Backends : c # b => stmt'[c] = stmt[c]
        BY <3>2, <4>1
      <4>3. \A c \in Backends, u \in Tasks : Owns(c, u)' => Owns(c, u) /\ stmt'[c] = stmt[c]
        BY <4>1, <4>2
      <4>4. SessionInv' /\ ShapeInv'
        <5>1. SessionInv'
          <6>1. \A c \in Backends :
                  /\ stmt'[c].by = stmt[c].by /\ stmt'[c].kind = stmt[c].kind
                  /\ stmt[c].phase # "idle" => stmt'[c].phase # "idle"
            BY <4>1, <4>2
          <6>2. QED
            BY <4>1, <6>1
        <5>2. \A c \in Backends : c # b => ShapeInv!(c)'
          BY <4>2
        <5>3. ShapeInv!(b)'
          <6>1. stmt[b].by \in Workers
            BY <4>1
          <6>2. QED
            BY <4>1, <4>2, <6>1
        <5>4. QED
          BY <5>1, <5>2, <5>3
      <4>5. LockInv'
        <5>1. ASSUME NEW c \in Backends, stmt'[c].phase = "locked"
              PROVE  status'[stmt'[c].task] = "pending"
          <6>1. CASE c = b
            BY <4>1, <4>2, <6>1
          <6>2. CASE c # b
            <7>1. stmt'[c] = stmt[c]
              BY <4>2, <6>2
            <7>2. status[stmt[c].task] = "pending"
              BY <5>1, <7>1
            <7>3. QED
              BY <4>1, <7>1, <7>2
          <6>3. QED
            BY <6>1, <6>2
        <5>2. ASSUME NEW c \in Backends, NEW d \in Backends,
                     stmt'[c].phase = "locked", stmt'[d].phase = "locked",
                     stmt'[c].task = stmt'[d].task
              PROVE  c = d
          <6>1. \A e \in Backends : e # b => ~(stmt'[e].phase = "locked" /\ stmt'[e].task = t)
            BY <4>1, <4>2 DEF Locked
          <6>2. CASE c = b \/ d = b
            BY <4>2, <5>2, <6>1, <6>2
          <6>3. CASE c # b /\ d # b
            <7>1. stmt'[c] = stmt[c] /\ stmt'[d] = stmt[d]
              BY <4>2, <6>3
            <7>2. QED
              BY <5>2, <7>1
          <6>4. QED
            BY <6>2, <6>3
        <5>. HIDE DEF TypeOK, OwnerInv, SessionInv, ShapeInv
        <5>3. QED
          BY <5>1, <5>2
      <4>6. OwnerInv'
        <5>1. \A v \in Workers, u \in Tasks : Holds(v, u)' <=> Holds(v, u)
          BY <4>1
        <5>. HIDE DEF Owns, Holds
        <5>2. QED
          BY <4>1, <4>3, <5>1
      <4>7. QED
        BY <4>4, <4>5, <4>6
    <3>3. QED
      BY <2>1, <3>1, <3>2 DEF ClaimPick
  <2>2. CASE ClaimCommit(b)
    BY <2>2 DEF ClaimCommit
  <2>3. CASE ExecComplete(b)
    BY <2>3 DEF ExecComplete
  <2>4. CASE ExecRelease(b)
    BY <2>4 DEF ExecRelease
  <2>5. CASE Reap(b)
    <3>1. SessionInv' /\ ShapeInv' /\ LockInv'
      BY <2>5 DEF Reap
    <3>2. OwnerInv'
      BY <2>5 DEF Reap
    <3>3. QED
      BY <3>1, <3>2
  <2>6. CASE StmtFails(b)
    BY <2>6 DEF StmtFails
  <2>7. QED
    BY <1>4, <2>1, <2>2, <2>3, <2>4, <2>5, <2>6 DEF Server
<1>5. ASSUME NEW t \in Tasks, Create(t) \/ Purge(t) PROVE G
  <2>1. CASE Create(t)
    BY <2>1 DEF Create
  <2>2. CASE Purge(t)
    BY <2>2 DEF Purge
  <2>3. QED
    BY <1>5, <2>1, <2>2
<1>6. CASE UNCHANGED vars
  BY <1>6 DEF vars
<1>7. QED
  BY <1>1, <1>2, <1>3, <1>4, <1>5, <1>6 DEF Next
-----------------------------------------------------------------------------
(* The ownership invariant holds in every reachable state.                 *)
THEOREM Ownership == Spec => []IInv
<1>1. IInv /\ [Next]_vars => IInv'
  BY TypeStep, OwnershipStep DEF IInv
<1>2. QED
  BY InitInv, <1>1, PTL DEF Spec

(* No two workers ever hold the same task, for any number of replicas,     *)
(* sessions, crashes, lost connections and late statements.                *)
THEOREM NoDoubleProcessingHolds == Spec => []NoDoubleProcessing
<1>1. IInv => NoDoubleProcessing
  BY DEF IInv, OwnerInv, NoDoubleProcessing
<1>2. QED
  BY Ownership, <1>1, PTL

(* The row of a task that a worker holds is "processing" and names it.     *)
THEOREM HolderNamedInRowHolds == Spec => []HolderNamedInRow
<1>1. IInv => HolderNamedInRow
  BY DEF IInv, OwnerInv, HolderNamedInRow
<1>2. QED
  BY Ownership, <1>1, PTL

(* No late Claim, Complete or Release takes a row out of "done".           *)
THEOREM DoneIsFinalHolds == Spec => DoneIsFinal
<1> DEFINE A == \A t \in Tasks : status[t] = "done" => status'[t] \in {"done", "purged"}
<1>1. ASSUME IInv, [Next]_vars PROVE [A]_status
  <2>0. TypeOK /\ ShapeInv /\ LockInv /\ OwnerInv
    BY <1>1 DEF IInv
  <2>1. ASSUME NEW b \in Backends, ClaimCommit(b) PROVE A
    BY <2>0, <2>1 DEF ClaimCommit, TypeOK, LockInv, ShapeInv
  <2>2. ASSUME NEW b \in Backends, ExecComplete(b) PROVE A
    BY <2>0, <2>2 DEF ExecComplete, TypeOK, ShapeInv
  <2>3. ASSUME NEW b \in Backends, ExecRelease(b) PROVE A
    <3>1. Owns(b, stmt[b].task) /\ stmt[b].task \in Tasks
      BY <2>0, <2>3 DEF ExecRelease, ShapeInv, Owns
    <3>2. status[stmt[b].task] = "processing"
      BY <2>0, <3>1 DEF OwnerInv
    <3>3. QED
      BY <2>0, <2>3, <3>2 DEF ExecRelease, TypeOK
  <2>4. ASSUME NEW t \in Tasks, Create(t) \/ Purge(t) PROVE A
    BY <2>0, <2>4 DEF Create, Purge, TypeOK
  <2>5. ASSUME NEW w \in Workers, Loop(w) \/ Incident(w) \/ LivenessRestart(w) \/ Start(w)
        PROVE  UNCHANGED status
    BY <2>5 DEF Loop, Incident, LivenessRestart, Start, ClaimCall, LoopEnd, ClaimGot,
         ClaimEmpty, ClaimFailed, Wake, WorkDone, Interrupted, CompleteCall,
         CompleteRefused, CompleteOk, CompleteFailed, ReleaseEnd, Stop, Cancelled,
         ReleaseTimeout, ConnectionLost, ReplyLost, Sigterm, Crash, rows
  <2>6. ASSUME NEW b \in Backends, ClaimPick(b) \/ Reap(b) \/ StmtFails(b)
        PROVE  UNCHANGED status
    BY <2>6 DEF ClaimPick, Reap, StmtFails, rows
  <2>7. CASE UNCHANGED vars
    BY <2>7 DEF vars
  <2>8. QED
    BY <1>1, <2>1, <2>2, <2>3, <2>4, <2>5, <2>6, <2>7 DEF Next, Server
<1>2. IInv /\ [Next]_vars => [A]_status
  BY <1>1
<1>3. QED
  BY Ownership, <1>2, PTL DEF Spec, DoneIsFinal

-----------------------------------------------------------------------------
(* What WorkerQueue loses, for any number of tasks, workers, sessions and  *)
(* incidents.                                                              *)
(*                                                                         *)
(* A task is often stranded long after the incident that is to blame: a    *)
(* SIGTERM strands one when the worker comes to its Complete, and a lost   *)
(* connection when the server executes the claim nobody waits for any      *)
(* more.  In between the incident is a debt, held by a worker or by a      *)
(* session.  Debts are only passed on, and each strands one task at most.  *)

(* A claim that nobody waits for and that may still take a task.           *)
Orphan(b) == /\ stmt[b].kind = "claim" /\ stmt[b].phase \in {"sent", "locked"}
             /\ \A w \in Workers : conn[w] # b

(* A worker told to stop while it claims or holds a task.                  *)
AtRisk(w) == /\ term[w]
             /\ pc[w] \in {"working", "complete"} \/ (pc[w] = "claiming" /\ Waiting(w))

Strandeds == {t \in Tasks : Stranded(t)}
Orphans   == {b \in Backends : Orphan(b)}
AtRisks   == {w \in Workers : AtRisk(w)}

Debts ==
  /\ IsFiniteSet(Strandeds) /\ IsFiniteSet(Orphans) /\ IsFiniteSet(AtRisks)
  /\ Cardinality(Strandeds) + Cardinality(Orphans) + Cardinality(AtRisks)
       <= faults + crashes + terms

-----------------------------------------------------------------------------
(* What a step can do to a set of debts.                                   *)
Keeps(A, B) == B \subseteq A
Grows(A, B) == \E x : B \subseteq A \cup {x}
Loses(A, B) == \E x \in A : B \subseteq A \ {x}

(* How the size of a set of debts follows what happens to the set.         *)
LEMMA DebtSizes ==
  ASSUME NEW A, NEW B, IsFiniteSet(A)
  PROVE  /\ Keeps(A, B) => IsFiniteSet(B) /\ Cardinality(B) <= Cardinality(A)
         /\ Grows(A, B) => IsFiniteSet(B) /\ Cardinality(B) <= Cardinality(A) + 1
         /\ Loses(A, B) => IsFiniteSet(B) /\ Cardinality(B) <= Cardinality(A) - 1
<1>1. ASSUME Keeps(A, B) PROVE IsFiniteSet(B) /\ Cardinality(B) <= Cardinality(A)
  BY <1>1, FS_Subset DEF Keeps
<1>2. ASSUME NEW x, B \subseteq A \cup {x}
      PROVE  IsFiniteSet(B) /\ Cardinality(B) <= Cardinality(A) + 1
  <2>1. /\ IsFiniteSet(A \cup {x}) /\ Cardinality(A) \in Nat
        /\ Cardinality(A \cup {x}) \in Nat /\ Cardinality(A \cup {x}) <= Cardinality(A) + 1
    BY FS_AddElement, FS_CardinalityType
  <2>2. IsFiniteSet(B) /\ Cardinality(B) <= Cardinality(A \cup {x})
    BY <1>2, <2>1, FS_Subset
  <2>3. Cardinality(B) \in Nat
    BY <2>2, FS_CardinalityType
  <2> QED BY <2>1, <2>2, <2>3
<1>3. ASSUME NEW x \in A, B \subseteq A \ {x}
      PROVE  IsFiniteSet(B) /\ Cardinality(B) <= Cardinality(A) - 1
  <2>1. IsFiniteSet(A \ {x}) /\ Cardinality(A \ {x}) = Cardinality(A) - 1
    BY FS_RemoveElement
  <2>2. IsFiniteSet(B) /\ Cardinality(B) <= Cardinality(A \ {x})
    BY <1>3, <2>1, FS_Subset
  <2> QED BY <2>1, <2>2
<1> QED BY <1>1, <1>2, <1>3 DEF Grows, Loses

(* A step that strands nothing, one that an incident pays for, and one     *)
(* that passes a debt on.                                                  *)
Settles == /\ Keeps(Strandeds, Strandeds') /\ Keeps(Orphans, Orphans')
           /\ Keeps(AtRisks, AtRisks') /\ UNCHANGED incidents

Costs == /\ faults' + crashes' + terms' = faults + crashes + terms + 1
         /\ \/ /\ Grows(Strandeds, Strandeds') /\ Keeps(Orphans, Orphans')
               /\ Keeps(AtRisks, AtRisks')
            \/ /\ Keeps(Strandeds, Strandeds') /\ Grows(Orphans, Orphans')
               /\ Keeps(AtRisks, AtRisks')
            \/ /\ Keeps(Strandeds, Strandeds') /\ Keeps(Orphans, Orphans')
               /\ Grows(AtRisks, AtRisks')

Passes == /\ UNCHANGED incidents
          /\ \/ /\ Grows(Strandeds, Strandeds') /\ Keeps(Orphans, Orphans')
                /\ Loses(AtRisks, AtRisks')
             \/ /\ Keeps(Strandeds, Strandeds') /\ Grows(Orphans, Orphans')
                /\ Loses(AtRisks, AtRisks')
             \/ /\ Grows(Strandeds, Strandeds') /\ Loses(Orphans, Orphans')
                /\ Keeps(AtRisks, AtRisks')

(* Incidents pay for debts: the arithmetic, case by case.                  *)
LEMMA Balance ==
  \A s, o, r, n, s2, o2, r2, n2 \in Nat :
    /\ s + o + r <= n
    /\ \/ /\ n2 = n
          /\ \/ s2 <= s /\ o2 <= o /\ r2 <= r
             \/ s2 <= s + 1 /\ o2 <= o /\ r2 <= r - 1
             \/ s2 <= s /\ o2 <= o + 1 /\ r2 <= r - 1
             \/ s2 <= s + 1 /\ o2 <= o - 1 /\ r2 <= r
       \/ /\ n2 = n + 1
          /\ \/ s2 <= s + 1 /\ o2 <= o /\ r2 <= r
             \/ s2 <= s /\ o2 <= o + 1 /\ r2 <= r
             \/ s2 <= s /\ o2 <= o /\ r2 <= r + 1
    => s2 + o2 + r2 <= n2
  OBVIOUS

(* A step that settles, costs or passes on debts keeps the balance.        *)
LEMMA DebtsKept ==
  ASSUME TypeOK, TypeOK', Debts, Settles \/ Costs \/ Passes
  PROVE  Debts'
<1> DEFINE S == Cardinality(Strandeds)  O == Cardinality(Orphans)  R == Cardinality(AtRisks)
<1>1. /\ S \in Nat /\ O \in Nat /\ R \in Nat
      /\ S + O + R <= faults + crashes + terms
      /\ IsFiniteSet(Strandeds) /\ IsFiniteSet(Orphans) /\ IsFiniteSet(AtRisks)
  BY FS_CardinalityType DEF Debts
<1>2. /\ faults \in Nat /\ crashes \in Nat /\ terms \in Nat
      /\ faults' \in Nat /\ crashes' \in Nat /\ terms' \in Nat
  BY DEF TypeOK
<1>3. /\ Keeps(Strandeds, Strandeds') => IsFiniteSet(Strandeds)' /\ S' <= S
      /\ Grows(Strandeds, Strandeds') => IsFiniteSet(Strandeds)' /\ S' <= S + 1
      /\ Keeps(Orphans, Orphans') => IsFiniteSet(Orphans)' /\ O' <= O
      /\ Grows(Orphans, Orphans') => IsFiniteSet(Orphans)' /\ O' <= O + 1
      /\ Loses(Orphans, Orphans') => IsFiniteSet(Orphans)' /\ O' <= O - 1
      /\ Keeps(AtRisks, AtRisks') => IsFiniteSet(AtRisks)' /\ R' <= R
      /\ Grows(AtRisks, AtRisks') => IsFiniteSet(AtRisks)' /\ R' <= R + 1
      /\ Loses(AtRisks, AtRisks') => IsFiniteSet(AtRisks)' /\ R' <= R - 1
  BY <1>1, DebtSizes
<1>4. IsFiniteSet(Strandeds)' /\ IsFiniteSet(Orphans)' /\ IsFiniteSet(AtRisks)'
  BY <1>3 DEF Settles, Costs, Passes
<1>5. S' \in Nat /\ O' \in Nat /\ R' \in Nat
  BY <1>4, FS_CardinalityType
<1>6. UNCHANGED incidents => faults' + crashes' + terms' = faults + crashes + terms
  BY DEF incidents
<1>8. faults + crashes + terms \in Nat /\ faults' + crashes' + terms' \in Nat
  <2>1. \A a, b, c \in Nat : a + b + c \in Nat
    OBVIOUS
  <2> QED BY <1>2, <2>1
<1> HIDE DEF S, O, R
<1>7. S' + O' + R' <= faults' + crashes' + terms'
  <2>1. CASE Settles
    <3>1. S' <= S /\ O' <= O /\ R' <= R
      BY <1>3, <2>1 DEF Settles
    <3>2. faults' + crashes' + terms' = faults + crashes + terms
      BY <1>6, <2>1 DEF Settles
    <3> QED BY <1>1, <1>5, <1>8, <3>1, <3>2, Balance
  <2>2. CASE Costs
    <3>1. \/ S' <= S + 1 /\ O' <= O /\ R' <= R
          \/ S' <= S /\ O' <= O + 1 /\ R' <= R
          \/ S' <= S /\ O' <= O /\ R' <= R + 1
      BY <1>3, <2>2 DEF Costs
    <3>2. faults' + crashes' + terms' = faults + crashes + terms + 1
      BY <2>2 DEF Costs
    <3> QED BY <1>1, <1>5, <1>8, <3>1, <3>2, Balance
  <2>3. CASE Passes
    <3>1. \/ S' <= S + 1 /\ O' <= O /\ R' <= R - 1
          \/ S' <= S /\ O' <= O + 1 /\ R' <= R - 1
          \/ S' <= S + 1 /\ O' <= O - 1 /\ R' <= R
      BY <1>3, <2>3 DEF Passes
    <3>2. faults' + crashes' + terms' = faults + crashes + terms
      BY <1>6, <2>3 DEF Passes
    <3> QED BY <1>1, <1>5, <1>8, <3>1, <3>2, Balance
  <2> QED BY <2>1, <2>2, <2>3
<1> QED BY <1>4, <1>7 DEF Debts, S, O, R

-----------------------------------------------------------------------------
(* The worker's steps.                                                     *)

(* How a step strands nothing, or one task, leaves one claim orphaned, and *)
(* takes one worker out of risk.                                           *)
LEMMA DebtFrames ==
  /\ (\A u \in Tasks : Stranded(u)' => Stranded(u)) => Keeps(Strandeds, Strandeds')
  /\ \A t : (\A u \in Tasks : Stranded(u)' => Stranded(u) \/ u = t) => Grows(Strandeds, Strandeds')
  /\ (\A b \in Backends : Orphan(b)' => Orphan(b)) => Keeps(Orphans, Orphans')
  /\ \A c : (\A b \in Backends : Orphan(b)' => Orphan(b) \/ b = c) => Grows(Orphans, Orphans')
  /\ \A c \in Backends : Orphan(c) /\ (\A b \in Backends : Orphan(b)' => Orphan(b) /\ b # c)
                           => Loses(Orphans, Orphans')
  /\ (\A w \in Workers : AtRisk(w)' => AtRisk(w)) => Keeps(AtRisks, AtRisks')
  /\ \A v : (\A w \in Workers : AtRisk(w)' => AtRisk(w) \/ w = v) => Grows(AtRisks, AtRisks')
  /\ \A v \in Workers : AtRisk(v) /\ (\A w \in Workers : AtRisk(w)' => AtRisk(w) /\ w # v)
                          => Loses(AtRisks, AtRisks')
<1>1. (\A u \in Tasks : Stranded(u)' => Stranded(u)) => Keeps(Strandeds, Strandeds')
  BY DEF Keeps, Strandeds
<1>2. \A t : (\A u \in Tasks : Stranded(u)' => Stranded(u) \/ u = t) => Grows(Strandeds, Strandeds')
  BY DEF Grows, Strandeds
<1>3. (\A b \in Backends : Orphan(b)' => Orphan(b)) => Keeps(Orphans, Orphans')
  BY DEF Keeps, Orphans
<1>4. \A c : (\A b \in Backends : Orphan(b)' => Orphan(b) \/ b = c) => Grows(Orphans, Orphans')
  BY DEF Grows, Orphans
<1>5. \A c \in Backends : Orphan(c) /\ (\A b \in Backends : Orphan(b)' => Orphan(b) /\ b # c)
                            => Loses(Orphans, Orphans')
  BY DEF Loses, Orphans
<1>6. (\A w \in Workers : AtRisk(w)' => AtRisk(w)) => Keeps(AtRisks, AtRisks')
  BY DEF Keeps, AtRisks
<1>7. \A v : (\A w \in Workers : AtRisk(w)' => AtRisk(w) \/ w = v) => Grows(AtRisks, AtRisks')
  BY DEF Grows, AtRisks
<1>8. \A v \in Workers : AtRisk(v) /\ (\A w \in Workers : AtRisk(w)' => AtRisk(w) /\ w # v)
                           => Loses(AtRisks, AtRisks')
  BY DEF Loses, AtRisks
<1> QED BY <1>1, <1>2, <1>3, <1>4, <1>5, <1>6, <1>7, <1>8

(* A step of a worker that neither hangs up nor gives a task away.         *)
LEMMA LoopSettles ==
  ASSUME IInv, NEW w \in Workers,
         \/ ClaimCall(w) \/ LoopEnd(w) \/ ClaimGot(w) \/ ClaimEmpty(w) \/ ClaimFailed(w)
         \/ Wake(w) \/ WorkDone(w) \/ Interrupted(w) \/ CompleteCall(w) \/ CompleteOk(w)
         \/ CompleteFailed(w) \/ ReleaseEnd(w) \/ Stop(w) \/ ReleaseTimeout(w)
         \/ LivenessRestart(w) \/ Start(w)
  PROVE  Settles
<1>0. TypeOK /\ SessionInv /\ ShapeInv
  BY DEF IInv
<1> USE <1>0, QueueAssumption DEF TypeOK, Statement, rows, counters, Goto, Idle, Replied, Waiting
<1>1. \A u \in Tasks : Stranded(u)' => Stranded(u)
  <2> USE DEF Stranded, ReplyPending, UpdatePending
  <2>1. CASE LoopEnd(w) \/ Wake(w) \/ WorkDone(w) \/ Stop(w) \/ ReleaseTimeout(w)
             \/ LivenessRestart(w) \/ Start(w)
    BY <2>1 DEF LoopEnd, Wake, WorkDone, Stop, ReleaseTimeout, LivenessRestart, Start
  <2>2. CASE ClaimCall(w)
    BY <2>2 DEF ClaimCall, Call, SessionInv
  <2>3. CASE ClaimGot(w)
    BY <2>3 DEF ClaimGot, Return, SessionInv
  <2>4. CASE ClaimEmpty(w)
    BY <2>4 DEF ClaimEmpty, Return, SessionInv
  <2>5. CASE ClaimFailed(w)
    BY <2>5 DEF ClaimFailed, Return, SessionInv
  <2>6. CASE Interrupted(w)
    BY <2>6 DEF Interrupted, Call, SessionInv
  <2>7. CASE CompleteCall(w)
    BY <2>7 DEF CompleteCall, Call, SessionInv
  <2>8. CASE CompleteOk(w) \/ CompleteFailed(w) \/ ReleaseEnd(w)
    <3>1. conn[w] \in Backends /\ stmt[conn[w]].kind # "claim" /\ stmt[conn[w]].phase # "sent"
      BY <2>8 DEF CompleteOk, CompleteFailed, ReleaseEnd, SessionInv, KindOf
    <3>2. Return(w) /\ UNCHANGED <<status, task>>
      BY <2>8 DEF CompleteOk, CompleteFailed, ReleaseEnd
    <3> QED BY <3>1, <3>2 DEF Return, SessionInv
  <2> QED BY <2>1, <2>2, <2>3, <2>4, <2>5, <2>6, <2>7, <2>8
<1>2. \A b \in Backends : Orphan(b)' => Orphan(b)
  <2> USE DEF Orphan
  <2>1. CASE UNCHANGED <<stmt, conn>>
    BY <2>1
  <2>2. CASE \E kind \in {"claim", "complete", "release"}, t \in Tasks \cup {NoTask} :
               conn[w] = NoBackend /\ Call(w, kind, t)
    BY <2>2 DEF Call
  <2>3. CASE Waiting(w) /\ Return(w)
    BY <2>3 DEF Return
  <2>4. ClaimCall(w) \/ Interrupted(w) \/ CompleteCall(w) => conn[w] = NoBackend
    BY DEF ClaimCall, Interrupted, CompleteCall, SessionInv
  <2> QED BY <2>1, <2>2, <2>3, <2>4 DEF ClaimCall, LoopEnd, ClaimGot, ClaimEmpty,
             ClaimFailed, Wake, WorkDone,
             Interrupted, CompleteCall, CompleteOk, CompleteFailed, ReleaseEnd, Stop,
             ReleaseTimeout, LivenessRestart, Start
<1>3. \A v \in Workers : AtRisk(v)' => AtRisk(v)
  <2> USE DEF AtRisk
  <2>1. CASE ClaimCall(w) \/ Interrupted(w) \/ CompleteCall(w)
    BY <2>1 DEF ClaimCall, Interrupted, CompleteCall, Call
  <2>2. CASE ClaimGot(w) \/ ClaimEmpty(w) \/ ClaimFailed(w) \/ CompleteOk(w) \/ CompleteFailed(w)
             \/ ReleaseEnd(w)
    BY <2>2 DEF ClaimGot, ClaimEmpty, ClaimFailed, CompleteOk, CompleteFailed, ReleaseEnd,
       Return
  <2>3. CASE LoopEnd(w) \/ Wake(w) \/ WorkDone(w) \/ Stop(w) \/ ReleaseTimeout(w)
             \/ LivenessRestart(w) \/ Start(w)
    BY <2>3 DEF LoopEnd, Wake, WorkDone, Stop, ReleaseTimeout, LivenessRestart, Wedged, Start
  <2> QED BY <2>1, <2>2, <2>3
<1>4. UNCHANGED incidents
  BY DEF ClaimCall, LoopEnd, ClaimGot, ClaimEmpty, ClaimFailed, Wake, WorkDone,
         Interrupted, CompleteCall, CompleteOk, CompleteFailed, ReleaseEnd, Stop,
         ReleaseTimeout, LivenessRestart, Start
<1> QED BY <1>1, <1>2, <1>3, <1>4, DebtFrames DEF Settles

(* A worker hangs up on the claim it waits for.  If the claim has taken a  *)
(* task, that is stranded; if it still may, it is orphaned.                *)
LEMMA HangUpFrames ==
  ASSUME IInv, NEW w \in Workers, pc[w] = "claiming", Waiting(w), HangUp(w), UNCHANGED <<status, stmt>>,
         task' = task \/ task' = [task EXCEPT ![w] = NoTask]
  PROVE  \/ /\ Grows(Strandeds, Strandeds') /\ Keeps(Orphans, Orphans')
         \/ /\ Keeps(Strandeds, Strandeds') /\ Grows(Orphans, Orphans')
<1>0. TypeOK /\ SessionInv /\ conn[w] \in Backends /\ stmt[conn[w]].kind = "claim" /\ task' = task
  BY DEF IInv, TypeOK, SessionInv, KindOf, Waiting
<1>1. \A u \in Tasks :
        /\ Stranded(u)' => Stranded(u) \/ u = stmt[conn[w]].task
        /\ stmt[conn[w]].phase # "ok" => (Stranded(u)' => Stranded(u))
  BY <1>0, QueueAssumption DEF Stranded, ReplyPending, UpdatePending, Replied, Waiting,
     HangUp, TypeOK
<1>2. \A b \in Backends :
        /\ Orphan(b)' => Orphan(b) \/ b = conn[w]
        /\ stmt[conn[w]].phase \notin {"sent", "locked"} => (Orphan(b)' => Orphan(b))
  BY <1>0, QueueAssumption DEF Orphan, HangUp, TypeOK
<1>3. CASE stmt[conn[w]].phase = "ok"
  BY <1>1, <1>2, <1>3, DebtFrames
<1>4. CASE stmt[conn[w]].phase # "ok"
  BY <1>1, <1>2, <1>4, DebtFrames
<1> QED BY <1>3, <1>4

(* A worker hangs up on anything else, or without waiting for anything.    *)
LEMMA HangUpHarmless ==
  ASSUME IInv, NEW w \in Workers, pc[w] # "claiming" \/ ~Waiting(w), HangUp(w),
         UNCHANGED <<status, stmt, task>>
  PROVE  Keeps(Strandeds, Strandeds') /\ Keeps(Orphans, Orphans')
<1>0. TypeOK /\ SessionInv
  BY DEF IInv
<1>1. \A u \in Tasks : Stranded(u)' => Stranded(u)
  <2>1. Waiting(w) => stmt[conn[w]].kind # "claim"
    BY <1>0 DEF SessionInv, KindOf, Waiting
  <2> QED BY <1>0, <2>1, QueueAssumption
          DEF Stranded, ReplyPending, UpdatePending, Replied, Waiting, HangUp, TypeOK
<1>2. \A b \in Backends : Orphan(b)' => Orphan(b)
  <2>1. Waiting(w) => stmt[conn[w]].kind # "claim"
    BY <1>0 DEF SessionInv, KindOf, Waiting
  <2> QED BY <1>0, <2>1, QueueAssumption DEF Orphan, Waiting, HangUp, TypeOK
<1> QED BY <1>1, <1>2, DebtFrames

(* A worker at risk loses its claim or its task.                           *)
LEMMA LoopPasses ==
  ASSUME IInv, NEW w \in Workers, Cancelled(w) \/ CompleteRefused(w)
  PROVE  Settles \/ Passes
<1>0. TypeOK /\ SessionInv
  BY DEF IInv
<1>1. CASE Cancelled(w)
  <2>1. /\ HangUp(w) /\ UNCHANGED <<status, stmt, task, incidents, term>> /\ term[w]
        /\ pc[w] \in {"claiming", "completing"} /\ pc'[w] \in {"backoff", "loop"}
        /\ \A v \in Workers : v # w => pc'[v] = pc[v] /\ conn'[v] = conn[v]
    BY <1>0, <1>1 DEF Cancelled, HangUp, Goto, AfterError, TypeOK, rows
  <2>2. \A v \in Workers : AtRisk(v)' => AtRisk(v) /\ v # w
    BY <2>1 DEF AtRisk, Waiting
  <2>3. CASE pc[w] = "claiming" /\ Waiting(w)
    <3>1. AtRisk(w)
      BY <2>1, <2>3 DEF AtRisk
    <3>2. Loses(AtRisks, AtRisks')
      BY <2>2, <3>1, DebtFrames
    <3> QED BY <2>1, <2>3, <3>2, HangUpFrames DEF Passes
  <2>4. CASE ~(pc[w] = "claiming" /\ Waiting(w))
    BY <2>1, <2>2, <2>4, HangUpHarmless, DebtFrames DEF Settles
  <2> QED BY <2>3, <2>4
<1>2. CASE CompleteRefused(w)
  <2>1. /\ UNCHANGED <<status, stmt, conn, term, incidents>> /\ term[w] /\ pc[w] = "complete"
        /\ pc'[w] = "loop" /\ \A v \in Workers : v # w => pc'[v] = pc[v] /\ task'[v] = task[v]
    BY <1>0, <1>2 DEF CompleteRefused, Goto, TypeOK, rows
  <2>2. AtRisk(w) /\ \A v \in Workers : AtRisk(v)' => AtRisk(v) /\ v # w
    BY <2>1 DEF AtRisk, Waiting
  <2>3. \A u \in Tasks : Stranded(u)' => Stranded(u) \/ u = task[w]
    BY <2>1 DEF Stranded, ReplyPending, UpdatePending, Replied, Waiting
  <2>4. \A b \in Backends : Orphan(b)' => Orphan(b)
    BY <2>1 DEF Orphan
  <2> QED BY <2>1, <2>2, <2>3, <2>4, DebtFrames DEF Passes
<1> QED BY <1>1, <1>2

(* An incident at a worker.                                                *)
LEMMA IncidentCosts ==
  ASSUME IInv, NEW w \in Workers, Incident(w)
  PROVE  Costs
<1>0. TypeOK /\ SessionInv
  BY DEF IInv
<1>1. faults' + crashes' + terms' = faults + crashes + terms + 1
  <2>1. /\ faults \in Nat /\ crashes \in Nat /\ terms \in Nat
        /\ \/ faults' = faults + 1 /\ crashes' = crashes /\ terms' = terms
           \/ faults' = faults /\ crashes' = crashes + 1 /\ terms' = terms
           \/ faults' = faults /\ crashes' = crashes /\ terms' = terms + 1
    BY <1>0 DEF Incident, ConnectionLost, ReplyLost, Sigterm, Crash, Fault, TypeOK
  <2> QED BY <2>1
<1>2. CASE ConnectionLost(w)
  <2>1. /\ HangUp(w) /\ Waiting(w) /\ UNCHANGED <<status, stmt, task, term>>
        /\ pc'[w] \in {"backoff", "loop", "stopping"}
        /\ \A v \in Workers : v # w => pc'[v] = pc[v] /\ conn'[v] = conn[v]
    BY <1>0, <1>2 DEF ConnectionLost, HangUp, Goto, AfterError, TypeOK, rows
  <2>2. \A v \in Workers : AtRisk(v)' => AtRisk(v)
    BY <2>1 DEF AtRisk, Waiting
  <2>3. Keeps(AtRisks, AtRisks')
    BY <2>2, DebtFrames
  <2>4. CASE pc[w] = "claiming"
    BY <1>1, <2>1, <2>3, <2>4, HangUpFrames DEF Costs
  <2>5. CASE pc[w] # "claiming"
    <3>1. Grows(Strandeds, Strandeds') /\ Keeps(Orphans, Orphans')
      BY <2>1, <2>5, HangUpHarmless DEF Keeps, Grows
    <3> QED BY <1>1, <2>3, <3>1 DEF Costs
  <2> QED BY <2>4, <2>5
<1>3. CASE ReplyLost(w)
  <2>1. /\ Return(w) /\ conn[w] \in Backends /\ stmt[conn[w]].phase \in {"ok", "failed"}
        /\ UNCHANGED <<status, task, term, pc>>
    BY <1>0, <1>3 DEF ReplyLost, Replied, Waiting, TypeOK, rows
  <2>2. \A v \in Workers : AtRisk(v)' => AtRisk(v)
    BY <1>0, <2>1 DEF AtRisk, Waiting, Return, TypeOK
  <2>3. \A b \in Backends : Orphan(b)' => Orphan(b)
    BY <1>0, <2>1 DEF Orphan, Return, TypeOK, Idle
  <2>4. \A u \in Tasks : Stranded(u)' => Stranded(u) \/ u = stmt[conn[w]].task
    BY <1>0, <2>1, QueueAssumption DEF Stranded, ReplyPending, UpdatePending, Replied, Waiting,
       Return, TypeOK, SessionInv, Idle
  <2> QED BY <1>1, <2>2, <2>3, <2>4, DebtFrames DEF Costs
<1>4. CASE Sigterm(w)
  <2>1. /\ UNCHANGED <<status, stmt, pc, task, conn>>
        /\ \A v \in Workers : v # w => term'[v] = term[v]
    BY <1>0, <1>4 DEF Sigterm, TypeOK, rows
  <2>2. \A v \in Workers : AtRisk(v)' => AtRisk(v) \/ v = w
    BY <2>1 DEF AtRisk, Waiting
  <2>3. \A u \in Tasks : Stranded(u)' => Stranded(u)
    BY <2>1 DEF Stranded, ReplyPending, UpdatePending, Replied, Waiting
  <2>4. \A b \in Backends : Orphan(b)' => Orphan(b)
    BY <2>1 DEF Orphan
  <2> QED BY <1>1, <2>2, <2>3, <2>4, DebtFrames DEF Costs
<1>5. CASE Crash(w)
  <2>1. /\ HangUp(w) /\ UNCHANGED <<status, stmt, term>> /\ pc'[w] = "exited"
        /\ task' = [task EXCEPT ![w] = NoTask]
        /\ \A v \in Workers : v # w => pc'[v] = pc[v] /\ conn'[v] = conn[v]
    BY <1>0, <1>5 DEF Crash, HangUp, Goto, TypeOK, rows
  <2>2. \A v \in Workers : AtRisk(v)' => AtRisk(v)
    BY <2>1 DEF AtRisk, Waiting
  <2>3. Keeps(AtRisks, AtRisks')
    BY <2>2, DebtFrames
  <2>4. CASE pc[w] = "claiming" /\ Waiting(w)
    BY <1>1, <2>1, <2>3, <2>4, HangUpFrames DEF Costs
  <2>5. CASE pc[w] \in {"working", "complete"}
    <3>1. conn' = conn
      BY <1>0, <2>1, <2>5 DEF HangUp, SessionInv, TypeOK
    <3>2. \A u \in Tasks : Stranded(u)' => Stranded(u) \/ u = task[w]
      BY <1>0, <2>1, <3>1 DEF Stranded, ReplyPending, UpdatePending, Replied, Waiting, TypeOK
    <3>3. \A b \in Backends : Orphan(b)' => Orphan(b)
      BY <2>1, <3>1 DEF Orphan
    <3> QED BY <1>1, <2>3, <3>2, <3>3, DebtFrames DEF Costs
  <2>6. CASE pc[w] \notin {"working", "complete"} /\ ~(pc[w] = "claiming" /\ Waiting(w))
    <3>1. task' = task
      BY <1>0, <2>1, <2>6 DEF TypeOK
    <3>2. Grows(Strandeds, Strandeds') /\ Keeps(Orphans, Orphans')
      BY <2>1, <2>6, <3>1, HangUpHarmless DEF Keeps, Grows
    <3> QED BY <1>1, <2>3, <3>2 DEF Costs
  <2> QED BY <2>4, <2>5, <2>6
<1> QED BY <1>2, <1>3, <1>4, <1>5 DEF Incident

-----------------------------------------------------------------------------
(* The server's steps, and those of rows that nobody works on.             *)
LEMMA ServerDebts ==
  ASSUME IInv, NEW b \in Backends, Server(b) \/ StmtFails(b)
  PROVE  Settles \/ Costs \/ Passes
<1>0. TypeOK /\ SessionInv /\ ShapeInv /\ LockInv
  BY DEF IInv
<1>1. /\ UNCHANGED <<pc, task, conn, term>>
      /\ \A c \in Backends : c # b => stmt'[c] = stmt[c]
  BY <1>0 DEF Server, ClaimPick, ClaimCommit, ExecComplete, ExecRelease, Reap, StmtFails,
     TypeOK
<1>2. Keeps(AtRisks, AtRisks')
  <2>1. \A v \in Workers : AtRisk(v)' => AtRisk(v)
    BY <1>1 DEF AtRisk, Waiting
  <2> QED BY <2>1, DebtFrames
<1>3. CASE ClaimPick(b)
  <2>1. /\ UNCHANGED <<status, incidents>>
        /\ stmt[b].kind = "claim" /\ stmt[b].phase = "sent"
    BY <1>3 DEF ClaimPick, rows
  <2>3. ASSUME NEW u \in Tasks, Stranded(u)' PROVE Stranded(u)
    <3>1. ~ReplyPending(u)' => ~ReplyPending(u)
      BY <1>0, <1>1, <2>1 DEF ReplyPending, Replied, Waiting, TypeOK
    <3>2. ~UpdatePending(u)' => ~UpdatePending(u)
      BY <1>0, <1>1, <2>1 DEF UpdatePending
    <3> QED BY <1>1, <2>1, <2>3, <3>1, <3>2 DEF Stranded
  <2>4. \A c \in Backends : Orphan(c)' => Orphan(c)
    BY <1>1, <2>1 DEF Orphan
  <2> QED BY <1>2, <2>1, <2>3, <2>4, DebtFrames DEF Settles
<1>4. CASE ClaimCommit(b)
  <2> PICK t \in Tasks : t = stmt[b].task
    BY <1>0, <1>4 DEF ClaimCommit, ShapeInv
  <2>1. /\ stmt[b].kind = "claim" /\ stmt[b].phase = "locked"
        /\ stmt'[b].kind = "claim" /\ stmt'[b].phase = "ok" /\ stmt'[b].task = t
        /\ UNCHANGED incidents /\ \A u \in Tasks : u # t => status'[u] = status[u]
    BY <1>0, <1>4 DEF ClaimCommit, ShapeInv, TypeOK, Statement
  <2>2. \A u \in Tasks : u # t => (Stranded(u)' => Stranded(u))
    BY <1>0, <1>1, <2>1 DEF Stranded, ReplyPending, UpdatePending, Replied, Waiting, TypeOK
  <2>3. CASE \E w \in Workers : conn[w] = b
    <3>1. ReplyPending(t)'
      BY <1>0, <1>1, <2>1, <2>3, QueueAssumption DEF ReplyPending, Replied, Waiting
    <3>2. \A u \in Tasks : Stranded(u)' => Stranded(u)
      BY <2>2, <3>1 DEF Stranded
    <3>3. \A c \in Backends : Orphan(c)' => Orphan(c)
      BY <1>1, <2>1 DEF Orphan
    <3> QED BY <1>2, <2>1, <3>2, <3>3, DebtFrames DEF Settles
  <2>4. CASE \A w \in Workers : conn[w] # b
    <3>1. Orphan(b) /\ \A c \in Backends : Orphan(c)' => Orphan(c) /\ c # b
      BY <1>1, <2>1, <2>4 DEF Orphan
    <3>2. Grows(Strandeds, Strandeds') /\ Loses(Orphans, Orphans')
      BY <2>2, <3>1, DebtFrames
    <3> QED BY <1>2, <2>1, <3>2 DEF Passes
  <2> QED BY <2>3, <2>4
<1>5. CASE ExecComplete(b) \/ ExecRelease(b)
  <2> PICK t \in Tasks : t = stmt[b].task
    BY <1>0, <1>5 DEF ExecComplete, ExecRelease, ShapeInv
  <2>1. /\ stmt[b].kind \in {"complete", "release"} /\ stmt'[b].kind = stmt[b].kind
        /\ stmt[b].phase = "sent" /\ stmt'[b].phase = "ok"
        /\ UNCHANGED incidents /\ \A u \in Tasks : u # t => status'[u] = status[u]
    BY <1>0, <1>5 DEF ExecComplete, ExecRelease, TypeOK, Statement
  <2>2. status'[t] # "processing"
    BY <1>0, <1>5 DEF ExecComplete, ExecRelease, TypeOK, IInv, OwnerInv, Owns
  <2>3. \A u \in Tasks : Stranded(u)' => Stranded(u)
    BY <1>0, <1>1, <2>1, <2>2 DEF Stranded, ReplyPending, UpdatePending, Replied, Waiting,
       TypeOK
  <2>4. \A c \in Backends : Orphan(c)' => Orphan(c)
    BY <1>1, <2>1 DEF Orphan
  <2> QED BY <1>2, <2>1, <2>3, <2>4, DebtFrames DEF Settles
<1>6. CASE Reap(b)
  <2>1. /\ UNCHANGED <<status, incidents>> /\ stmt[b].phase # "sent" /\ stmt'[b].phase = "idle"
        /\ \A w \in Workers : conn[w] # b
    BY <1>0, <1>6 DEF Reap, TypeOK, Idle, rows
  <2>2. \A u \in Tasks : Stranded(u)' => Stranded(u)
    BY <1>0, <1>1, <2>1 DEF Stranded, ReplyPending, UpdatePending, Replied, Waiting, TypeOK
  <2>3. \A c \in Backends : Orphan(c)' => Orphan(c)
    BY <1>1, <2>1 DEF Orphan
  <2> QED BY <1>2, <2>1, <2>2, <2>3, DebtFrames DEF Settles
<1>7. CASE StmtFails(b)
  <2>1. /\ UNCHANGED status /\ stmt[b].phase # "ok" /\ stmt'[b].phase = "failed"
        /\ faults' = faults + 1 /\ crashes' = crashes /\ terms' = terms
    BY <1>0, <1>7 DEF StmtFails, Fault, TypeOK, Statement, rows
  <2>2. \A u \in Tasks : Stranded(u)' => Stranded(u) \/ u = stmt[b].task
    BY <1>0, <1>1, <2>1 DEF Stranded, ReplyPending, UpdatePending, Replied, Waiting, TypeOK
  <2>3. \A c \in Backends : Orphan(c)' => Orphan(c)
    BY <1>1, <2>1 DEF Orphan
  <2>4. faults' + crashes' + terms' = faults + crashes + terms + 1
    <3>1. faults \in Nat /\ crashes \in Nat /\ terms \in Nat
      BY <1>0 DEF TypeOK
    <3> QED BY <2>1, <3>1
  <2> QED BY <1>2, <2>2, <2>3, <2>4, DebtFrames DEF Costs
<1> QED BY <1>3, <1>4, <1>5, <1>6, <1>7 DEF Server

(* Inserting or deleting a row strands nothing.                            *)
LEMMA RowDebts ==
  ASSUME IInv, NEW t \in Tasks, Create(t) \/ Purge(t)
  PROVE  Settles
<1>0. TypeOK
  BY DEF IInv
<1>1. /\ UNCHANGED <<stmt, pc, task, conn, term, incidents>> /\ status'[t] # "processing"
      /\ \A u \in Tasks : u # t => status'[u] = status[u]
  BY <1>0 DEF Create, Purge, TypeOK
<1>2. \A u \in Tasks : Stranded(u)' => Stranded(u)
  BY <1>1 DEF Stranded, ReplyPending, UpdatePending, Replied, Waiting
<1>3. \A b \in Backends : Orphan(b)' => Orphan(b)
  BY <1>1 DEF Orphan
<1>4. \A w \in Workers : AtRisk(w)' => AtRisk(w)
  BY <1>1 DEF AtRisk, Waiting
<1> QED BY <1>1, <1>2, <1>3, <1>4, DebtFrames DEF Settles

-----------------------------------------------------------------------------
(* The incidents pay for every stranded task and for every debt.           *)
THEOREM StrandedAccountedHolds == Spec => []StrandedAccounted
<1>1. Init => Debts
  <2> SUFFICES ASSUME Init PROVE Debts
    OBVIOUS
  <2>1. Strandeds = {} /\ Orphans = {} /\ AtRisks = {}
    BY DEF Init, Strandeds, Stranded, Orphans, Orphan, Idle, AtRisks, AtRisk
  <2>2. faults = 0 /\ crashes = 0 /\ terms = 0
    BY DEF Init
  <2> QED BY <2>1, <2>2, FS_EmptySet DEF Debts
<1>2. IInv /\ IInv' /\ Debts /\ [Next]_vars => Debts'
  <2> SUFFICES ASSUME IInv, IInv', Debts, [Next]_vars PROVE Settles \/ Costs \/ Passes
    BY DebtsKept DEF IInv
  <2>1. CASE UNCHANGED vars
    BY <2>1 DEF vars, Settles, Keeps, incidents, Strandeds, Stranded, ReplyPending,
       UpdatePending, Replied, Waiting, Orphans, Orphan, AtRisks, AtRisk
  <2> QED BY <2>1, LoopSettles, LoopPasses, IncidentCosts, ServerDebts, RowDebts DEF Next, Loop
<1>3. IInv /\ Debts => StrandedAccounted
  <2> SUFFICES ASSUME IInv, Debts PROVE StrandedAccounted
    OBVIOUS
  <2>1. /\ Cardinality(Strandeds) \in Nat /\ Cardinality(Orphans) \in Nat
        /\ Cardinality(AtRisks) \in Nat
        /\ Cardinality(Strandeds) + Cardinality(Orphans) + Cardinality(AtRisks)
             <= faults + crashes + terms
    BY FS_CardinalityType DEF Debts
  <2>2. faults \in Nat /\ crashes \in Nat /\ terms \in Nat
    BY DEF IInv, TypeOK
  <2>3. \A s, o, r, f, c, m \in Nat : s + o + r <= f + c + m => s <= f + c + m
    OBVIOUS
  <2>4. Cardinality(Strandeds) <= faults + crashes + terms
    BY <2>1, <2>2, <2>3
  <2> QED BY <2>4 DEF StrandedAccounted, Strandeds
<1> QED BY <1>1, <1>2, <1>3, Ownership, PTL DEF Spec

(* A stranded task stays stranded: its row has no owner, and only the      *)
(* owner of a row in "processing" changes it.                              *)
THEOREM StrandedForeverHolds == Spec => StrandedForever
<1> DEFINE A == \A t \in Tasks : Stranded(t) => Stranded(t)'
<1>1. ASSUME IInv, [Next]_vars PROVE A
  <2> SUFFICES ASSUME NEW t \in Tasks, Stranded(t) PROVE Stranded(t)'
    OBVIOUS
  <2>0. TypeOK /\ SessionInv /\ ShapeInv /\ LockInv
    BY <1>1 DEF IInv
  <2> USE <2>0, QueueAssumption DEF Stranded, ReplyPending, UpdatePending, Replied, Waiting,
          TypeOK, Statement, rows, counters, incidents, Goto, HangUp, Idle
  <2>1. ASSUME UNCHANGED <<status, stmt>>, NEW w \in Workers,
               task' = task \/ task' = [task EXCEPT ![w] = NoTask],
               conn' = conn \/ conn' = [conn EXCEPT ![w] = NoBackend]
        PROVE  Stranded(t)'
    BY <2>1
  <2>2. ASSUME NEW w \in Workers, Waiting(w), Return(w), UNCHANGED status,
               task' = task \/ task' = [task EXCEPT ![w] = NoTask]
        PROVE  Stranded(t)'
    BY <2>2 DEF Return
  <2>3. ASSUME NEW w \in Workers, Loop(w) PROVE Stranded(t)'
    <3>1. CASE ClaimCall(w)
      BY <3>1 DEF ClaimCall, Call
    <3>2. CASE ClaimGot(w)
      BY <3>2 DEF ClaimGot, Return, SessionInv, KindOf
    <3>3. CASE Interrupted(w) \/ CompleteCall(w)
      BY <3>3 DEF Interrupted, CompleteCall, Call
    <3>4. CASE ClaimEmpty(w) \/ ClaimFailed(w) \/ CompleteOk(w) \/ CompleteFailed(w) \/ ReleaseEnd(w)
      BY <2>2, <3>4 DEF ClaimEmpty, ClaimFailed, CompleteOk, CompleteFailed, ReleaseEnd
    <3>5. CASE LoopEnd(w) \/ Wake(w) \/ WorkDone(w) \/ CompleteRefused(w) \/ Stop(w)
               \/ Cancelled(w) \/ ReleaseTimeout(w)
      BY <2>1, <3>5 DEF LoopEnd, Wake, WorkDone, CompleteRefused, Stop, Cancelled,
         ReleaseTimeout
    <3> QED BY <2>3, <3>1, <3>2, <3>3, <3>4, <3>5 DEF Loop
  <2>4. ASSUME NEW w \in Workers, Incident(w) \/ LivenessRestart(w) \/ Start(w)
        PROVE  Stranded(t)'
    BY <2>1, <2>2, <2>4 DEF Incident, ConnectionLost, ReplyLost, Sigterm, Crash,
       LivenessRestart, Start
  <2>5. ASSUME NEW b \in Backends, Server(b) \/ StmtFails(b) PROVE Stranded(t)'
    <3>1. CASE ClaimPick(b)
      <4>1. stmt[b].kind = "claim" /\ stmt[b].task = NoTask /\ UNCHANGED <<status, task, conn>>
        BY <3>1 DEF ClaimPick, ShapeInv
      <4>2. CASE stmt' = [stmt EXCEPT ![b].phase = "ok"]
        BY <4>1, <4>2
      <4>3. ASSUME NEW u \in Tasks, stmt' = [stmt EXCEPT ![b].phase = "locked", ![b].task = u]
            PROVE  Stranded(t)'
        <5>1. /\ stmt'[b].phase = "locked" /\ stmt'[b].kind = "claim"
              /\ \A c \in Backends : c # b => stmt'[c] = stmt[c]
          BY <4>1, <4>3
        <5> QED BY <4>1, <5>1
      <4> QED BY <3>1, <4>2, <4>3 DEF ClaimPick, Claimable
    <3>2. CASE ClaimCommit(b)
      BY <3>2 DEF ClaimCommit, ShapeInv, LockInv
    <3>3. CASE ExecComplete(b)
      BY <3>3 DEF ExecComplete, ShapeInv
    <3>4. CASE ExecRelease(b)
      BY <3>4 DEF ExecRelease, ShapeInv
    <3>5. CASE Reap(b) \/ StmtFails(b)
      BY <3>5 DEF Reap, StmtFails
    <3> QED BY <2>5, <3>1, <3>2, <3>3, <3>4, <3>5 DEF Server
  <2>6. ASSUME NEW u \in Tasks, Create(u) \/ Purge(u) PROVE Stranded(t)'
    BY <2>6 DEF Create, Purge
  <2>7. CASE UNCHANGED vars
    BY <2>7 DEF vars
  <2> QED BY <1>1, <2>3, <2>4, <2>5, <2>6, <2>7 DEF Next
<1>2. IInv /\ [Next]_vars => [A]_vars
  BY <1>1
<1> QED BY Ownership, <1>2, PTL DEF Spec, StrandedForever

-----------------------------------------------------------------------------
(* What the workers' counters claim.  Between the commit of a Complete and *)
(* the increment the worker that waits for the answer is the debtor, and   *)
(* between a statement's failure and its count the session is.             *)

(* A worker whose Complete has been executed and not been counted yet.     *)
Acknowledged == {w \in Workers : pc[w] = "completing" /\ Replied(w, "ok")}

(* A session whose statement has failed.                                   *)
FailedReplies == {b \in Backends : stmt[b].phase = "failed"}

DoneCovered ==
  /\ IsFiniteSet(Finished) /\ IsFiniteSet(Increments(processed)) /\ IsFiniteSet(Acknowledged)
  /\ Cardinality(Increments(processed)) + Cardinality(Acknowledged) <= Cardinality(Finished)

ErrorsCovered ==
  /\ IsFiniteSet(Increments(errors)) /\ IsFiniteSet(FailedReplies)
  /\ Cardinality(Increments(errors)) + Cardinality(FailedReplies) <= faults

(* A counter that is incremented grows by one pair; one that is kept or    *)
(* reset by a restart gains none.                                          *)
LEMMA IncrementFrames ==
  ASSUME NEW c \in [Workers -> Nat], NEW d, NEW w \in Workers
  PROVE  /\ d = c => Keeps(Increments(c), Increments(d))
         /\ d = [c EXCEPT ![w] = 0] => Keeps(Increments(c), Increments(d))
         /\ d = [c EXCEPT ![w] = @ + 1] => Grows(Increments(c), Increments(d))
<1>1. ASSUME d = [c EXCEPT ![w] = 0] PROVE Increments(d) \subseteq Increments(c)
  <2>1. \A v \in Workers : (1 .. d[v]) \subseteq (1 .. c[v])
    BY <1>1
  <2> QED BY <2>1 DEF Increments
<1>2. ASSUME d = [c EXCEPT ![w] = @ + 1]
      PROVE  Increments(d) \subseteq Increments(c) \cup {<<w, c[w] + 1>>}
  <2>1. ASSUME NEW v \in Workers, NEW k \in 1 .. d[v]
        PROVE  k \in 1 .. c[v] \/ (v = w /\ k = c[w] + 1)
    <3>1. CASE v = w
      <4>1. d[v] = c[w] + 1 /\ c[w] \in Nat
        BY <1>2, <3>1
      <4> QED BY <3>1, <4>1
    <3>2. CASE v # w
      BY <1>2, <3>2
    <3> QED BY <3>1, <3>2
  <2> QED BY <2>1 DEF Increments
<1> QED BY <1>1, <1>2 DEF Keeps, Grows

(* A step that finishes nothing and counts nothing, one that counts an     *)
(* acknowledged Complete, and one that finishes a task.                    *)
DoneMoves ==
  \/ /\ Finished' = Finished
     /\ \/ Keeps(Increments(processed), Increments(processed)') /\ Keeps(Acknowledged, Acknowledged')
        \/ Grows(Increments(processed), Increments(processed)') /\ Loses(Acknowledged, Acknowledged')
  \/ /\ \E t : t \notin Finished /\ Finished' = Finished \cup {t}
     /\ Keeps(Increments(processed), Increments(processed)') /\ Grows(Acknowledged, Acknowledged')

(* A step without an error, one that counts a failed statement, and a      *)
(* fault, which fails a statement or is counted at once.                   *)
ErrorMoves ==
  \/ /\ faults' = faults
     /\ \/ Keeps(Increments(errors), Increments(errors)') /\ Keeps(FailedReplies, FailedReplies')
        \/ Grows(Increments(errors), Increments(errors)') /\ Loses(FailedReplies, FailedReplies')
  \/ /\ faults' = faults + 1
     /\ \/ Keeps(Increments(errors), Increments(errors)') /\ Grows(FailedReplies, FailedReplies')
        \/ Grows(Increments(errors), Increments(errors)') /\ Keeps(FailedReplies, FailedReplies')

(* The arithmetic of both: what is counted or owed never passes what       *)
(* happened.                                                               *)
LEMMA Covered ==
  \A c, o, n, c2, o2, n2 \in Nat :
    /\ c + o <= n
    /\ \/ n2 = n /\ c2 <= c /\ o2 <= o
       \/ n2 = n /\ c2 <= c + 1 /\ o2 <= o - 1
       \/ n2 = n + 1 /\ c2 <= c /\ o2 <= o + 1
       \/ n2 = n + 1 /\ c2 <= c + 1 /\ o2 <= o
    => c2 + o2 <= n2
  OBVIOUS

(* Every such step keeps the number of finished tasks ahead.               *)
LEMMA DoneKept ==
  ASSUME DoneCovered, DoneMoves PROVE DoneCovered'
<1> DEFINE P == Cardinality(Increments(processed))  A == Cardinality(Acknowledged)
           F == Cardinality(Finished)
<1>1. /\ P \in Nat /\ A \in Nat /\ F \in Nat /\ P + A <= F
      /\ IsFiniteSet(Finished) /\ IsFiniteSet(Increments(processed)) /\ IsFiniteSet(Acknowledged)
  BY FS_CardinalityType DEF DoneCovered
<1>2. /\ Keeps(Increments(processed), Increments(processed)')
           => IsFiniteSet(Increments(processed))' /\ P' <= P
      /\ Grows(Increments(processed), Increments(processed)')
           => IsFiniteSet(Increments(processed))' /\ P' <= P + 1
      /\ Keeps(Acknowledged, Acknowledged') => IsFiniteSet(Acknowledged)' /\ A' <= A
      /\ Grows(Acknowledged, Acknowledged') => IsFiniteSet(Acknowledged)' /\ A' <= A + 1
      /\ Loses(Acknowledged, Acknowledged') => IsFiniteSet(Acknowledged)' /\ A' <= A - 1
  BY <1>1, DebtSizes
<1>3. /\ Finished' = Finished => IsFiniteSet(Finished)' /\ F' = F
      /\ (\E t : t \notin Finished /\ Finished' = Finished \cup {t})
           => IsFiniteSet(Finished)' /\ F' = F + 1
  BY <1>1, FS_AddElement
<1>4. IsFiniteSet(Finished)' /\ IsFiniteSet(Increments(processed))' /\ IsFiniteSet(Acknowledged)'
  BY <1>2, <1>3 DEF DoneMoves
<1>5. P' \in Nat /\ A' \in Nat /\ F' \in Nat
  BY <1>4, FS_CardinalityType
<1>6. \/ F' = F /\ P' <= P /\ A' <= A
      \/ F' = F /\ P' <= P + 1 /\ A' <= A - 1
      \/ F' = F + 1 /\ P' <= P /\ A' <= A + 1
  BY <1>2, <1>3 DEF DoneMoves
<1> HIDE DEF P, A, F
<1>7. P' + A' <= F'
  BY <1>1, <1>5, <1>6, Covered
<1> QED BY <1>4, <1>7 DEF DoneCovered, P, A, F

(* Every such step keeps the number of faults ahead.                       *)
LEMMA ErrorsKept ==
  ASSUME TypeOK, TypeOK', ErrorsCovered, ErrorMoves PROVE ErrorsCovered'
<1> DEFINE E == Cardinality(Increments(errors))  R == Cardinality(FailedReplies)
<1>1. /\ E \in Nat /\ R \in Nat /\ E + R <= faults
      /\ IsFiniteSet(Increments(errors)) /\ IsFiniteSet(FailedReplies)
  BY FS_CardinalityType DEF ErrorsCovered
<1>2. /\ Keeps(Increments(errors), Increments(errors)')
           => IsFiniteSet(Increments(errors))' /\ E' <= E
      /\ Grows(Increments(errors), Increments(errors)')
           => IsFiniteSet(Increments(errors))' /\ E' <= E + 1
      /\ Keeps(FailedReplies, FailedReplies') => IsFiniteSet(FailedReplies)' /\ R' <= R
      /\ Grows(FailedReplies, FailedReplies') => IsFiniteSet(FailedReplies)' /\ R' <= R + 1
      /\ Loses(FailedReplies, FailedReplies') => IsFiniteSet(FailedReplies)' /\ R' <= R - 1
  BY <1>1, DebtSizes
<1>3. IsFiniteSet(Increments(errors))' /\ IsFiniteSet(FailedReplies)'
  BY <1>2 DEF ErrorMoves
<1>4. E' \in Nat /\ R' \in Nat /\ faults \in Nat /\ faults' \in Nat
  BY <1>3, FS_CardinalityType DEF TypeOK
<1>5. \/ faults' = faults /\ E' <= E /\ R' <= R
      \/ faults' = faults /\ E' <= E + 1 /\ R' <= R - 1
      \/ faults' = faults + 1 /\ E' <= E /\ R' <= R + 1
      \/ faults' = faults + 1 /\ E' <= E + 1 /\ R' <= R
  BY <1>2 DEF ErrorMoves
<1> HIDE DEF E, R
<1>6. E' + R' <= faults'
  BY <1>1, <1>4, <1>5, Covered
<1> QED BY <1>3, <1>6 DEF ErrorsCovered, E, R

(* How a step leaves the acknowledged and the failed statements.           *)
LEMMA CoverFrames ==
  /\ UNCHANGED status => Finished' = Finished
  /\ (\A v \in Workers : v \in Acknowledged' => v \in Acknowledged)
       => Keeps(Acknowledged, Acknowledged')
  /\ (\A b \in Backends : stmt'[b].phase = "failed" => stmt[b].phase = "failed")
       => Keeps(FailedReplies, FailedReplies')
BY DEF Finished, Acknowledged, FailedReplies, Keeps

(* Only a Complete that is executed finishes a task, and only the worker   *)
(* that waits for its answer counts it.                                    *)
LEMMA WorkerDone ==
  ASSUME IInv, NEW w \in Workers,
         Loop(w) \/ Incident(w) \/ LivenessRestart(w) \/ Start(w)
  PROVE  DoneMoves
<1>0. TypeOK /\ SessionInv
  BY DEF IInv
<1> USE <1>0, QueueAssumption DEF TypeOK, Statement, rows, counters, incidents, Goto, Idle,
        Replied, Waiting, HangUp
<1>1. Finished' = Finished
  BY CoverFrames DEF Loop, ClaimCall, LoopEnd, ClaimGot, ClaimEmpty, ClaimFailed, Wake,
     WorkDone,
     Interrupted, CompleteCall, CompleteRefused, CompleteOk, CompleteFailed, ReleaseEnd, Stop,
     Cancelled, ReleaseTimeout, LivenessRestart, Start, Incident, ConnectionLost, ReplyLost,
     Sigterm, Crash
<1>2. CASE CompleteOk(w)
  <2>1. Grows(Increments(processed), Increments(processed)')
    <3>1. processed' = [processed EXCEPT ![w] = @ + 1]
      BY <1>2 DEF CompleteOk
    <3>2. Grows(Increments(processed), Increments(processed'))
      BY <3>1, IncrementFrames
    <3> QED BY <3>2 DEF Increments
  <2>2. w \in Acknowledged
    BY <1>2 DEF CompleteOk, Acknowledged
  <2>3. \A v \in Acknowledged' : v \in Acknowledged \ {w}
    BY <1>2 DEF CompleteOk, Acknowledged, Return
  <2> QED BY <1>1, <2>1, <2>2, <2>3 DEF DoneMoves, Loses
<1>3. CASE ~CompleteOk(w)
  <2>1. Keeps(Increments(processed), Increments(processed)')
    <3>1. processed' = processed \/ processed' = [processed EXCEPT ![w] = 0]
      BY <1>3 DEF Loop, ClaimCall, LoopEnd, ClaimGot, ClaimEmpty, ClaimFailed, Wake, WorkDone,
         Interrupted, CompleteCall, CompleteRefused, CompleteFailed, ReleaseEnd, Stop,
         Cancelled, ReleaseTimeout, LivenessRestart, Start, Incident, ConnectionLost, ReplyLost,
         Sigterm, Crash
    <3>2. Keeps(Increments(processed), Increments(processed'))
      BY <3>1, IncrementFrames
    <3> QED BY <3>2 DEF Increments
  <2>2. \A v \in Workers : v \in Acknowledged' => v \in Acknowledged
    <3> USE DEF Acknowledged
    <3>1. CASE ClaimCall(w) \/ Interrupted(w) \/ CompleteCall(w)
      BY <3>1 DEF ClaimCall, Interrupted, CompleteCall, Call
    <3>2. CASE ClaimGot(w) \/ ClaimEmpty(w) \/ ClaimFailed(w) \/ CompleteFailed(w)
               \/ ReleaseEnd(w) \/ ReplyLost(w)
      BY <3>2 DEF ClaimGot, ClaimEmpty, ClaimFailed, CompleteFailed, ReleaseEnd, ReplyLost,
         Return
    <3>3. CASE LoopEnd(w) \/ Wake(w) \/ WorkDone(w) \/ CompleteRefused(w) \/ Stop(w)
               \/ ReleaseTimeout(w) \/ LivenessRestart(w) \/ Start(w) \/ Sigterm(w)
      BY <3>3 DEF LoopEnd, Wake, WorkDone, CompleteRefused, Stop, ReleaseTimeout,
         LivenessRestart,
         Start, Sigterm
    <3>4. CASE Cancelled(w) \/ ConnectionLost(w) \/ Crash(w)
      BY <3>4 DEF Cancelled, ConnectionLost, Crash
    <3> QED BY <1>3, <3>1, <3>2, <3>3, <3>4 DEF Loop, Incident
  <2> QED BY <1>1, <2>1, <2>2, CoverFrames DEF DoneMoves
<1> QED BY <1>2, <1>3

(* The server's side: an executed Complete finishes the one task its       *)
(* session owns, and is awaited by one worker at most.                     *)
LEMMA ServerDone ==
  ASSUME IInv, NEW b \in Backends, Server(b) \/ StmtFails(b)
  PROVE  DoneMoves
<1>0. TypeOK /\ SessionInv /\ ShapeInv /\ LockInv /\ OwnerInv
  BY DEF IInv
<1>1. /\ UNCHANGED <<pc, conn, processed>>
      /\ \A c \in Backends : c # b => stmt'[c] = stmt[c]
  BY <1>0 DEF Server, ClaimPick, ClaimCommit, ExecComplete, ExecRelease, Reap, StmtFails,
     counters, TypeOK
<1>2. Keeps(Increments(processed), Increments(processed)')
  BY <1>1 DEF Increments, Keeps
<1>3. CASE ExecComplete(b)
  <2> PICK t \in Tasks : t = stmt[b].task
    BY <1>0, <1>3 DEF ExecComplete, ShapeInv
  <2>1. Owns(b, t)
    BY <1>3 DEF ExecComplete, Owns
  <2>2. status[t] = "processing"
    BY <1>0, <2>1 DEF OwnerInv
  <2>3. status' = [status EXCEPT ![t] = "done"]
    BY <1>3, <2>2 DEF ExecComplete
  <2>4. t \notin Finished /\ Finished' = Finished \cup {t}
    BY <1>0, <2>2, <2>3 DEF Finished, TypeOK
  <2>5. \A w, v \in Workers : conn[w] = b /\ conn[v] = b => w = v
    BY <1>0, QueueAssumption DEF SessionInv
  <2>6. Grows(Acknowledged, Acknowledged')
    <3>1. \A v \in Workers : v \in Acknowledged' => v \in Acknowledged \/ conn[v] = b
      BY <1>0, <1>1 DEF Acknowledged, Replied, Waiting, TypeOK
    <3>2. CASE \E w \in Workers : conn[w] = b
      BY <2>5, <3>1, <3>2 DEF Grows, Acknowledged
    <3>3. CASE ~ \E w \in Workers : conn[w] = b
      BY <3>1, <3>3 DEF Grows, Acknowledged
    <3> QED BY <3>2, <3>3
  <2> QED BY <1>2, <2>4, <2>6 DEF DoneMoves
<1>4. CASE ~ExecComplete(b)
  <2>1. Finished' = Finished
    <3>1. CASE ClaimPick(b) \/ Reap(b) \/ StmtFails(b)
      BY <3>1, CoverFrames DEF ClaimPick, Reap, StmtFails, rows
    <3>2. CASE ClaimCommit(b)
      <4>1. stmt[b].task \in Tasks /\ status[stmt[b].task] = "pending"
        BY <1>0, <3>2 DEF ClaimCommit, ShapeInv, LockInv
      <4> QED BY <1>0, <3>2, <4>1 DEF ClaimCommit, Finished, TypeOK
    <3>3. CASE ExecRelease(b)
      <4> PICK t \in Tasks : t = stmt[b].task
        BY <1>0, <3>3 DEF ExecRelease, ShapeInv
      <4>1. status[t] = "processing"
        BY <1>0, <3>3 DEF ExecRelease, OwnerInv, Owns
      <4>2. status' = [status EXCEPT ![t] = "pending"]
        BY <3>3, <4>1 DEF ExecRelease
      <4> QED BY <1>0, <4>1, <4>2 DEF Finished, TypeOK
    <3> QED BY <1>4, <3>1, <3>2, <3>3 DEF Server
  <2>2. \A v \in Workers : v \in Acknowledged' => v \in Acknowledged
    <3>1. stmt'[b].phase = "ok" => stmt[b].kind \in {"claim", "release"}
      BY <1>0, <1>4 DEF Server, ClaimPick, ClaimCommit, ExecRelease, Reap, StmtFails, TypeOK,
         Statement, ShapeInv, Idle
    <3>2. \A v \in Workers : pc[v] = "completing" /\ conn[v] = b => stmt[b].kind = "complete"
      BY <1>0, QueueAssumption DEF SessionInv, KindOf
    <3> QED BY <1>0, <1>1, <3>1, <3>2 DEF Acknowledged, Replied, Waiting, TypeOK
  <2> QED BY <1>2, <2>1, <2>2, CoverFrames DEF DoneMoves
<1> QED BY <1>3, <1>4

(* Every error that is counted is a statement that failed or a connection  *)
(* that broke.                                                             *)
LEMMA ErrorSteps ==
  ASSUME IInv, Next
  PROVE  ErrorMoves
<1>0. TypeOK /\ SessionInv
  BY DEF IInv
<1>1. ASSUME NEW w \in Workers, Loop(w) \/ Incident(w) \/ LivenessRestart(w) \/ Start(w)
      PROVE  ErrorMoves
  <2> USE <1>0, QueueAssumption DEF TypeOK, Statement, rows, counters, incidents, Goto, Idle,
          Replied, Waiting, HangUp
  <2>1. CASE ClaimFailed(w)
    <3>1. errors' = errors \/ errors' = [errors EXCEPT ![w] = @ + 1]
      BY <2>1 DEF ClaimFailed, CountError
    <3>2. \/ Keeps(Increments(errors), Increments(errors'))
          \/ Grows(Increments(errors), Increments(errors'))
      BY <3>1, IncrementFrames
    <3>3. Grows(Increments(errors), Increments(errors'))
      BY <3>2 DEF Keeps, Grows
    <3>4. conn[w] \in FailedReplies /\ FailedReplies' \subseteq FailedReplies \ {conn[w]}
      BY <2>1 DEF ClaimFailed, FailedReplies, Return
    <3> QED BY <2>1, <3>3, <3>4 DEF ErrorMoves, Loses, ClaimFailed, Increments
  <2>2. CASE ConnectionLost(w)
    <3>1. errors' = errors \/ errors' = [errors EXCEPT ![w] = @ + 1]
      BY <2>2 DEF ConnectionLost, CountError
    <3>2. \/ Keeps(Increments(errors), Increments(errors'))
          \/ Grows(Increments(errors), Increments(errors'))
      BY <3>1, IncrementFrames
    <3>3. Grows(Increments(errors), Increments(errors'))
      BY <3>2 DEF Keeps, Grows
    <3>4. Keeps(FailedReplies, FailedReplies') /\ faults' = faults + 1
      BY <2>2 DEF ConnectionLost, Fault, FailedReplies, Keeps
    <3> QED BY <3>3, <3>4 DEF ErrorMoves, Increments
  <2>3. CASE ~ClaimFailed(w) /\ ~ConnectionLost(w)
    <3>1. errors' = errors \/ errors' = [errors EXCEPT ![w] = 0]
      BY <1>1, <2>3 DEF Loop, ClaimCall, LoopEnd, ClaimGot, ClaimEmpty, Wake, WorkDone,
         Interrupted, CompleteCall, CompleteRefused, CompleteOk, CompleteFailed, ReleaseEnd, Stop,
         Cancelled, ReleaseTimeout, LivenessRestart, Start, Incident, ReplyLost, Sigterm, Crash
    <3>2. Keeps(Increments(errors), Increments(errors'))
      BY <3>1, IncrementFrames
    <3>3. \A b \in Backends : stmt'[b].phase = "failed" => stmt[b].phase = "failed"
      <4>1. CASE ClaimCall(w) \/ Interrupted(w) \/ CompleteCall(w)
        BY <4>1 DEF ClaimCall, Interrupted, CompleteCall, Call
      <4>2. CASE ClaimGot(w) \/ ClaimEmpty(w) \/ CompleteOk(w) \/ CompleteFailed(w)
                 \/ ReleaseEnd(w) \/ ReplyLost(w)
        BY <4>2 DEF ClaimGot, ClaimEmpty, CompleteOk, CompleteFailed, ReleaseEnd, ReplyLost,
           Return
      <4>3. CASE UNCHANGED stmt
        BY <4>3
      <4> QED BY <1>1, <2>3, <4>1, <4>2, <4>3 DEF Loop, LoopEnd, Wake, WorkDone,
                 CompleteRefused,
              Stop, Cancelled, ReleaseTimeout, LivenessRestart, Start, Incident, Sigterm, Crash
    <3>4. Keeps(FailedReplies, FailedReplies')
      BY <3>3, CoverFrames
    <3>5. faults' = faults \/ faults' = faults + 1
      BY <1>1, <2>3 DEF Loop, ClaimCall, LoopEnd, ClaimGot, ClaimEmpty, Wake, WorkDone,
         Interrupted, CompleteCall, CompleteRefused, CompleteOk, CompleteFailed, ReleaseEnd, Stop,
         Cancelled, ReleaseTimeout, LivenessRestart, Start, Incident, ReplyLost, Sigterm, Crash,
         Fault
    <3>6. Grows(FailedReplies, FailedReplies')
      BY <3>4 DEF Keeps, Grows
    <3> QED BY <3>2, <3>4, <3>5, <3>6 DEF ErrorMoves, Increments
  <2> QED BY <2>1, <2>2, <2>3
<1>2. ASSUME NEW b \in Backends, Server(b) \/ StmtFails(b) PROVE ErrorMoves
  <2>1. Keeps(Increments(errors), Increments(errors)')
    BY <1>2 DEF Server, ClaimPick, ClaimCommit, ExecComplete, ExecRelease, Reap, StmtFails,
       counters, Increments, Keeps
  <2>2. CASE StmtFails(b)
    <3>1. FailedReplies' \subseteq FailedReplies \cup {b}
      BY <1>0, <2>2 DEF StmtFails, FailedReplies, TypeOK
    <3> QED BY <2>1, <2>2, <3>1 DEF ErrorMoves, Grows, StmtFails, Fault
  <2>3. CASE Server(b)
    <3>1. \A c \in Backends : stmt'[c].phase = "failed" => stmt[c].phase = "failed"
      BY <1>0, <2>3 DEF Server, ClaimPick, ClaimCommit, ExecComplete, ExecRelease, Reap,
         TypeOK,
         Statement, Idle
    <3>2. faults' = faults
      BY <2>3 DEF Server, ClaimPick, ClaimCommit, ExecComplete, ExecRelease, Reap, incidents
    <3> QED BY <2>1, <3>1, <3>2, CoverFrames DEF ErrorMoves
  <2> QED BY <1>2, <2>2, <2>3
<1>3. ASSUME NEW t \in Tasks, Create(t) \/ Purge(t) PROVE ErrorMoves
  BY <1>3 DEF Create, Purge, ErrorMoves, counters, incidents, Increments, Keeps, FailedReplies
<1> QED BY <1>1, <1>2, <1>3 DEF Next

(* The workers never count more tasks than the table holds finished, nor   *)
(* more errors than there were faults.                                     *)
THEOREM CountersHonestHolds == Spec => []CountersHonest
<1> DEFINE Ahead == DoneCovered /\ ErrorsCovered
<1>1. Init => Ahead
  <2> SUFFICES ASSUME Init PROVE Ahead
    OBVIOUS
  <2>1. Finished = {} /\ Acknowledged = {} /\ FailedReplies = {}
    BY DEF Init, Finished, Acknowledged, FailedReplies, Idle
  <2>2. \A c \in [Workers -> {0}] : Increments(c) = {}
    <3>1. 1 .. 0 = {}
      OBVIOUS
    <3> QED BY <3>1 DEF Increments
  <2>3. Increments(processed) = {} /\ Increments(errors) = {} /\ faults = 0
    BY <2>2 DEF Init
  <2> QED BY <2>1, <2>3, FS_EmptySet DEF DoneCovered, ErrorsCovered
<1>2. IInv /\ IInv' /\ Ahead /\ [Next]_vars => Ahead'
  <2> SUFFICES ASSUME IInv, IInv', Ahead, [Next]_vars PROVE Ahead'
    OBVIOUS
  <2>1. CASE UNCHANGED vars
    BY <2>1 DEF vars, DoneCovered, ErrorsCovered, Finished, Increments, Acknowledged,
       FailedReplies, Replied, Waiting
  <2>2. CASE Next
    <3>1. ASSUME NEW t \in Tasks, Create(t) \/ Purge(t) PROVE DoneMoves
      BY <3>1 DEF IInv, TypeOK, Create, Purge, DoneMoves, counters, Increments, Keeps,
         Finished,
         Acknowledged, Replied, Waiting
    <3>2. DoneMoves
      BY <2>2, <3>1, WorkerDone, ServerDone DEF Next
    <3> QED BY <2>2, <3>2, ErrorSteps, DoneKept, ErrorsKept DEF IInv
  <2> QED BY <2>1, <2>2
<1>3. IInv /\ Ahead => CountersHonest
  <2> SUFFICES ASSUME IInv, Ahead PROVE CountersHonest
    OBVIOUS
  <2>1. /\ Cardinality(Increments(processed)) \in Nat /\ Cardinality(Acknowledged) \in Nat
        /\ Cardinality(Finished) \in Nat
    BY FS_CardinalityType DEF DoneCovered
  <2>2. /\ Cardinality(Increments(errors)) \in Nat /\ Cardinality(FailedReplies) \in Nat
    BY FS_CardinalityType DEF ErrorsCovered
  <2>3. \A c, o, n \in Nat : c + o <= n => c <= n
    OBVIOUS
  <2>4. faults \in Nat
    BY DEF IInv, TypeOK
  <2> QED BY <2>1, <2>2, <2>3, <2>4 DEF DoneCovered, ErrorsCovered, CountersHonest
<1> QED BY <1>1, <1>2, <1>3, Ownership, PTL DEF Spec
=============================================================================
