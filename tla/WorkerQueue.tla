----------------------------- MODULE WorkerQueue -----------------------------
(***************************************************************************)
(* The task queue: worker replicas (cmd/worker/main.go) that share one     *)
(* PostgreSQL table through internal/store/store.go.                       *)
(*                                                                         *)
(* A worker never touches the table.  It sends a statement to a database   *)
(* session, the server executes it there, and the reply travels back.  A   *)
(* worker that stops waiting (its context was cancelled, its connection    *)
(* broke, its process died) leaves the statement behind: the server may    *)
(* still execute it, which is where the hard interleavings come from.      *)
(***************************************************************************)
EXTENDS Integers, FiniteSets

CONSTANTS
  Tasks,        (* ids the BIGSERIAL column hands out                       *)
  Workers,      (* worker replicas, named by the host name they write       *)
  Backends,     (* database sessions                                        *)
  NoTask, NoWorker, NoBackend,
  MaxFaults,    (* bound: failed statements, lost connections, lost replies *)
  MaxCrashes,   (* bound: containers killed without a chance to react       *)
  MaxTerms      (* bound: SIGTERMs sent by rollouts and scale-downs         *)

ASSUME QueueAssumption ==
  /\ Tasks \subseteq Nat
  /\ NoTask \notin Tasks
  /\ NoWorker \notin Workers
  /\ NoBackend \notin Backends
  /\ MaxFaults \in Nat /\ MaxCrashes \in Nat /\ MaxTerms \in Nat

VARIABLES
  status,       (* tasks.status; "absent" and "purged" are rows not there   *)
  worker,       (* tasks.worker                                             *)
  stmt,         (* what each database session is doing                      *)
  pc,           (* where each worker is in main()                           *)
  task,         (* the worker's local t.ID                                  *)
  conn,         (* the session whose reply the worker waits for             *)
  term,         (* ctx is cancelled: SIGTERM has arrived                    *)
  processed,    (* tasklane_tasks_processed_total of the running process    *)
  errors,       (* tasklane_worker_errors_total of the running process      *)
  faults, crashes, terms    (* incidents so far                             *)

rows      == <<status, worker>>
counters  == <<processed, errors>>
incidents == <<faults, crashes, terms>>
vars == <<status, worker, stmt, pc, task, conn, term, processed, errors,
          faults, crashes, terms>>

Status == {"absent", "pending", "processing", "done", "purged"}
Kinds  == {"none", "claim", "complete", "release"}
Phases == {"idle",      (* no statement                                     *)
           "sent",      (* not executed yet                                 *)
           "locked",    (* the claim's sub-select holds its row lock        *)
           "ok",        (* committed, reply on its way                      *)
           "failed"}    (* rolled back, error on its way                    *)
Pcs == {"loop",         (* at the head of the for loop                      *)
        "claiming", "polling", "backoff", "working", "complete",
        "completing", "releasing", "stopping", "exited"}

Statement == [kind : Kinds, task : Tasks \cup {NoTask},
              by : Workers \cup {NoWorker}, phase : Phases]

Idle == [kind |-> "none", task |-> NoTask, by |-> NoWorker, phase |-> "idle"]

(* Every variable holds what main() and the table can hold, and a worker   *)
(* has a task at hand exactly while it works on it or is about to complete *)
(* it (worker/main.go: t is only used below the switch).                   *)
TypeOK ==
  /\ status \in [Tasks -> Status]
  /\ worker \in [Tasks -> Workers \cup {NoWorker}]
  /\ stmt \in [Backends -> Statement]
  /\ pc \in [Workers -> Pcs]
  /\ task \in [Workers -> Tasks \cup {NoTask}]
  /\ conn \in [Workers -> Backends \cup {NoBackend}]
  /\ term \in [Workers -> BOOLEAN]
  /\ processed \in [Workers -> Nat]
  /\ errors \in [Workers -> Nat]
  /\ faults \in Nat /\ crashes \in Nat /\ terms \in Nat
  /\ \A w \in Workers : pc[w] \in {"working", "complete"} <=> task[w] \in Tasks

Init ==
  /\ status = [t \in Tasks |-> "absent"]
  /\ worker = [t \in Tasks |-> NoWorker]
  /\ stmt = [b \in Backends |-> Idle]
  /\ pc = [w \in Workers |-> "loop"]
  /\ task = [w \in Workers |-> NoTask]
  /\ conn = [w \in Workers |-> NoBackend]
  /\ term = [w \in Workers |-> FALSE]
  /\ processed = [w \in Workers |-> 0]
  /\ errors = [w \in Workers |-> 0]
  /\ faults = 0 /\ crashes = 0 /\ terms = 0

-----------------------------------------------------------------------------
(* Incidents.                                                              *)

Fault == /\ faults < MaxFaults
         /\ faults' = faults + 1
         /\ UNCHANGED <<crashes, terms>>

-----------------------------------------------------------------------------
(* The client side of a statement.                                         *)

(* A store method sends its statement on a session of the pool.            *)
Call(w, kind, t) ==
  \E b \in Backends :
    /\ stmt[b].phase = "idle"
    /\ stmt' = [stmt EXCEPT ![b] =
                  [kind |-> kind, task |-> t, by |-> w, phase |-> "sent"]]
    /\ conn' = [conn EXCEPT ![w] = b]

Waiting(w) == conn[w] # NoBackend

(* The reply the worker is waiting for has arrived.                        *)
Replied(w, phase) == Waiting(w) /\ stmt[conn[w]].phase = phase

(* The reply is consumed and the session goes back to the pool.            *)
Return(w) == /\ stmt' = [stmt EXCEPT ![conn[w]] = Idle]
             /\ conn' = [conn EXCEPT ![w] = NoBackend]

(* The worker gives up on a reply; the session keeps its statement.        *)
HangUp(w) == conn' = [conn EXCEPT ![w] = NoBackend]

Goto(w, to) == pc' = [pc EXCEPT ![w] = to]

(* Claim returned an error that is not ErrNoTask: counted unless the       *)
(* process is being stopped.                                               *)
CountError(w) == IF term[w] THEN UNCHANGED errors
                 ELSE errors' = [errors EXCEPT ![w] = @ + 1]

-----------------------------------------------------------------------------
(* The worker's loop.                                                      *)

(* for ctx.Err() == nil { ... db.Claim(ctx, host)                          *)
ClaimCall(w) ==
  /\ pc[w] = "loop" /\ ~term[w]
  /\ Call(w, "claim", NoTask)
  /\ Goto(w, "claiming")
  /\ UNCHANGED <<rows, task, term, counters, incidents>>

(* The loop condition fails: ctx was cancelled.                            *)
LoopEnd(w) ==
  /\ pc[w] = "loop" /\ term[w]
  /\ Goto(w, "stopping")
  /\ UNCHANGED <<rows, stmt, task, conn, term, counters, incidents>>

(* Mutant: the ErrNoTask case is missing from the switch.                  *)
ClaimGotUnchecked(w) ==
  /\ pc[w] = "claiming" /\ Replied(w, "ok")
  /\ task' = [task EXCEPT ![w] = stmt[conn[w]].task]
  /\ Return(w)
  /\ Goto(w, "working")
  /\ UNCHANGED <<rows, term, counters, incidents>>

(* Claim returned a task: start the (simulated) work.                      *)
ClaimGot(w) ==
  /\ pc[w] = "claiming" /\ Replied(w, "ok")
  /\ stmt[conn[w]].task # NoTask
  /\ task' = [task EXCEPT ![w] = stmt[conn[w]].task]
  /\ Return(w)
  /\ Goto(w, "working")
  /\ UNCHANGED <<rows, term, counters, incidents>>

(* ErrNoTask: sleep for the poll interval.                                 *)
ClaimEmpty(w) ==
  /\ pc[w] = "claiming" /\ Replied(w, "ok")
  /\ stmt[conn[w]].task = NoTask
  /\ Return(w)
  /\ Goto(w, "polling")
  /\ UNCHANGED <<rows, task, term, counters, incidents>>

(* Any other error: count it, back off two seconds.                        *)
ClaimFailed(w) ==
  /\ pc[w] = "claiming" /\ Replied(w, "failed")
  /\ Return(w)
  /\ CountError(w)
  /\ Goto(w, "backoff")
  /\ UNCHANGED <<rows, task, term, processed, incidents>>

(* sleep() returned, by its timer or by ctx, and the loop continues.       *)
Wake(w) ==
  /\ pc[w] \in {"polling", "backoff"}
  /\ Goto(w, "loop")
  /\ UNCHANGED <<rows, stmt, task, conn, term, counters, incidents>>

(* Mutant: the loop goes on to the next claim without Complete.            *)
WorkDoneForgotten(w) ==
  /\ pc[w] = "working" /\ ~term[w]
  /\ task' = [task EXCEPT ![w] = NoTask]
  /\ Goto(w, "loop")
  /\ UNCHANGED <<rows, stmt, conn, term, counters, incidents>>

(* The work's sleep ran to its end: a context that was cancelled before it *)
(* began, or while select waits, ends it as interrupted.                   *)
WorkDone(w) ==
  /\ pc[w] = "working" /\ ~term[w]
  /\ Goto(w, "complete")
  /\ UNCHANGED <<rows, stmt, task, conn, term, counters, incidents>>

(* SIGTERM mid-task: Release on a fresh context, then leave the loop.      *)
Interrupted(w) ==
  /\ pc[w] = "working" /\ term[w]
  /\ Call(w, "release", task[w])
  /\ task' = [task EXCEPT ![w] = NoTask]
  /\ Goto(w, "releasing")
  /\ UNCHANGED <<rows, term, counters, incidents>>

(* db.Complete(ctx, t.ID) with a live context.                             *)
CompleteCall(w) ==
  /\ pc[w] = "complete" /\ ~term[w]
  /\ Call(w, "complete", task[w])
  /\ task' = [task EXCEPT ![w] = NoTask]
  /\ Goto(w, "completing")
  /\ UNCHANGED <<rows, term, counters, incidents>>

(* The same call after SIGTERM: the pool refuses a cancelled context, the  *)
(* statement is never sent, the error is logged, the loop condition fails. *)
CompleteRefused(w) ==
  /\ pc[w] = "complete" /\ term[w]
  /\ task' = [task EXCEPT ![w] = NoTask]
  /\ Goto(w, "loop")
  /\ UNCHANGED <<rows, stmt, conn, term, counters, incidents>>

CompleteOk(w) ==
  /\ pc[w] = "completing" /\ Replied(w, "ok")
  /\ Return(w)
  /\ processed' = [processed EXCEPT ![w] = @ + 1]
  /\ Goto(w, "loop")
  /\ UNCHANGED <<rows, task, term, errors, incidents>>

(* Mutant: the "continue" after a failed Complete is missing.              *)
CompleteFailedCounted(w) ==
  /\ pc[w] = "completing" /\ Replied(w, "failed")
  /\ Return(w)
  /\ processed' = [processed EXCEPT ![w] = @ + 1]
  /\ Goto(w, "loop")
  /\ UNCHANGED <<rows, task, term, errors, incidents>>

(* "complete failed" is logged and the loop continues: no retry.           *)
CompleteFailed(w) ==
  /\ pc[w] = "completing" /\ Replied(w, "failed")
  /\ Return(w)
  /\ Goto(w, "loop")
  /\ UNCHANGED <<rows, task, term, counters, incidents>>

(* Release returned, with or without an error, and the loop is left.       *)
ReleaseEnd(w) ==
  /\ pc[w] = "releasing"
  /\ Replied(w, "ok") \/ Replied(w, "failed")
  /\ Return(w)
  /\ Goto(w, "stopping")
  /\ UNCHANGED <<rows, task, term, counters, incidents>>

(* The metrics server is shut down, the pool closed, main returns.         *)
Stop(w) ==
  /\ pc[w] = "stopping"
  /\ Goto(w, "exited")
  /\ UNCHANGED <<rows, stmt, task, conn, term, counters, incidents>>

-----------------------------------------------------------------------------
(* Signals, lost connections, crashes and restarts.                        *)

(* Where a store call that returned an error leaves the loop's body.       *)
AfterError(where) == CASE where = "claiming"   -> "backoff"
                       [] where = "completing" -> "loop"
                       [] where = "releasing"  -> "stopping"

(* Claim(ctx) and Complete(ctx) return as soon as SIGTERM cancels ctx; the *)
(* server may or may not have executed, or go on to execute, the statement.*)
Cancelled(w) ==
  /\ pc[w] \in {"claiming", "completing"} /\ term[w]
  /\ HangUp(w)
  /\ Goto(w, AfterError(pc[w]))
  /\ UNCHANGED <<rows, stmt, task, term, counters, incidents>>

(* Mutant: a Complete whose reply was lost is answered with a Release, as  *)
(* if it had not been executed.                                            *)
ConnectionLostHandsBack(w) ==
  /\ pc[w] = "completing" /\ Waiting(w)
  /\ Fault
  /\ Call(w, "release", stmt[conn[w]].task)
  /\ Goto(w, "releasing")
  /\ UNCHANGED <<rows, task, term, counters>>

(* The connection breaks, or Release's five seconds pass, mid-call.        *)
ConnectionLost(w) ==
  /\ pc[w] \in {"claiming", "completing", "releasing"} /\ Waiting(w)
  /\ Fault
  /\ HangUp(w)
  /\ IF pc[w] = "claiming" THEN CountError(w) ELSE UNCHANGED errors
  /\ Goto(w, AfterError(pc[w]))
  /\ UNCHANGED <<rows, stmt, task, term, processed>>

(* The reply vanishes and the connection stays open: Claim and Complete    *)
(* have no deadline, so the worker now waits for nothing.                  *)
ReplyLost(w) ==
  /\ Replied(w, "ok") \/ Replied(w, "failed")
  /\ Fault
  /\ Return(w)
  /\ UNCHANGED <<rows, pc, task, term, counters>>

Wedged(w) == pc[w] \in {"claiming", "completing"} /\ ~Waiting(w)

(* Mutant: /healthz answers 200 without looking at lastLoop.               *)
LivenessRestartNever(w) == Wedged(w) /\ FALSE /\ UNCHANGED vars

(* A wedged loop stops refreshing lastLoop; after a minute /healthz fails  *)
(* and the kubelet restarts the container, with SIGTERM first.             *)
LivenessRestart(w) ==
  /\ Wedged(w) /\ ~term[w]
  /\ term' = [term EXCEPT ![w] = TRUE]
  /\ UNCHANGED <<rows, stmt, pc, task, conn, counters, incidents>>

(* Release has a deadline of its own, so it cannot wedge.                  *)
ReleaseTimeout(w) ==
  /\ pc[w] = "releasing" /\ ~Waiting(w)
  /\ Goto(w, "stopping")
  /\ UNCHANGED <<rows, stmt, task, conn, term, counters, incidents>>

(* A rollout or a scale-down stops the pod.                                *)
Sigterm(w) ==
  /\ pc[w] # "exited" /\ ~term[w] /\ terms < MaxTerms
  /\ term' = [term EXCEPT ![w] = TRUE]
  /\ terms' = terms + 1
  /\ UNCHANGED <<rows, stmt, pc, task, conn, counters, faults, crashes>>

(* SIGKILL, OOM or node loss: the process is gone, its statement is not.   *)
Crash(w) ==
  /\ pc[w] # "exited" /\ crashes < MaxCrashes
  /\ crashes' = crashes + 1
  /\ HangUp(w)
  /\ task' = [task EXCEPT ![w] = NoTask]
  /\ Goto(w, "exited")
  /\ UNCHANGED <<rows, stmt, term, counters, faults, terms>>

(* Mutant: a starting worker hands back whatever its predecessor held,     *)
(* without asking whether a late statement is about to change it.          *)
StartReclaims(w) ==
  /\ pc[w] = "exited"
  /\ Goto(w, "loop")
  /\ status' = [t \in Tasks |-> IF status[t] = "processing" /\ worker[t] = w
                                THEN "pending" ELSE status[t]]
  /\ term' = [term EXCEPT ![w] = FALSE]
  /\ processed' = [processed EXCEPT ![w] = 0]
  /\ errors' = [errors EXCEPT ![w] = 0]
  /\ UNCHANGED <<worker, stmt, task, conn, incidents>>

(* The container is started again, or a replacement replica takes its      *)
(* place: main() runs from the top with fresh memory.                      *)
Start(w) ==
  /\ pc[w] = "exited"
  /\ Goto(w, "loop")
  /\ term' = [term EXCEPT ![w] = FALSE]
  /\ processed' = [processed EXCEPT ![w] = 0]
  /\ errors' = [errors EXCEPT ![w] = 0]
  /\ UNCHANGED <<rows, stmt, task, conn, incidents>>

-----------------------------------------------------------------------------
(* The database server.                                                    *)

Locked(t) == \E b \in Backends : stmt[b].phase = "locked" /\ stmt[b].task = t

(* Mutant: the sub-select does not lock the row it returns.                *)
ClaimableUnlocked == {t \in Tasks : status[t] = "pending"}

(* What the claim's sub-select can take: pending rows nobody has locked.   *)
Claimable == {t \in Tasks : status[t] = "pending" /\ ~Locked(t)}

(* ORDER BY id FOR UPDATE SKIP LOCKED LIMIT 1                              *)
ClaimPick(b) ==
  /\ stmt[b].kind = "claim" /\ stmt[b].phase = "sent"
  /\ \/ /\ Claimable = {}
        /\ stmt' = [stmt EXCEPT ![b].phase = "ok"]
     \/ \E t \in Claimable :
          /\ \A u \in Claimable : t <= u
          /\ stmt' = [stmt EXCEPT ![b].phase = "locked", ![b].task = t]
  /\ UNCHANGED <<rows, pc, task, conn, term, counters, incidents>>

(* The claim's UPDATE commits.                                             *)
ClaimCommit(b) ==
  /\ stmt[b].phase = "locked"
  /\ status' = [status EXCEPT ![stmt[b].task] = "processing"]
  /\ worker' = [worker EXCEPT ![stmt[b].task] = stmt[b].by]
  /\ stmt' = [stmt EXCEPT ![b].phase = "ok"]
  /\ UNCHANGED <<pc, task, conn, term, counters, incidents>>

(* UPDATE ... WHERE id = $1: no guard on the row's status or worker.       *)
ExecComplete(b) ==
  /\ stmt[b].kind = "complete" /\ stmt[b].phase = "sent"
  /\ status' = [status EXCEPT ![stmt[b].task] =
                  IF @ \in {"absent", "purged"} THEN @ ELSE "done"]
  /\ stmt' = [stmt EXCEPT ![b].phase = "ok"]
  /\ UNCHANGED <<worker, pc, task, conn, term, counters, incidents>>

ExecRelease(b) ==
  /\ stmt[b].kind = "release" /\ stmt[b].phase = "sent"
  /\ LET t == stmt[b].task
         there == status[t] \notin {"absent", "purged"}
     IN  /\ status' = [status EXCEPT ![t] = IF there THEN "pending" ELSE @]
         /\ worker' = [worker EXCEPT ![t] = IF there THEN NoWorker ELSE @]
  /\ stmt' = [stmt EXCEPT ![b].phase = "ok"]
  /\ UNCHANGED <<pc, task, conn, term, counters, incidents>>

(* The server rolls a statement back, or never gets it: database restart,  *)
(* refused connection, statement error.  A row lock goes with it.          *)
StmtFails(b) ==
  /\ stmt[b].phase \in {"sent", "locked"}
  /\ Fault
  /\ stmt' = [stmt EXCEPT ![b].phase = "failed"]
  /\ UNCHANGED <<rows, pc, task, conn, term, counters>>

(* A reply nobody waits for is dropped with its session.                   *)
Reap(b) ==
  /\ stmt[b].phase \in {"ok", "failed"}
  /\ \A w \in Workers : conn[w] # b
  /\ stmt' = [stmt EXCEPT ![b] = Idle]
  /\ UNCHANGED <<rows, pc, task, conn, term, counters, incidents>>

(* The API inserts a row.  Ids are handed out in order and committed in    *)
(* any order.                                                              *)
Create(t) ==
  /\ status[t] = "absent"
  /\ status' = [status EXCEPT ![t] = "pending"]
  /\ UNCHANGED <<worker, stmt, pc, task, conn, term, counters, incidents>>

(* The nightly maintenance job deletes old finished rows.                  *)
Purge(t) ==
  /\ status[t] = "done"
  /\ status' = [status EXCEPT ![t] = "purged"]
  /\ UNCHANGED <<worker, stmt, pc, task, conn, term, counters, incidents>>

-----------------------------------------------------------------------------
Loop(w) == \/ ClaimCall(w) \/ LoopEnd(w) \/ ClaimGot(w) \/ ClaimEmpty(w)
           \/ ClaimFailed(w) \/ Wake(w) \/ WorkDone(w) \/ Interrupted(w)
           \/ CompleteCall(w) \/ CompleteRefused(w) \/ CompleteOk(w)
           \/ CompleteFailed(w) \/ ReleaseEnd(w) \/ Stop(w)
           \/ Cancelled(w) \/ ReleaseTimeout(w)

Incident(w) == \/ ConnectionLost(w) \/ ReplyLost(w) \/ Sigterm(w) \/ Crash(w)

Server(b) == \/ ClaimPick(b) \/ ClaimCommit(b) \/ ExecComplete(b)
             \/ ExecRelease(b) \/ Reap(b)

Next == \/ \E w \in Workers : Loop(w) \/ Incident(w) \/ LivenessRestart(w)
                              \/ Start(w)
        \/ \E b \in Backends : Server(b) \/ StmtFails(b)
        \/ \E t \in Tasks : Create(t) \/ Purge(t)

Spec == Init /\ [][Next]_vars

(* Goroutines are scheduled, the server executes what it was sent, the     *)
(* kubelet probes and restarts.  Nothing makes a client create a task, a   *)
(* fault happen or the purge job run.                                      *)
Fairness == /\ \A w \in Workers : /\ WF_vars(Loop(w))
                                  /\ WF_vars(LivenessRestart(w))
                                  /\ WF_vars(Start(w))
            /\ \A b \in Backends : WF_vars(Server(b))

FairSpec == Spec /\ Fairness

-----------------------------------------------------------------------------
(* Properties.                                                             *)

(* w believes the task is its own: it is working on it, or is about to     *)
(* mark it done.                                                           *)
Holds(w, t) == pc[w] \in {"working", "complete"} /\ task[w] = t

(* "FOR UPDATE SKIP LOCKED lets any number of worker replicas poll the     *)
(* same table without double-processing" (store.go, Claim): no two workers *)
(* ever hold the same task, whatever is lost, late or restarted.           *)
NoDoubleProcessing ==
  \A t \in Tasks, v, w \in Workers : Holds(v, t) /\ Holds(w, t) => v = w

(* While a worker holds a task the row says so: it is "processing" and     *)
(* names that worker, so the table an operator reads is never wrong about  *)
(* who is doing what (store.go, Claim and Release).                        *)
HolderNamedInRow ==
  \A w \in Workers, t \in Tasks :
    Holds(w, t) => status[t] = "processing" /\ worker[t] = w

(* A finished task is never handed out again: no Release or Claim, however *)
(* late the server executes it, takes a row out of "done" (store.go,       *)
(* Complete and Release update WHERE id = $1 with no guard).               *)
DoneIsFinal ==
  [][\A t \in Tasks : status[t] = "done" => status'[t] \in {"done", "purged"}]_status

(* The reply to a claim is still on its way to the worker that made it.    *)
ReplyPending(t) == \E w \in Workers :
                     /\ Replied(w, "ok")
                     /\ stmt[conn[w]].kind = "claim" /\ stmt[conn[w]].task = t

(* A Complete or Release for the task has yet to be executed.              *)
UpdatePending(t) == \E b \in Backends :
                      /\ stmt[b].kind \in {"complete", "release"}
                      /\ stmt[b].phase = "sent" /\ stmt[b].task = t

(* The row says "processing" and nobody will ever change it: there is no   *)
(* reaper in this program.                                                 *)
Stranded(t) == /\ status[t] = "processing"
               /\ \A w \in Workers : task[w] # t
               /\ ~ReplyPending(t) /\ ~UpdatePending(t)

(* Tasks are only stranded by an incident, and an incident strands at most *)
(* one: in fault-free operation the queue loses nothing (worker/main.go,   *)
(* the loop's error paths).                                                *)
StrandedAccounted ==
  Cardinality({t \in Tasks : Stranded(t)}) <= faults + crashes + terms

(* "hand the task back so another replica picks it up, instead of leaving  *)
(* it stuck processing" (worker/main.go, above Release): with no fault and *)
(* no crash, a worker that holds a task does not let go of it in a way     *)
(* that strands it.  The code breaks this when SIGTERM arrives after the   *)
(* work's sleep has ended and before Complete: the cancelled context       *)
(* refuses the call, and nothing hands the task back.                      *)
SigtermHandsBack ==
  [][\A t \in Tasks : (\E w \in Workers : Holds(w, t)) => ~Stranded(t)']_vars

(* A stranded task stays stranded: no late statement of an earlier holder  *)
(* brings it back, so recovery needs somebody outside the program.         *)
StrandedForever ==
  [][\A t \in Tasks : Stranded(t) => Stranded(t)']_vars

Finished == {t \in Tasks : status[t] \in {"done", "purged"}}

(* What a counter adds up to over the workers: a pair for every increment. *)
Increments(counter) == UNION {{w} \X (1 .. counter[w]) : w \in Workers}

(* The workers' counters never claim more completed tasks than the table   *)
(* holds, nor more errors than there were faults (worker/main.go: the      *)
(* counter is incremented after Complete returned without an error, a lost *)
(* reply is not counted, and being stopped is not an error).               *)
CountersHonest ==
  /\ Cardinality(Increments(processed)) <= Cardinality(Finished)
  /\ Cardinality(Increments(errors)) <= faults

-----------------------------------------------------------------------------
(* The refinement mapping to TaskLifecycle.                                *)

CompletePending(t) ==
  \/ \E w \in Workers : pc[w] = "complete" /\ task[w] = t
  \/ \E b \in Backends : /\ stmt[b].kind = "complete"
                         /\ stmt[b].phase = "sent" /\ stmt[b].task = t

StageOf(t) ==
  CASE status[t] # "processing" -> status[t]
    [] status[t] = "processing" /\ (\E w \in Workers : pc[w] = "working" /\ task[w] = t)
         -> "running"
    [] status[t] = "processing" /\ CompletePending(t) -> "worked"
    [] status[t] = "processing" /\ ReplyPending(t) -> "claimed"
    [] OTHER -> "dropped"

RunnerOf(t) ==
  IF \E w \in Workers : pc[w] = "working" /\ task[w] = t
  THEN CHOOSE w \in Workers : pc[w] = "working" /\ task[w] = t
  ELSE NoWorker

Lifecycle == INSTANCE TaskLifecycle
               WITH stage  <- [t \in Tasks |-> StageOf(t)],
                    runner <- [t \in Tasks |-> RunnerOf(t)]

(* The workers, the sessions and the table together implement the life of  *)
(* a task that TaskLifecycle describes: one run per claim; "done" only     *)
(* from a run that reached its end; back in the queue only once its run is *)
(* over.                                                                   *)
ImplementsLifecycle == Lifecycle!Spec
=============================================================================
