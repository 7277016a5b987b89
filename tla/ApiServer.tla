------------------------------ MODULE ApiServer ------------------------------
(***************************************************************************)
(* One API pod: cmd/api/main.go with the metrics registry of               *)
(* internal/metrics/metrics.go, a database that may stop answering, the    *)
(* Service's endpoints in front of it and the kubelet that stops it.       *)
(*                                                                         *)
(* Time passes only in Tick, and only when nothing is ready to run:        *)
(* goroutines are fast, deadlines are exact, waiting for the database is   *)
(* what takes time.  All durations are in ticks; the program's own are     *)
(* scaled down keeping their order.                                        *)
(***************************************************************************)
EXTENDS Integers, Sequences, FiniteSets

CONSTANTS
  Probes,         (* request slots the kubelet uses for GET /healthz        *)
  Readiness,      (* request slots for GET /readyz                          *)
  Scrapes,        (* request slots for GET /metrics                         *)
  Clients,        (* request slots for GET and POST /tasks                  *)
  GaugeTimeout,   (* the pending gauge's deadline: 1s                       *)
  PingTimeout,    (* /readyz's deadline: 1s                                 *)
  ProbeTimeout,   (* livenessProbe.timeoutSeconds: 2                        *)
  RouteDelay,     (* the Service stops routing to a terminating pod         *)
  ShutdownDelay,  (* SHUTDOWN_DELAY_SECONDS: 5                              *)
  DrainTimeout,   (* srv.Shutdown's deadline: 15s                           *)
  Grace           (* terminationGracePeriodSeconds: 30                      *)

ASSUME ApiAssumption ==
  /\ {GaugeTimeout, PingTimeout, ProbeTimeout, RouteDelay, ShutdownDelay,
      DrainTimeout, Grace} \subseteq Nat \ {0}
  /\ RouteDelay < ShutdownDelay
  /\ ShutdownDelay + DrainTimeout < Grace
  /\ IsFiniteSet(Scrapes)
  /\ Probes \cap (Readiness \cup Scrapes \cup Clients) = {}
  /\ Readiness \cap (Scrapes \cup Clients) = {} /\ Scrapes \cap Clients = {}

Requests == Probes \cup Readiness \cup Scrapes \cup Clients

VARIABLES
  main,       (* where the main goroutine is                                *)
  since,      (* ticks since SIGTERM                                        *)
  req,        (* what each request's goroutine is doing                     *)
  mu,         (* the registry's mutex: its holder first, then the waiters   *)
  db,         (* the database: answering, refusing, or silent               *)
  trouble,    (* the database has been silent since SIGTERM                 *)
  routed      (* the Service sends new connections here                     *)

vars == <<main, since, req, mu, db, trouble, routed>>

Mains == {"serving", "draining", "shutdown", "closing", "exited", "killed"}
Steps == {"idle",      (* the slot carries no request                       *)
          "handling",  (* accepted, the handler's first step is next        *)
          "body",      (* waiting for the client to send the body of a POST *)
          "query",     (* waiting for the database, not holding mu          *)
          "scrape",    (* waiting for mu to serve /metrics                  *)
          "gauge",     (* holding mu, waiting for the database              *)
          "created",   (* task inserted, waiting for mu in reg.Inc          *)
          "count"}     (* handler done, waiting for mu in reg.Inc           *)

Free == [step |-> "idle", age |-> 0, wait |-> 0, early |-> TRUE, ready |-> FALSE,
         late |-> FALSE]

(* Waiting is counted up to this: bounds every age and wait.               *)
Patience == GaugeTimeout + PingTimeout + ProbeTimeout

(* age: ticks since a probe's request was accepted; wait: ticks in the     *)
(* present database call, if it has a deadline; early: /readyz was asked   *)
(* before SIGTERM; ready: its answer, sent when the handler chain returns; *)
(* late: history, its body came only when the drain was at its deadline.   *)
Request == [step : Steps, age : 0 .. Patience, wait : 0 .. Patience,
            early : BOOLEAN, ready : BOOLEAN, late : BOOLEAN]

Dbs == {"up", "refusing", "silent"}

(* Every variable holds what the process can hold; a goroutine is in the   *)
(* mutex's queue exactly while it wants or has the mutex, and whoever      *)
(* waits for the gauge has it (metrics.go: Lock, defer Unlock).            *)
TypeOK ==
  /\ main \in Mains
  /\ since \in 0 .. Grace
  /\ req \in [Requests -> Request]
  /\ mu \in Seq(Requests)
  /\ db \in Dbs
  /\ trouble \in BOOLEAN /\ routed \in BOOLEAN
  /\ \A i, j \in DOMAIN mu : mu[i] = mu[j] => i = j
  /\ \A r \in Requests : req[r].step \in {"scrape", "gauge", "created", "count"}
                           <=> \E i \in DOMAIN mu : mu[i] = r
  /\ \A r \in Requests : req[r].step = "gauge" => mu[1] = r

Init ==
  /\ main = "serving" /\ since = 0
  /\ req = [r \in Requests |-> Free]
  /\ mu = <<>>
  /\ db = "up" /\ trouble = FALSE
  /\ routed = TRUE

-----------------------------------------------------------------------------
Running == main \notin {"exited", "killed"}
Listening == main \in {"serving", "draining"}
InFlight(r) == req[r].step # "idle"
Holder(r) == mu # <<>> /\ Head(mu) = r
Stopped == main # "serving"

(* The listener accepts a request.                                         *)
Accept(r) ==
  /\ Listening /\ ~InFlight(r)
  /\ routed \/ r \notin Clients
  /\ req' = [req EXCEPT ![r] = [Free EXCEPT !.step = "handling", !.early = r \in Readiness => ~Stopped]]
  /\ UNCHANGED <<main, since, mu, db, trouble, routed>>

(* Queue for the mutex: metrics.go, r.mu.Lock().                           *)
LockFor(r, what) ==
  /\ req' = [req EXCEPT ![r].step = what, ![r].wait = 0]
  /\ mu' = Append(mu, r)

(* GET /healthz answers at once; only countRequests is left.               *)
Healthz(r) ==
  /\ Running /\ r \in Probes /\ req[r].step = "handling"
  /\ LockFor(r, "count")
  /\ UNCHANGED <<main, since, db, trouble, routed>>

(* Mutant: /readyz does not look at draining.                              *)
ReadyzNotDraining(r) ==
  /\ Running /\ r \in Readiness /\ req[r].step = "handling"
  /\ req' = [req EXCEPT ![r].step = "query"]
  /\ UNCHANGED <<main, since, mu, db, trouble, routed>>

(* GET /readyz fails while draining, otherwise pings the database.         *)
Readyz(r) ==
  /\ Running /\ r \in Readiness /\ req[r].step = "handling"
  /\ IF Stopped
     THEN LockFor(r, "count")
     ELSE req' = [req EXCEPT ![r].step = "query"] /\ UNCHANGED mu
  /\ UNCHANGED <<main, since, db, trouble, routed>>

(* GET /metrics takes the mutex for the whole scrape.                      *)
Metrics(r) ==
  /\ Running /\ r \in Scrapes /\ req[r].step = "handling"
  /\ LockFor(r, "scrape")
  /\ UNCHANGED <<main, since, db, trouble, routed>>

(* GET and POST /tasks call the store with the request's own context: no   *)
(* deadline.  A body that does not parse is answered without the store; if *)
(* it is not there yet, Decode waits for it, without a deadline as well.   *)
Tasks(r) ==
  /\ Running /\ r \in Clients /\ req[r].step = "handling"
  /\ \/ \E to \in {"body", "query"} : req' = [req EXCEPT ![r].step = to] /\ UNCHANGED mu
     \/ LockFor(r, "count")
  /\ UNCHANGED <<main, since, db, trouble, routed>>

(* When Shutdown gives up waiting.                                         *)
DrainDeadline == ShutdownDelay + DrainTimeout

(* The client sends the body, at any time or never; it does not parse, or  *)
(* the client leaves, and the handler answers without the store.           *)
BodyRead(r) ==
  /\ Running /\ req[r].step = "body"
  /\ \E to \in {"query", "count"} :
       /\ req' = [req EXCEPT ![r].step = to, ![r].late = since >= DrainDeadline]
       /\ mu' = IF to = "query" THEN mu ELSE Append(mu, r)
  /\ UNCHANGED <<main, since, db, trouble, routed>>

(* The database answers or refuses; the handler writes its response, a     *)
(* POST that inserted a row after counting it.                             *)
QueryDone(r) ==
  /\ Running /\ req[r].step = "query" /\ db # "silent"
  /\ \E to \in {"created", "count"} :
       /\ to = "created" => r \in Clients /\ db = "up"
       /\ req' = [req EXCEPT ![r].step = to, ![r].wait = 0,
                             ![r].ready = r \in Readiness /\ db = "up"]
  /\ mu' = Append(mu, r)
  /\ UNCHANGED <<main, since, db, trouble, routed>>

(* /readyz gives up on a silent database; so does a client that leaves.    *)
QueryCancelled(r) ==
  /\ Running /\ req[r].step = "query"
  /\ \/ r \in Readiness /\ req[r].wait >= PingTimeout
     \/ r \in Clients
  /\ LockFor(r, "count")
  /\ UNCHANGED <<main, since, db, trouble, routed>>

(* ServeHTTP holds the mutex and calls the gauge's function.               *)
ScrapeStart(r) ==
  /\ Running /\ req[r].step = "scrape" /\ Holder(r)
  /\ req' = [req EXCEPT ![r].step = "gauge", ![r].wait = 0]
  /\ UNCHANGED <<main, since, mu, db, trouble, routed>>

(* Mutant: the gauge's function runs without its one-second context.       *)
GaugeOverOnReply(r) == req[r].step = "gauge" /\ db # "silent"

(* The gauge has a value, or gives up after a second and reports -1.       *)
GaugeOver(r) == /\ req[r].step = "gauge"
                /\ db # "silent" \/ req[r].wait >= GaugeTimeout

(* Mutant: ServeHTTP returns without the deferred Unlock.                  *)
ScrapeEndLocked(r) ==
  /\ Running /\ GaugeOver(r)
  /\ LockFor(r, "count")
  /\ UNCHANGED <<main, since, db, trouble, routed>>

(* The mutex is released and countRequests queues for it again.            *)
ScrapeEnd(r) ==
  /\ Running /\ GaugeOver(r)
  /\ req' = [req EXCEPT ![r].step = "count", ![r].wait = 0]
  /\ mu' = Append(Tail(mu), r)
  /\ UNCHANGED <<main, since, db, trouble, routed>>

(* reg.Inc(tasks_created) is done and countRequests queues for the mutex.  *)
Created(r) ==
  /\ Running /\ req[r].step = "created" /\ Holder(r)
  /\ req' = [req EXCEPT ![r].step = "count"]
  /\ mu' = Append(Tail(mu), r)
  /\ UNCHANGED <<main, since, db, trouble, routed>>

(* reg.Inc under the mutex; the handler chain returns and the response is  *)
(* flushed to the connection.                                              *)
Count(r) ==
  /\ Running /\ req[r].step = "count" /\ Holder(r)
  /\ mu' = Tail(mu)
  /\ req' = [req EXCEPT ![r] = Free]
  /\ UNCHANGED <<main, since, db, trouble, routed>>

-----------------------------------------------------------------------------
(* The main goroutine after <-ctx.Done().                                  *)

Sigterm ==
  /\ main = "serving"
  /\ main' = "draining"
  /\ trouble' = (db = "silent")
  /\ UNCHANGED <<since, req, mu, db, routed>>

(* Mutants: no delay at all; the delay taken in the wrong unit.            *)
DelayOverAtOnce == TRUE
DelayOverLate   == since >= 10 * ShutdownDelay

(* time.Sleep(delay) is over.                                              *)
DelayOver == since >= ShutdownDelay

(* srv.Shutdown closes the listener.                                       *)
Shutdown ==
  /\ main = "draining" /\ DelayOver
  /\ main' = "shutdown"
  /\ UNCHANGED <<since, req, mu, db, trouble, routed>>

Quiet == \A r \in Requests : ~InFlight(r)

(* Mutant: srv.Close instead of srv.Shutdown.                              *)
DrainOverAtOnce == TRUE

(* Shutdown returns when no connection is active, or at its deadline.      *)
DrainOver == Quiet \/ since >= DrainDeadline

Drained ==
  /\ main = "shutdown" /\ DrainOver
  /\ main' = "closing"
  /\ UNCHANGED <<since, req, mu, db, trouble, routed>>

(* The deferred db.Close() waits for every connection of the pool to be    *)
(* returned, and main returns.                                             *)
Close ==
  /\ main = "closing"
  /\ \A r \in Requests : req[r].step \notin {"query", "gauge"}
  /\ main' = "exited"
  /\ UNCHANGED <<since, req, mu, db, trouble, routed>>

(* The kubelet's patience ends.                                            *)
Kill ==
  /\ Running /\ since >= Grace
  /\ main' = "killed"
  /\ UNCHANGED <<since, req, mu, db, trouble, routed>>

-----------------------------------------------------------------------------
(* The environment.                                                        *)

(* The endpoints controller takes a terminating pod out of the Service.    *)
Unroute ==
  /\ Stopped /\ routed
  /\ routed' = FALSE
  /\ UNCHANGED <<main, since, req, mu, db, trouble>>

DbChanges ==
  /\ Running
  /\ db' \in Dbs \ {db}
  /\ trouble' = (trouble \/ (Stopped /\ db' = "silent"))
  /\ UNCHANGED <<main, since, req, mu, routed>>

Due(r) ==
  \/ req[r].step = "handling"
  \/ req[r].step = "query"
       /\ (db # "silent" \/ (r \in Readiness /\ req[r].wait >= PingTimeout))
  \/ GaugeOver(r)
  \/ req[r].step \in {"scrape", "created", "count"} /\ Holder(r)

MainDue ==
  \/ main = "draining" /\ DelayOver
  \/ main = "shutdown" /\ DrainOver
  \/ main = "closing" /\ \A r \in Requests : req[r].step \notin {"query", "gauge"}
  \/ since >= Grace
  \/ Stopped /\ routed /\ since >= RouteDelay

OneMore(n) == IF n < Patience THEN n + 1 ELSE n

Older(r) ==
  LET q == req[r]
  IN  [q EXCEPT
        !.age  = IF InFlight(r) /\ r \in Probes \cup Readiness THEN OneMore(@) ELSE @,
        !.wait = IF q.step = "gauge" \/ (q.step = "query" /\ r \in Readiness)
                 THEN OneMore(@) ELSE @]

Tick ==
  /\ Running /\ ~MainDue /\ \A r \in Requests : ~Due(r)
  /\ \E r \in Requests : InFlight(r) \/ Stopped
  /\ since' = IF Stopped THEN since + 1 ELSE since
  /\ req' = [r \in Requests |-> Older(r)]
  /\ UNCHANGED <<main, mu, db, trouble, routed>>

-----------------------------------------------------------------------------
Handler(r) == \/ Healthz(r) \/ Readyz(r) \/ Metrics(r) \/ Tasks(r)
              \/ BodyRead(r) \/ QueryDone(r) \/ QueryCancelled(r)
              \/ ScrapeStart(r) \/ ScrapeEnd(r) \/ Created(r) \/ Count(r)

Main == Shutdown \/ Drained \/ Close

Next == \/ \E r \in Requests : Accept(r) \/ Handler(r)
        \/ Main \/ Sigterm \/ Kill \/ Unroute \/ DbChanges \/ Tick

Spec == Init /\ [][Next]_vars

-----------------------------------------------------------------------------
(* Properties.                                                             *)

(* While the Service still sends clients here, the listener is open: the   *)
(* sleep between failing readiness and closing the listener covers the     *)
(* time the endpoints take to follow (api/main.go, "so load balancers and  *)
(* EndpointSlices stop routing new requests before we close listeners").   *)
NoRefusedClient == routed => Listening

(* A request accepted before the listener closed is answered before the    *)
(* process exits, whatever mix of requests, scrapes and probes is in       *)
(* flight and whenever bodies arrive, unless the database stopped          *)
(* answering during the shutdown or the request's own client had not sent  *)
(* its body by the drain's deadline (api/main.go, Shutdown with a          *)
(* 15-second deadline; the server has a ReadHeaderTimeout and no deadline  *)
(* for a body).                                                            *)
AcceptedIsAnswered ==
  main \in {"closing", "exited", "killed"} /\ ~trouble =>
    \A r \in Requests : InFlight(r) => req[r].step = "body" \/ req[r].late

(* The drain, the deadline and the pool's close fit into the grace period, *)
(* whatever clients do: only a silent database makes the kubelet kill the  *)
(* pod (api.yaml, terminationGracePeriodSeconds; db.Close waits for its    *)
(* connections).                                                           *)
KilledOnlyInTrouble == main = "killed" => trouble

(* "Fails while the database is unreachable and while shutting down"       *)
(* (api/main.go, /readyz): a request accepted after SIGTERM is never       *)
(* answered "ready", and one from before it is answered within the ping's  *)
(* and one scrape's deadline.                                              *)
ReadyzHonest ==
  \A r \in Readiness : req[r].ready =>
    req[r].early /\ req[r].age <= PingTimeout + GaugeTimeout * Cardinality(Scrapes)

(* A database outage does not make the kubelet restart the pod: with at    *)
(* most one scrape at a time, a liveness probe is answered before it times *)
(* out, although it waits for the mutex that the scrape holds while it     *)
(* waits for the database.                                                 *)
ProbeAnsweredInTime ==
  \A r \in Probes : Running /\ InFlight(r) => req[r].age < ProbeTimeout

(* "Liveness checks only the process, never the database" (api.yaml) and   *)
(* "It must NOT check the database" (api/main.go): an answered healthz     *)
(* request never waits for somebody who waits for the database.            *)
HealthzIgnoresDatabase ==
  \A p \in Probes, s \in Scrapes :
    ~(req[p].step = "count" /\ req[s].step = "gauge" /\ db = "silent")
=============================================================================
