---------------------------- MODULE ApiServerProofs ----------------------------
(***************************************************************************)
(* Proofs about ApiServer, for any number of requests of every kind and    *)
(* any durations in the order that ApiAssumption states.                   *)
(*                                                                         *)
(* As long as the database answers, somebody can always run: either a      *)
(* request is not waiting for the mutex, or the first in its queue is not  *)
(* waiting for anything else.  Time then stands still until every request  *)
(* is answered, so the drain ends at once and its deadline never comes.    *)
(***************************************************************************)
EXTENDS ApiServer, FiniteSetTheorems, TLAPS

Wanting == {"scrape", "gauge", "created", "count"}

Queued(q, r) == \E i \in DOMAIN q : q[i] = r
Distinct(q)  == \A i, j \in DOMAIN q : q[i] = q[j] => i = j

(* The parts of TypeOK.                                                    *)
Typed == /\ main \in Mains /\ since \in 0 .. Grace /\ req \in [Requests -> Request]
         /\ mu \in Seq(Requests) /\ db \in Dbs /\ trouble \in BOOLEAN /\ routed \in BOOLEAN

QueueInv == /\ Distinct(mu)
            /\ \A r \in Requests : req[r].step \in Wanting <=> Queued(mu, r)
            /\ \A r \in Requests : req[r].step = "gauge" => mu[1] = r

(* TypeOK is the types and the order of the queue.                         *)
LEMMA TypeParts == TypeOK <=> Typed /\ QueueInv
  BY DEF TypeOK, Typed, QueueInv, Distinct, Queued, Wanting

(* The same after a step.                                                  *)
LEMMA TypePartsNext == Typed' /\ QueueInv' => TypeOK'
  BY TypeParts, PTL

-----------------------------------------------------------------------------
(* The mutex's queue.                                                      *)
LEMMA Enqueued ==
  ASSUME NEW R, NEW q \in Seq(R), NEW r \in R, Distinct(q), ~Queued(q, r)
  PROVE  /\ Append(q, r) \in Seq(R) /\ Distinct(Append(q, r))
         /\ \A x : Queued(Append(q, r), x) <=> Queued(q, x) \/ x = r
         /\ \A x : Queued(q, x) => Append(q, r)[1] = q[1]
<1>1. /\ Len(q) \in Nat /\ DOMAIN q = 1 .. Len(q)
      /\ Append(q, r) \in Seq(R) /\ DOMAIN Append(q, r) = 1 .. Len(q) + 1
      /\ Append(q, r)[Len(q) + 1] = r
      /\ \A i \in 1 .. Len(q) : Append(q, r)[i] = q[i]
  OBVIOUS
<1> DEFINE p == Append(q, r)
<1> HIDE DEF p
<1>2. Distinct(p)
  BY <1>1 DEF Distinct, Queued, p
<1>3. \A x : Queued(p, x) <=> Queued(q, x) \/ x = r
  BY <1>1 DEF Queued, p
<1>4. \A x : Queued(q, x) => p[1] = q[1]
  BY <1>1 DEF Queued, p
<1> QED BY <1>1, <1>2, <1>3, <1>4 DEF p

(* Who is left when the head of the queue goes.                            *)
LEMMA Dequeued ==
  ASSUME NEW R, NEW q \in Seq(R), q # <<>>, Distinct(q)
  PROVE  /\ Tail(q) \in Seq(R) /\ Distinct(Tail(q)) /\ Head(q) = q[1] /\ Head(q) \in R
         /\ \A x : Queued(Tail(q), x) <=> Queued(q, x) /\ x # Head(q)
<1>1. /\ Len(q) \in Nat \ {0} /\ DOMAIN q = 1 .. Len(q)
      /\ Tail(q) \in Seq(R) /\ DOMAIN Tail(q) = 1 .. Len(q) - 1
      /\ \A i \in 1 .. Len(q) - 1 : Tail(q)[i] = q[i + 1]
      /\ Head(q) = q[1] /\ q[1] \in R
  OBVIOUS
<1> DEFINE p == Tail(q)
<1> HIDE DEF p
<1>2. Distinct(p)
  BY <1>1 DEF Distinct, p
<1>3. ASSUME NEW x, Queued(q, x), x # q[1] PROVE Queued(p, x)
  <2>1. PICK i \in 1 .. Len(q) : q[i] = x /\ i # 1
    BY <1>1, <1>3 DEF Queued
  <2>2. i - 1 \in 1 .. Len(q) - 1 /\ p[i - 1] = x
    BY <1>1, <2>1 DEF p
  <2> QED BY <1>1, <2>2 DEF Queued, p
<1>4. ASSUME NEW x, Queued(p, x) PROVE Queued(q, x) /\ x # q[1]
  BY <1>1, <1>4 DEF Queued, Distinct, p
<1> QED BY <1>1, <1>2, <1>3, <1>4 DEF p

(* A request queues for the mutex, stays where it is, hands the mutex on   *)
(* and queues again, or hands it on for good.                              *)
LEMMA QueueKept ==
  ASSUME Typed, QueueInv, NEW r \in Requests,
         \A x \in Requests : x # r => req'[x].step = req[x].step,
         \/ /\ req[r].step \notin Wanting /\ req'[r].step \in Wanting \ {"gauge"}
            /\ mu' = Append(mu, r)
         \/ /\ req[r].step \in Wanting <=> req'[r].step \in Wanting
            /\ req'[r].step = "gauge" => mu[1] = r
            /\ mu' = mu
         \/ /\ Queued(mu, r) /\ mu[1] = r /\ req'[r].step \in Wanting \ {"gauge"}
            /\ mu' = Append(Tail(mu), r)
         \/ /\ Queued(mu, r) /\ mu[1] = r /\ req'[r].step \notin Wanting
            /\ mu' = Tail(mu)
  PROVE  mu' \in Seq(Requests) /\ QueueInv'
<1>1. mu \in Seq(Requests) /\ Distinct(mu)
  BY DEF Typed, QueueInv
<1>2. CASE /\ req[r].step \notin Wanting /\ req'[r].step \in Wanting \ {"gauge"}
           /\ mu' = Append(mu, r)
  <2>1. ~Queued(mu, r)
    BY <1>2 DEF QueueInv
  <2>2. /\ mu' \in Seq(Requests) /\ Distinct(mu')
        /\ \A x : Queued(mu', x) <=> Queued(mu, x) \/ x = r
        /\ \A x : Queued(mu, x) => mu'[1] = mu[1]
    BY <1>1, <1>2, <2>1, Enqueued
  <2>3. \A x \in Requests : req'[x].step = "gauge" => mu'[1] = x
    BY <1>2, <2>2 DEF QueueInv, Wanting
  <2>4. \A x \in Requests : req'[x].step \in Wanting <=> Queued(mu', x)
    BY <1>2, <2>2 DEF QueueInv
  <2> QED BY <2>2, <2>3, <2>4 DEF QueueInv
<1>3. CASE /\ req[r].step \in Wanting <=> req'[r].step \in Wanting
           /\ req'[r].step = "gauge" => mu[1] = r
           /\ mu' = mu
  BY <1>1, <1>3 DEF QueueInv
<1>4. CASE /\ Queued(mu, r) /\ mu[1] = r /\ req'[r].step \in Wanting \ {"gauge"}
           /\ mu' = Append(Tail(mu), r)
  <2>1. mu # <<>>
    BY <1>4 DEF Queued
  <2>2. /\ Tail(mu) \in Seq(Requests) /\ Distinct(Tail(mu)) /\ ~Queued(Tail(mu), r)
        /\ \A x : Queued(Tail(mu), x) <=> Queued(mu, x) /\ x # r
    BY <1>1, <1>4, <2>1, Dequeued
  <2>3. /\ mu' \in Seq(Requests) /\ Distinct(mu')
        /\ \A x : Queued(mu', x) <=> Queued(mu, x) \/ x = r
    <3> DEFINE q == Tail(mu)
    <3>1. q \in Seq(Requests) /\ Distinct(q) /\ ~Queued(q, r) /\ mu' = Append(q, r)
      BY <1>4, <2>2
    <3> HIDE DEF q
    <3>2. /\ mu' \in Seq(Requests) /\ Distinct(mu')
          /\ \A x : Queued(mu', x) <=> Queued(q, x) \/ x = r
      BY <3>1, Enqueued
    <3> QED BY <1>4, <2>2, <3>2 DEF q
  <2>4. \A x \in Requests : req'[x].step # "gauge"
    BY <1>4 DEF QueueInv
  <2>5. \A x \in Requests : req'[x].step \in Wanting <=> Queued(mu', x)
    BY <1>4, <2>3 DEF QueueInv
  <2> QED BY <2>3, <2>4, <2>5 DEF QueueInv
<1>5. CASE /\ Queued(mu, r) /\ mu[1] = r /\ req'[r].step \notin Wanting
           /\ mu' = Tail(mu)
  <2>1. mu # <<>>
    BY <1>5 DEF Queued
  <2>2. /\ mu' \in Seq(Requests) /\ Distinct(mu')
        /\ \A x : Queued(mu', x) <=> Queued(mu, x) /\ x # r
    BY <1>1, <1>5, <2>1, Dequeued
  <2>3. \A x \in Requests : req'[x].step # "gauge"
    BY <1>5 DEF QueueInv, Wanting
  <2>4. \A x \in Requests : req'[x].step \in Wanting <=> Queued(mu', x)
    BY <1>5, <2>2 DEF QueueInv
  <2> QED BY <2>2, <2>3, <2>4 DEF QueueInv
<1> QED BY <1>2, <1>3, <1>4, <1>5

(* What a step of request r does to it, as far as types go.                *)
LEMMA RequestTyped ==
  ASSUME NEW q \in Request, NEW s \in Steps, NEW b \in BOOLEAN
  PROVE  /\ [q EXCEPT !.step = s] \in Request
         /\ [q EXCEPT !.step = s, !.wait = 0] \in Request
         /\ [q EXCEPT !.step = s, !.wait = 0, !.ready = b] \in Request
         /\ [q EXCEPT !.step = s, !.late = b] \in Request
         /\ [Free EXCEPT !.step = s, !.early = b] \in Request
<1>1. Patience \in Nat
  BY ApiAssumption DEF Patience
<1>2. 0 \in 0 .. Patience
  BY <1>1
<1>3. "idle" \in Steps
  BY DEF Steps
<1> QED BY <1>2, <1>3 DEF Request, Free

(* A slot without a request.                                               *)
LEMMA FreeTyped == Free \in Request
<1>1. 0 \in 0 .. Patience
  BY ApiAssumption DEF Patience
<1> QED BY <1>1 DEF Free, Request, Steps

(* A request that has waited one second more.                              *)
LEMMA OlderTyped ==
  ASSUME NEW r \in Requests, req[r] \in Request
  PROVE  Older(r) \in Request /\ Older(r).step = req[r].step
<1>1. Patience \in Nat
  BY ApiAssumption DEF Patience
<1>2. \A n \in 0 .. Patience : OneMore(n) \in 0 .. Patience
  BY <1>1 DEF OneMore
<1> QED BY <1>2 DEF Older, Request

(* The server starts with its types right and an empty queue.              *)
LEMMA TypeInit == Init => TypeOK
<1> SUFFICES ASSUME Init PROVE Typed /\ QueueInv
  BY TypeParts
<1>1. Grace \in Nat
  BY ApiAssumption
<1>2. Typed
  <2>1. since \in 0 .. Grace
    BY <1>1 DEF Init
  <2>2. req \in [Requests -> Request]
    BY FreeTyped DEF Init
  <2>3. mu \in Seq(Requests)
    BY DEF Init
  <2> QED BY <2>1, <2>2, <2>3 DEF Init, Typed, Mains, Dbs
<1>3. QueueInv
  BY DEF Init, QueueInv, Distinct, Queued, Free, Wanting
<1> QED BY <1>2, <1>3

(* The steps of request r keep it in its type and its queue in order.      *)
LEMMA HandlerTyped ==
  ASSUME TypeOK, NEW r \in Requests, Accept(r) \/ Handler(r)
  PROVE  TypeOK'
<1>0. Typed /\ QueueInv /\ req[r] \in Request
  BY TypeParts DEF Typed
<1>1. UNCHANGED <<main, since, db, trouble, routed>>
  BY DEF Accept, Handler, Healthz, Readyz, Metrics, Tasks, BodyRead, QueryDone, QueryCancelled,
         ScrapeStart, ScrapeEnd, Created, Count
<1>2. ASSUME NEW what \in {"scrape", "count"}, LockFor(r, what), req[r].step \in {"handling", "query"}
      PROVE  TypeOK'
  <2>1. [req[r] EXCEPT !.step = what, !.wait = 0] \in Request
    BY <1>0, RequestTyped DEF Steps
  <2>2. req' \in [Requests -> Request] /\ \A x \in Requests : x # r => req'[x].step = req[x].step
    BY <1>0, <1>2, <2>1 DEF LockFor, Typed
  <2>3. req'[r].step = what
    BY <1>0, <1>2 DEF LockFor, Typed, Request
  <2>4. mu' \in Seq(Requests) /\ QueueInv'
    BY <1>0, <1>2, <2>2, <2>3, QueueKept DEF LockFor, Wanting
  <2> QED BY <1>0, <1>1, <2>2, <2>4, TypePartsNext DEF Typed
<1>3. ASSUME NEW what \in {"body", "query", "handling"}, req[r].step \in {"handling", "idle", "body"},
             req'[r].step = what, mu' = mu,
             req' \in [Requests -> Request],
             \A x \in Requests : x # r => req'[x].step = req[x].step
      PROVE  TypeOK'
  <2>1. mu' \in Seq(Requests) /\ QueueInv'
    BY <1>0, <1>3, QueueKept DEF Wanting
  <2> QED BY <1>0, <1>1, <1>3, <2>1, TypePartsNext DEF Typed
<1>4. ASSUME NEW to \in {"body", "query"}, req' = [req EXCEPT ![r].step = to], mu' = mu,
             req[r].step = "handling"
      PROVE  TypeOK'
  <2>1. [req[r] EXCEPT !.step = to] \in Request
    BY <1>0, RequestTyped DEF Steps
  <2>2. req' \in [Requests -> Request] /\ req'[r].step = to
    BY <1>0, <1>4, <2>1 DEF Typed, Request
  <2>3. \A x \in Requests : x # r => req'[x].step = req[x].step
    BY <1>0, <1>4 DEF Typed
  <2> QED BY <1>3, <1>4, <2>2, <2>3
<1>5. CASE Accept(r)
  <2>1. \E b \in BOOLEAN : req' = [req EXCEPT ![r] = [Free EXCEPT !.step = "handling", !.early = b]]
    BY <1>5 DEF Accept, Stopped
  <2> PICK b \in BOOLEAN : req' = [req EXCEPT ![r] = [Free EXCEPT !.step = "handling", !.early = b]]
    BY <2>1
  <2>2. [Free EXCEPT !.step = "handling", !.early = b] \in Request
    BY <1>0, RequestTyped DEF Steps
  <2>3. [Free EXCEPT !.step = "handling", !.early = b].step = "handling"
    BY DEF Free
  <2>4. req' \in [Requests -> Request] /\ req'[r].step = "handling"
    BY <1>0, <2>2, <2>3 DEF Typed
  <2>5. \A x \in Requests : x # r => req'[x].step = req[x].step
    BY <1>0 DEF Typed
  <2> QED BY <1>3, <1>5, <2>4, <2>5 DEF Accept, InFlight
<1>6. CASE Healthz(r) \/ Readyz(r) \/ Metrics(r) \/ Tasks(r) \/ QueryCancelled(r)
  <2>1. CASE Tasks(r)
    <3>1. req[r].step = "handling"
      BY <2>1 DEF Tasks
    <3>2. LockFor(r, "count") \/ \E to \in {"body", "query"} :
                                  req' = [req EXCEPT ![r].step = to] /\ mu' = mu
      BY <2>1 DEF Tasks
    <3>3. CASE LockFor(r, "count")
      BY <1>2, <3>1, <3>3
    <3>4. CASE \E to \in {"body", "query"} : req' = [req EXCEPT ![r].step = to] /\ mu' = mu
      BY <1>4, <3>1, <3>4
    <3> QED BY <3>2, <3>3, <3>4
  <2> QED BY <1>2, <1>4, <1>6, <2>1 DEF Healthz, Readyz, Metrics, QueryCancelled
<1>7. CASE QueryDone(r)
  <2> PICK to \in {"created", "count"}, b \in BOOLEAN :
        req' = [req EXCEPT ![r].step = to, ![r].wait = 0, ![r].ready = b]
    BY <1>7 DEF QueryDone
  <2>1. [req[r] EXCEPT !.step = to, !.wait = 0, !.ready = b] \in Request
    BY <1>0, RequestTyped DEF Steps
  <2>2. req' \in [Requests -> Request] /\ \A x \in Requests : x # r => req'[x].step = req[x].step
    BY <1>0, <2>1 DEF Typed
  <2>3. req'[r].step = to
    BY <1>0 DEF Typed, Request
  <2>4. req[r].step = "query" /\ mu' = Append(mu, r)
    BY <1>7 DEF QueryDone
  <2>5. mu' \in Seq(Requests) /\ QueueInv'
    BY <1>0, <2>2, <2>3, <2>4, QueueKept DEF Wanting
  <2> QED BY <1>0, <1>1, <2>2, <2>5, TypePartsNext DEF Typed
<1>8. CASE ScrapeStart(r)
  <2>1. req' = [req EXCEPT ![r].step = "gauge", ![r].wait = 0] /\ mu' = mu
        /\ req[r].step = "scrape" /\ mu # <<>> /\ Head(mu) = r
    BY <1>8 DEF ScrapeStart, Holder
  <2>2. [req[r] EXCEPT !.step = "gauge", !.wait = 0] \in Request
    BY <1>0, RequestTyped DEF Steps
  <2>3. req' \in [Requests -> Request] /\ \A x \in Requests : x # r => req'[x].step = req[x].step
    BY <1>0, <2>1, <2>2 DEF Typed
  <2>4. req'[r].step = "gauge"
    BY <1>0, <2>1 DEF Typed, Request
  <2>5. mu[1] = r
    BY <1>0, <2>1 DEF Typed
  <2>6. mu' \in Seq(Requests) /\ QueueInv'
    BY <1>0, <2>1, <2>3, <2>4, <2>5, QueueKept DEF Wanting
  <2> QED BY <1>0, <1>1, <2>3, <2>6, TypePartsNext DEF Typed
<1>9. CASE ScrapeEnd(r) \/ Created(r)
  <2>1. Queued(mu, r) /\ mu[1] = r /\ mu' = Append(Tail(mu), r)
    <3>1. CASE ScrapeEnd(r)
      BY <1>0, <3>1 DEF ScrapeEnd, GaugeOver, QueueInv, Wanting
    <3>2. CASE Created(r)
      <4>1. Queued(mu, r) /\ mu # <<>> /\ Head(mu) = r /\ mu' = Append(Tail(mu), r)
        BY <1>0, <3>2 DEF Created, Holder, QueueInv, Wanting
      <4> QED BY <1>0, <4>1 DEF Typed
    <3> QED BY <1>9, <3>1, <3>2
  <2>2. [req[r] EXCEPT !.step = "count", !.wait = 0] \in Request
        /\ [req[r] EXCEPT !.step = "count"] \in Request
    BY <1>0, RequestTyped DEF Steps
  <2>3. req' \in [Requests -> Request] /\ \A x \in Requests : x # r => req'[x].step = req[x].step
    BY <1>0, <1>9, <2>2 DEF ScrapeEnd, Created, Typed
  <2>4. req'[r].step = "count"
    BY <1>0, <1>9 DEF ScrapeEnd, Created, Typed, Request
  <2>5. mu' \in Seq(Requests) /\ QueueInv'
    BY <1>0, <2>1, <2>3, <2>4, QueueKept DEF Wanting
  <2> QED BY <1>0, <1>1, <2>3, <2>5, TypePartsNext DEF Typed
<1>10. CASE Count(r)
  <2>1. Queued(mu, r) /\ mu # <<>> /\ Head(mu) = r /\ mu' = Tail(mu) /\ req' = [req EXCEPT ![r] = Free]
    BY <1>0, <1>10 DEF Count, Holder, QueueInv, Wanting
  <2>2. mu[1] = r
    BY <1>0, <2>1 DEF Typed
  <2>3. req' \in [Requests -> Request] /\ \A x \in Requests : x # r => req'[x].step = req[x].step
    BY <1>0, <2>1, FreeTyped DEF Typed
  <2>4. req'[r].step = "idle"
    BY <1>0, <2>1 DEF Typed, Free
  <2>5. mu' \in Seq(Requests) /\ QueueInv'
    BY <1>0, <2>1, <2>2, <2>3, <2>4, QueueKept DEF Wanting
  <2> QED BY <1>0, <1>1, <2>3, <2>5, TypePartsNext DEF Typed
<1>11. CASE BodyRead(r)
  <2> DEFINE b == since >= DrainDeadline
  <2>0. b \in BOOLEAN
    OBVIOUS
  <2>1. PICK to \in {"query", "count"} :
          /\ req' = [req EXCEPT ![r].step = to, ![r].late = b]
          /\ mu' = IF to = "query" THEN mu ELSE Append(mu, r)
    BY <1>11 DEF BodyRead
  <2> HIDE DEF b
  <2>2. [req[r] EXCEPT !.step = to, !.late = b] \in Request
    BY <1>0, <2>0, RequestTyped DEF Steps
  <2>3. req' \in [Requests -> Request] /\ \A x \in Requests : x # r => req'[x].step = req[x].step
    BY <1>0, <2>1, <2>2 DEF Typed
  <2>4. req'[r].step = to
    BY <1>0, <2>1 DEF Typed, Request
  <2>5. req[r].step = "body"
    BY <1>11 DEF BodyRead
  <2>6. CASE to = "query"
    BY <1>3, <2>1, <2>3, <2>4, <2>5, <2>6
  <2>7. CASE to = "count"
    <3>1. mu' \in Seq(Requests) /\ QueueInv'
      BY <1>0, <2>1, <2>3, <2>4, <2>5, <2>7, QueueKept DEF Wanting
    <3> QED BY <1>0, <1>1, <2>3, <3>1, TypePartsNext DEF Typed
  <2> QED BY <2>6, <2>7
<1> QED BY <1>5, <1>6, <1>7, <1>8, <1>9, <1>10, <1>11 DEF Handler

(* Every step keeps the types and the order of the queue.                  *)
LEMMA TypeNext == TypeOK /\ [Next]_vars => TypeOK'
<1> SUFFICES ASSUME TypeOK, [Next]_vars PROVE TypeOK'
  OBVIOUS
<1>0. Typed /\ QueueInv
  BY TypeParts
<1>1. CASE \E r \in Requests : Accept(r) \/ Handler(r)
  BY <1>1, HandlerTyped
<1>2. CASE Main \/ Sigterm \/ Kill \/ Unroute \/ DbChanges \/ UNCHANGED vars
  <2>1. req' = req /\ mu' = mu /\ since' = since
    BY <1>2 DEF Main, Shutdown, Drained, Close, Sigterm, Kill, Unroute, DbChanges, vars
  <2>2. main' \in Mains
    BY <1>0, <1>2 DEF Main, Shutdown, Drained, Close, Sigterm, Kill, Unroute, DbChanges, vars,
       Typed, Mains
  <2>3. db' \in Dbs
    BY <1>0, <1>2 DEF Main, Shutdown, Drained, Close, Sigterm, Kill, Unroute, DbChanges,
       vars, Typed
  <2>4. trouble' \in BOOLEAN /\ routed' \in BOOLEAN
    BY <1>0, <1>2 DEF Main, Shutdown, Drained, Close, Sigterm, Kill, Unroute, DbChanges,
       vars, Typed
  <2>5. QueueInv'
    BY <1>0, <2>1 DEF QueueInv
  <2> QED BY <1>0, <2>1, <2>2, <2>3, <2>4, <2>5, TypePartsNext DEF Typed
<1>3. CASE Tick
  <2>1. UNCHANGED <<main, mu, db, trouble, routed>>
    BY <1>3 DEF Tick
  <2>2. since' \in 0 .. Grace
    <3>1. since \in 0 .. Grace /\ Grace \in Nat /\ ~(since >= Grace)
      BY <1>0, <1>3, ApiAssumption DEF Tick, MainDue, Typed
    <3>2. since' = since + 1 \/ since' = since
      BY <1>3 DEF Tick
    <3> QED BY <3>1, <3>2
  <2>3. req' = [r \in Requests |-> Older(r)] /\ \A r \in Requests : req[r] \in Request
    BY <1>0, <1>3 DEF Tick, Typed
  <2>4. req' \in [Requests -> Request] /\ \A r \in Requests : req'[r].step = req[r].step
    BY <2>3, OlderTyped
  <2>5. QueueInv'
    BY <1>0, <2>1, <2>4 DEF QueueInv
  <2> QED BY <1>0, <2>1, <2>2, <2>4, <2>5, TypePartsNext DEF Typed
<1> QED BY <1>1, <1>2, <1>3 DEF Next

(* The types hold, and the mutex's queue is exactly who wants the mutex,   *)
(* each once, with whoever waits for the database under it at the head.    *)
THEOREM ApiTypeCorrect == Spec => []TypeOK
BY TypeInit, TypeNext, PTL DEF Spec

-----------------------------------------------------------------------------
(* When the database answers, a request in flight that does not wait for   *)
(* its client or the one at the head of the mutex's queue is due.          *)
LEMMA SomebodyDue ==
  ASSUME TypeOK, db # "silent", NEW r \in Requests, InFlight(r), req[r].step # "body"
  PROVE  \E x \in Requests : Due(x)
<1>0. Typed /\ QueueInv
  BY TypeParts
<1>1. req[r].step # "idle" /\ req[r].step # "body"
  BY DEF InFlight
<1>2. req[r].step \in Steps
  BY <1>0 DEF Typed, Request
<1>3. CASE req[r].step \in Wanting
  <2>1. mu # <<>> /\ mu \in Seq(Requests)
    BY <1>0, <1>3 DEF QueueInv, Queued, Typed
  <2>2. Head(mu) \in Requests /\ Holder(Head(mu)) /\ Queued(mu, Head(mu))
    BY <2>1 DEF Holder, Queued
  <2>3. req[Head(mu)].step \in Wanting
    BY <1>0, <2>2 DEF QueueInv
  <2> QED BY <2>2, <2>3 DEF Due, Wanting, GaugeOver
<1>4. CASE req[r].step \in {"handling", "query"}
  BY <1>4 DEF Due
<1> QED BY <1>1, <1>2, <1>3, <1>4 DEF Steps, Wanting

(* The request has been waiting for its client until the drain's deadline. *)
Held(r) == req[r].step = "body" \/ req[r].late
AllHeld == \A r \in Requests : InFlight(r) => Held(r)

(* How far time can have come at each point of the shutdown, and whom the  *)
(* end of the drain can find in flight.                                    *)
DrainInv ==
  /\ main = "serving" => since = 0
  /\ main = "draining" => since <= ShutdownDelay
  /\ main \in {"shutdown", "closing"} /\ ~trouble => since <= DrainDeadline
  /\ Running /\ Stopped /\ ~trouble => db # "silent"
  /\ main = "shutdown" /\ ~trouble /\ since >= DrainDeadline => AllHeld
  /\ main = "closing" /\ ~trouble => Quiet \/ since >= DrainDeadline
  /\ main \in {"closing", "exited"} /\ ~trouble => AllHeld
  /\ main = "killed" => trouble
  /\ routed => Listening /\ since <= RouteDelay

(* At the deadline a request whose client was late remains one, until it   *)
(* is answered.                                                            *)
LEMMA HeldKept ==
  ASSUME TypeOK, NEW r \in Requests, Handler(r), AllHeld, since >= DrainDeadline
  PROVE  AllHeld'
<1>0. req \in [Requests -> Request] /\ req[r] \in Request
  BY TypeParts DEF Typed
<1>1. InFlight(r)
  BY DEF Handler, Healthz, Readyz, Metrics, Tasks, BodyRead, QueryDone, QueryCancelled,
     ScrapeStart, ScrapeEnd, Created, Count, GaugeOver, InFlight
<1>2. ASSUME NEW q, req' = [req EXCEPT ![r] = q], q.late \/ q.step = "idle"
      PROVE  AllHeld'
  BY <1>0, <1>2 DEF AllHeld, Held, InFlight
<1>3. CASE BodyRead(r)
  <2>1. PICK to \in {"query", "count"} :
          req' = [req EXCEPT ![r] = [req[r] EXCEPT !.step = to, !.late = since >= DrainDeadline]]
    BY <1>3 DEF BodyRead
  <2>2. [req[r] EXCEPT !.step = to, !.late = since >= DrainDeadline].late
    BY <1>0 DEF Request
  <2> QED BY <1>2, <2>1, <2>2
<1>4. CASE Count(r)
  BY <1>2, <1>4 DEF Count, Free
<1>5. CASE ~BodyRead(r) /\ ~Count(r)
  <2>1. req[r].late
    <3>1. req[r].step # "body"
      BY <1>5 DEF Handler, Healthz, Readyz, Metrics, Tasks, QueryDone,
         QueryCancelled, ScrapeStart, ScrapeEnd, Created, GaugeOver
    <3> QED BY <1>1, <3>1 DEF AllHeld, Held
  <2>2. ASSUME NEW to, NEW b
        PROVE  /\ req' = [req EXCEPT ![r].step = to] => AllHeld'
               /\ req' = [req EXCEPT ![r].step = to, ![r].wait = 0] => AllHeld'
               /\ req' = [req EXCEPT ![r].step = to, ![r].wait = 0, ![r].ready = b] => AllHeld'
    <3>1. /\ [req[r] EXCEPT !.step = to].late = req[r].late
          /\ [req[r] EXCEPT !.step = to, !.wait = 0].late = req[r].late
          /\ [req[r] EXCEPT !.step = to, !.wait = 0, !.ready = b].late = req[r].late
      BY <1>0 DEF Request
    <3> QED BY <1>2, <2>1, <3>1
  <2>3. ASSUME NEW what, LockFor(r, what) PROVE AllHeld'
    BY <2>2, <2>3 DEF LockFor
  <2>4. CASE Healthz(r) \/ Readyz(r) \/ Metrics(r) \/ Tasks(r)
    BY <2>2, <2>3, <2>4 DEF Healthz, Readyz, Metrics, Tasks
  <2>5. CASE QueryDone(r)
    <3> DEFINE b == r \in Readiness /\ db = "up"
    <3>1. PICK to : req' = [req EXCEPT ![r].step = to, ![r].wait = 0, ![r].ready = b]
      BY <2>5 DEF QueryDone
    <3> QED BY <2>2, <3>1
  <2>6. CASE QueryCancelled(r) \/ ScrapeStart(r) \/ ScrapeEnd(r) \/ Created(r)
    BY <2>2, <2>3, <2>6 DEF QueryCancelled, ScrapeStart, ScrapeEnd, Created
  <2> QED BY <1>5, <2>4, <2>5, <2>6 DEF Handler
<1> QED BY <1>3, <1>4, <1>5

(* No request begins once the listener is closed.                          *)
LEMMA QuietKept ==
  ASSUME NEW r \in Requests, Handler(r)
  PROVE  ~Quiet
<1>1. InFlight(r)
  BY DEF Handler, Healthz, Readyz, Metrics, Tasks, BodyRead, QueryDone, QueryCancelled,
     ScrapeStart, ScrapeEnd, Created, Count, GaugeOver, InFlight
<1> QED BY <1>1 DEF Quiet

(* Every step keeps time within what the shutdown allows.                  *)
LEMMA DrainNext == TypeOK /\ DrainInv /\ [Next]_vars => DrainInv'
<1> SUFFICES ASSUME TypeOK, DrainInv, [Next]_vars PROVE DrainInv'
  OBVIOUS
<1>0. /\ since \in Nat /\ main \in Mains /\ trouble \in BOOLEAN /\ routed \in BOOLEAN
  BY TypeParts, ApiAssumption DEF Typed
<1>durations. /\ RouteDelay \in Nat \ {0} /\ ShutdownDelay \in Nat \ {0} /\ DrainDeadline \in Nat
      /\ Grace \in Nat /\ RouteDelay < ShutdownDelay /\ DrainDeadline < Grace
      /\ ShutdownDelay < DrainDeadline
  BY ApiAssumption DEF DrainDeadline
<1> DEFINE same == \A r \in Requests : req'[r].step = req[r].step /\ req'[r].late = req[r].late
<1>same. ASSUME same PROVE (Quiet' <=> Quiet) /\ (AllHeld' <=> AllHeld)
  BY <1>same DEF Quiet, AllHeld, Held, InFlight
<1>quiet. Quiet => AllHeld
  BY DEF Quiet, AllHeld
<1>1. ASSUME NEW r \in Requests, Accept(r) \/ Handler(r) PROVE DrainInv'
  <2>1. UNCHANGED <<main, since, db, trouble, routed>>
    BY <1>1 DEF Accept, Handler, Healthz, Readyz, Metrics, Tasks, BodyRead, QueryDone,
       QueryCancelled, ScrapeStart, ScrapeEnd, Created, Count
  <2>2. CASE Accept(r)
    <3>1. Listening
      BY <2>2 DEF Accept
    <3> QED BY <2>1, <3>1 DEF DrainInv, Running, Stopped, Listening
  <2>3. CASE Handler(r)
    <3>1. main # "exited" /\ main # "killed"
      BY <2>3 DEF Handler, Healthz, Readyz, Metrics, Tasks, BodyRead, QueryDone,
         QueryCancelled, ScrapeStart, ScrapeEnd, Created, Count, Running
    <3>2. main \in {"shutdown", "closing"} /\ ~trouble /\ since >= DrainDeadline => AllHeld'
      BY <2>3, HeldKept DEF DrainInv
    <3>3. main = "closing" /\ ~trouble => since >= DrainDeadline
      BY <2>3, QuietKept DEF DrainInv
    <3> QED BY <2>1, <3>1, <3>2, <3>3 DEF DrainInv, Running, Stopped, Listening
  <2> QED BY <1>1, <2>2, <2>3
<1>2. CASE Sigterm
  <2>1. main' = "draining" /\ since' = 0 /\ UNCHANGED <<db, routed>>
    BY <1>2 DEF Sigterm, DrainInv
  <2>2. ~trouble' => db' # "silent"
    BY <1>2 DEF Sigterm
  <2>3. 0 <= ShutdownDelay /\ 0 <= RouteDelay
    BY <1>durations
  <2> QED BY <2>1, <2>2, <2>3 DEF DrainInv, Running, Stopped, Listening
<1>3. CASE Shutdown
  <2>1. /\ main = "draining" /\ main' = "shutdown" /\ since >= ShutdownDelay
        /\ UNCHANGED <<since, db, trouble, routed>>
    BY <1>3 DEF Shutdown, DelayOver
  <2>2. since = ShutdownDelay
    BY <1>0, <1>durations, <2>1 DEF DrainInv
  <2>3. ~(since' >= DrainDeadline) /\ since' <= DrainDeadline /\ ~routed
    BY <1>0, <1>durations, <2>1, <2>2 DEF DrainInv
  <2> QED BY <2>1, <2>3 DEF DrainInv, Running, Stopped, Listening
<1>4. CASE Drained
  <2>1. Quiet \/ since >= DrainDeadline
    BY <1>4 DEF Drained, DrainOver
  <2>2. ~trouble => AllHeld
    BY <1>4, <1>quiet, <2>1 DEF Drained, DrainInv
  <2>3. main = "shutdown" /\ main' = "closing" /\ UNCHANGED <<since, req, db, trouble, routed>>
    BY <1>4 DEF Drained
  <2> QED BY <1>same, <2>1, <2>2, <2>3 DEF DrainInv, Running, Stopped, Listening
<1>5. CASE Close
  <2>1. main = "closing" /\ main' = "exited" /\ UNCHANGED <<since, req, db, trouble, routed>>
    BY <1>5 DEF Close
  <2> QED BY <1>same, <2>1 DEF DrainInv, Running, Stopped, Listening
<1>6. CASE Kill
  <2>1. since >= Grace /\ Running /\ main' = "killed" /\ UNCHANGED <<since, trouble, routed>>
    BY <1>6 DEF Kill
  <2>2. trouble
    BY <1>0, <1>durations, <2>1 DEF DrainInv, Running, Mains
  <2>3. ~routed
    BY <1>0, <1>durations, <2>1 DEF DrainInv
  <2> QED BY <2>1, <2>2, <2>3 DEF DrainInv, Running, Stopped, Listening
<1>7. CASE Unroute
  <2>1. routed' = FALSE /\ UNCHANGED <<main, since, req, db, trouble>>
    BY <1>7 DEF Unroute
  <2> QED BY <1>same, <2>1 DEF DrainInv, Running, Stopped, Listening
<1>8. CASE DbChanges
  <2>1. Running /\ UNCHANGED <<main, since, req, routed>>
        /\ trouble' = (trouble \/ (Stopped /\ db' = "silent"))
    BY <1>8 DEF DbChanges
  <2> QED BY <1>0, <1>same, <2>1 DEF DrainInv, Running, Stopped, Listening
<1>9. CASE Tick
  <2>1. /\ UNCHANGED <<main, mu, db, trouble, routed>> /\ ~MainDue /\ Running
        /\ \A r \in Requests : ~Due(r)
        /\ since' = IF Stopped THEN since + 1 ELSE since
    BY <1>9 DEF Tick
  <2>2. Stopped /\ ~trouble => \A r \in Requests : InFlight(r) => req[r].step = "body"
    BY <2>1, SomebodyDue DEF DrainInv
  <2>3. main = "closing" => trouble
    BY <2>1, <2>2 DEF MainDue, InFlight, Stopped
  <2>4. ASSUME main = "shutdown", ~trouble
        PROVE  since' <= DrainDeadline /\ AllHeld'
    <3>1. ~(since >= DrainDeadline) /\ since' = since + 1
      BY <2>1, <2>4 DEF MainDue, DrainOver, Stopped
    <3>2. \A r \in Requests : req'[r].step = req[r].step
      BY <1>9, OlderTyped, TypeParts DEF Tick, Typed
    <3>3. AllHeld'
      BY <2>2, <2>4, <3>2 DEF AllHeld, Held, InFlight, Stopped
    <3> QED BY <1>0, <1>durations, <3>1, <3>3
  <2>5. main = "draining" => since' <= ShutdownDelay
    BY <1>0, <1>durations, <2>1 DEF MainDue, DelayOver, Stopped
  <2>6. routed => since' <= RouteDelay
    BY <1>0, <1>durations, <2>1 DEF MainDue, DrainInv, Stopped
  <2>7. main # "exited" /\ main # "killed"
    BY <2>1 DEF Running
  <2> QED BY <2>1, <2>3, <2>4, <2>5, <2>6, <2>7 DEF DrainInv, Running, Stopped, Listening
<1>10. CASE UNCHANGED vars
  BY <1>10, <1>same DEF vars, DrainInv, Running, Stopped, Listening
<1> QED BY <1>1, <1>2, <1>3, <1>4, <1>5, <1>6, <1>7, <1>8, <1>9, <1>10 DEF Next, Main

(* The bounds on time hold throughout.                                     *)
LEMMA Drains == Spec => []DrainInv
<1>1. Init => DrainInv
  BY ApiAssumption DEF Init, DrainInv, Stopped, Listening
<1> QED BY <1>1, DrainNext, ApiTypeCorrect, PTL DEF Spec

(* Clients are never sent to a pod whose listener is closed.               *)
THEOREM NoRefusedClientHolds == Spec => []NoRefusedClient
<1>1. DrainInv => NoRefusedClient
  BY DEF DrainInv, NoRefusedClient
<1> QED BY <1>1, Drains, PTL

(* The process ends with every accepted request answered, unless the       *)
(* database went silent during the shutdown.                               *)
THEOREM AcceptedIsAnsweredHolds == Spec => []AcceptedIsAnswered
<1>1. DrainInv => AcceptedIsAnswered
  BY DEF DrainInv, AllHeld, Held, AcceptedIsAnswered
<1> QED BY <1>1, Drains, PTL

(* Only a database that went silent makes the kubelet kill the pod.        *)
THEOREM KilledOnlyInTroubleHolds == Spec => []KilledOnlyInTrouble
<1>1. DrainInv => KilledOnlyInTrouble
  BY DEF DrainInv, KilledOnlyInTrouble
<1> QED BY <1>1, Drains, PTL
-----------------------------------------------------------------------------
(* How long a probe waits.  A request that wants the mutex waits for the   *)
(* scrapes before it in the queue, each at most the gauge's deadline, and  *)
(* a scrape that is done queues behind it.                                 *)

Before(q, s, r) == \E i, j \in DOMAIN q : i < j /\ q[i] = s /\ q[j] = r

(* The scrapes that r still waits for.                                     *)
Ahead(r) == {s \in Scrapes : req[s].step \in {"scrape", "gauge"} /\ Before(mu, s, r)}

(* How long the scrape that has the mutex has waited for the database.     *)
HeadWait == IF mu # <<>> /\ req[mu[1]].step = "gauge" THEN req[mu[1]].wait ELSE 0

(* What a request can have waited before it wants the mutex.               *)
Earlier(r) == IF r \in Readiness THEN PingTimeout ELSE 0

(* With k scrapes of those before r done, r has waited for at most k       *)
(* deadlines and for what the present scrape has taken.                    *)
Spent(r, k) == /\ k + Cardinality(Ahead(r)) <= Cardinality(Scrapes)
               /\ req[r].age <= Earlier(r) + GaugeTimeout * k + HeadWait
Waited(r) == \E k \in Nat : Spent(r, k)

(* Which steps a request of each kind takes, and its age at each of them.  *)
KindInv ==
  /\ \A r \in Requests : req[r].step \in {"scrape", "gauge"} => r \in Scrapes
  /\ \A r \in Requests : req[r].step = "created" => r \in Clients
  /\ \A r \in Requests : req[r].step = "query" => r \in Readiness \cup Clients
  /\ \A r \in Requests : req[r].step = "body" => r \in Clients
  /\ \A r \in Requests : req[r].step = "gauge" => req[r].wait <= GaugeTimeout

AgeInv ==
  \A r \in Probes \cup Readiness :
    /\ req[r].step \in {"idle", "handling"} => req[r].age = 0 /\ req[r].wait = 0
    /\ req[r].step = "query" => req[r].age <= req[r].wait /\ req[r].wait <= PingTimeout
    /\ req[r].step = "count" => Waited(r)

(* A request that may be answered "ready" came before SIGTERM.             *)
EarlyInv ==
  \A r \in Readiness :
    /\ req[r].step = "query" => req[r].early
    /\ req[r].step = "handling" /\ ~Stopped => req[r].early
    /\ req[r].ready => req[r].early /\ req[r].step = "count"

WaitInv == KindInv /\ AgeInv /\ EarlyInv

(* What the assumption says of the durations and of the kinds of requests. *)
LEMMA Durations ==
  /\ GaugeTimeout \in Nat \ {0} /\ PingTimeout \in Nat \ {0} /\ ProbeTimeout \in Nat \ {0}
  /\ Patience \in Nat /\ Patience >= PingTimeout /\ Patience >= GaugeTimeout
  /\ \A n \in 0 .. Patience : OneMore(n) \in 0 .. Patience /\ OneMore(n) <= n + 1 /\ n <= OneMore(n)
<1>1. /\ GaugeTimeout \in Nat \ {0} /\ PingTimeout \in Nat \ {0} /\ ProbeTimeout \in Nat \ {0}
  BY ApiAssumption
<1>2. /\ Patience \in Nat /\ Patience >= PingTimeout /\ Patience >= GaugeTimeout
  BY <1>1 DEF Patience
<1> QED BY <1>1, <1>2 DEF OneMore

(* A request is of one kind.                                               *)
LEMMA Kinds ==
  /\ \A r \in Probes : r \notin Readiness /\ r \notin Scrapes /\ r \notin Clients
  /\ \A r \in Readiness : r \notin Probes /\ r \notin Scrapes /\ r \notin Clients
  /\ \A r \in Scrapes : r \notin Clients
  BY ApiAssumption

(* Joining the queue puts a request before nobody.                         *)
LEMMA BeforeAppend ==
  ASSUME NEW q \in Seq(Requests), NEW x \in Requests, NEW s, NEW r, r # x,
         Before(Append(q, x), s, r)
  PROVE  Before(q, s, r)
<1>1. /\ Len(q) \in Nat /\ DOMAIN q = 1 .. Len(q) /\ DOMAIN Append(q, x) = 1 .. Len(q) + 1
      /\ Append(q, x)[Len(q) + 1] = x /\ \A i \in 1 .. Len(q) : Append(q, x)[i] = q[i]
  OBVIOUS
<1>2. PICK i, j \in 1 .. Len(q) + 1 : i < j /\ Append(q, x)[i] = s /\ Append(q, x)[j] = r
  BY <1>1 DEF Before
<1>3. i \in 1 .. Len(q) /\ j \in 1 .. Len(q)
  BY <1>1, <1>2
<1> QED BY <1>1, <1>2, <1>3 DEF Before

(* Who is before another when the head has gone was so with the head.      *)
LEMMA BeforeTail ==
  ASSUME NEW q \in Seq(Requests), q # <<>>, NEW s, NEW r, Before(Tail(q), s, r)
  PROVE  Before(q, s, r)
<1>1. /\ Len(q) \in Nat \ {0} /\ DOMAIN q = 1 .. Len(q) /\ DOMAIN Tail(q) = 1 .. Len(q) - 1
      /\ \A i \in 1 .. Len(q) - 1 : Tail(q)[i] = q[i + 1]
  OBVIOUS
<1>2. PICK i, j \in 1 .. Len(q) - 1 : i < j /\ Tail(q)[i] = s /\ Tail(q)[j] = r
  BY <1>1 DEF Before
<1>3. i + 1 \in 1 .. Len(q) /\ j + 1 \in 1 .. Len(q) /\ i + 1 < j + 1
      /\ q[i + 1] = s /\ q[j + 1] = r
  BY <1>1, <1>2
<1> QED BY <1>1, <1>3 DEF Before

(* The scrapes that somebody waits for are no more than there are scrapes. *)
Countable(r) == /\ IsFiniteSet(Scrapes) /\ Cardinality(Scrapes) \in Nat
                /\ IsFiniteSet(Ahead(r)) /\ Cardinality(Ahead(r)) \in Nat
                /\ Cardinality(Ahead(r)) <= Cardinality(Scrapes)

(* They are finitely many, before and after a step.                        *)
LEMMA AheadFinite == \A r \in Requests : Countable(r) /\ Countable(r)'
<1> SUFFICES ASSUME NEW r PROVE Countable(r) /\ Countable(r)'
  OBVIOUS
<1>1. IsFiniteSet(Scrapes)
  BY ApiAssumption
<1>2. ASSUME NEW S \in SUBSET Scrapes
      PROVE  IsFiniteSet(S) /\ Cardinality(S) \in Nat /\ Cardinality(S) <= Cardinality(Scrapes)
  <2>1. IsFiniteSet(S) /\ Cardinality(S) <= Cardinality(Scrapes)
    BY <1>1, FS_Subset
  <2> QED BY <2>1, FS_CardinalityType
<1>3. Ahead(r) \in SUBSET Scrapes /\ Ahead(r)' \in SUBSET Scrapes
  BY DEF Ahead
<1>4. Cardinality(Scrapes) \in Nat
  BY <1>1, FS_CardinalityType
<1> QED BY <1>1, <1>2, <1>3, <1>4 DEF Countable

(* The head has waited for some time, and for none unless it is a scrape   *)
(* that waits for the database.                                            *)
LEMMA HeadWaitType == TypeOK => HeadWait \in Nat
<1> SUFFICES ASSUME TypeOK PROVE HeadWait \in Nat
  OBVIOUS
<1>1. Typed
  BY TypeParts
<1>2. CASE mu # <<>> /\ req[mu[1]].step = "gauge"
  <2>1. mu[1] \in Requests
    BY <1>1, <1>2 DEF Typed
  <2>2. req[mu[1]].wait \in 0 .. Patience
    BY <1>1, <2>1 DEF Typed, Request
  <2> QED BY <1>2, <2>2, Durations DEF HeadWait
<1>3. CASE ~(mu # <<>> /\ req[mu[1]].step = "gauge")
  BY <1>3 DEF HeadWait
<1> QED BY <1>2, <1>3

(* The same after a step.                                                  *)
LEMMA HeadWaitNext == TypeOK' => (HeadWait \in Nat)'
  BY HeadWaitType, PTL

(* A request that has just come to want the mutex.                         *)
LEMMA JustQueued ==
  ASSUME TypeOK', NEW r \in Requests, req'[r].age \in Nat, req'[r].age <= Earlier(r)
  PROVE  Waited(r)'
<1>1. HeadWait' \in Nat
  BY HeadWaitType, HeadWaitNext
<1>2. Cardinality(Ahead(r)') \in Nat /\ Cardinality(Ahead(r)') <= Cardinality(Scrapes)
  BY AheadFinite DEF Countable
<1>3. Earlier(r) \in Nat
  BY Durations DEF Earlier
<1>4. Spent(r, 0)'
  BY <1>1, <1>2, <1>3, Durations DEF Spent, Earlier
<1> QED BY <1>4 DEF Waited

(* A step after which r waits for no more scrapes, and the head has not    *)
(* begun anew.                                                             *)
LEMMA StillQueued ==
  ASSUME TypeOK, TypeOK', NEW r \in Requests, Waited(r), Ahead(r)' \subseteq Ahead(r),
         req'[r].age - req[r].age <= HeadWait' - HeadWait
  PROVE  Waited(r)'
<1>1. HeadWait' \in Nat /\ HeadWait \in Nat
  BY HeadWaitType, HeadWaitNext
<1>2. PICK k \in Nat : Spent(r, k)
  BY DEF Waited
<1>3. /\ IsFiniteSet(Ahead(r)) /\ Cardinality(Ahead(r)) \in Nat /\ Cardinality(Scrapes) \in Nat
      /\ Cardinality(Ahead(r)') \in Nat
  BY AheadFinite DEF Countable
<1>4. Cardinality(Ahead(r)') <= Cardinality(Ahead(r))
  BY <1>3, FS_Subset
<1>5. Earlier(r) \in Nat /\ GaugeTimeout * k \in Nat
  BY Durations DEF Earlier
<1>6. req[r].age \in Nat /\ req'[r].age \in Nat
  <2>1. req[r] \in Request /\ req'[r] \in Request
    BY DEF TypeOK
  <2> QED BY <2>1, Durations DEF Request
<1>7. Earlier(r)' = Earlier(r)
  BY DEF Earlier
<1>8. k + Cardinality(Ahead(r)') <= Cardinality(Scrapes)
  BY <1>2, <1>3, <1>4 DEF Spent
<1>9. req'[r].age <= Earlier(r) + GaugeTimeout * k + HeadWait'
  <2>1. req[r].age <= Earlier(r) + GaugeTimeout * k + HeadWait
    BY <1>2 DEF Spent
  <2> HIDE DEF HeadWait
  <2> DEFINE a == req[r].age  b == req'[r].age  h == HeadWait  g == HeadWait'  e == Earlier(r) + GaugeTimeout * k
  <2>2. a \in Nat /\ b \in Nat /\ h \in Nat /\ g \in Nat /\ e \in Nat /\ a <= e + h /\ b - a <= g - h
    BY <1>1, <1>5, <1>6, <2>1
  <2>3. b <= e + g
    <3> HIDE DEF a, b, h, g, e
    <3> QED BY <2>2
  <2> QED BY <2>3
<1>10. Spent(r, k)'
  BY <1>7, <1>8, <1>9 DEF Spent
<1> QED BY <1>10 DEF Waited

(* The scrape that r waited for is done: one deadline is spent at most.    *)
LEMMA ScrapeSpent ==
  ASSUME TypeOK, TypeOK', NEW r \in Requests, Waited(r), NEW x \in Ahead(r),
         Ahead(r)' \subseteq Ahead(r) \ {x}, HeadWait <= GaugeTimeout, req'[r].age = req[r].age
  PROVE  Waited(r)'
<1>1. HeadWait' \in Nat /\ HeadWait \in Nat
  BY HeadWaitType, HeadWaitNext
<1>2. PICK k \in Nat : Spent(r, k)
  BY DEF Waited
<1>3. /\ IsFiniteSet(Ahead(r)) /\ Cardinality(Ahead(r)) \in Nat /\ Cardinality(Scrapes) \in Nat
      /\ Cardinality(Ahead(r)') \in Nat
  BY AheadFinite DEF Countable
<1>4. Cardinality(Ahead(r)') <= Cardinality(Ahead(r)) - 1
  <2>1. IsFiniteSet(Ahead(r) \ {x}) /\ Cardinality(Ahead(r) \ {x}) = Cardinality(Ahead(r)) - 1
    BY <1>3, FS_RemoveElement
  <2>2. Cardinality(Ahead(r)') <= Cardinality(Ahead(r) \ {x})
    BY <2>1, FS_Subset
  <2> QED BY <2>1, <2>2
<1>5. Earlier(r) \in Nat /\ GaugeTimeout * k \in Nat /\ GaugeTimeout \in Nat
      /\ GaugeTimeout * (k + 1) = GaugeTimeout * k + GaugeTimeout
  BY Durations DEF Earlier
<1>6. req[r].age \in Nat
  <2>1. req[r] \in Request
    BY DEF TypeOK
  <2> QED BY <2>1, Durations DEF Request
<1>7. (k + 1) + Cardinality(Ahead(r)') <= Cardinality(Scrapes)
  BY <1>2, <1>3, <1>4 DEF Spent
<1>8. req'[r].age <= Earlier(r) + GaugeTimeout * (k + 1) + HeadWait'
  <2>1. req[r].age <= Earlier(r) + GaugeTimeout * k + HeadWait
    BY <1>2 DEF Spent
  <2> DEFINE a == req[r].age  h == HeadWait  g == HeadWait'  e == Earlier(r)  m == GaugeTimeout * k
             n == GaugeTimeout * (k + 1)
  <2>2. a \in Nat /\ h \in Nat /\ g \in Nat /\ e \in Nat /\ m \in Nat /\ n = m + GaugeTimeout
        /\ a <= e + m + h /\ h <= GaugeTimeout /\ GaugeTimeout \in Nat
    BY <1>1, <1>5, <1>6, <2>1
  <2>3. a <= e + n + g
    <3> HIDE DEF a, h, g, e, m, n
    <3> QED BY <2>2
  <2> QED BY <2>3
<1>9. Spent(r, k + 1)'
  BY <1>7, <1>8 DEF Spent, Earlier
<1> QED BY <1>9 DEF Waited
(* What the step of request x does to the queue.                           *)
Joins(x)  == /\ req[x].step \notin Wanting /\ req'[x].step \in {"scrape", "created", "count"}
             /\ mu' = Append(mu, x)
Stays(x)  == /\ req[x].step \notin Wanting /\ req'[x].step \notin Wanting /\ mu' = mu
Begins(x) == /\ req[x].step = "scrape" /\ mu # <<>> /\ Head(mu) = x
             /\ req'[x].step = "gauge" /\ req'[x].wait = 0 /\ mu' = mu
Ends(x)   == /\ req[x].step = "gauge" /\ req'[x].step = "count" /\ mu' = Append(Tail(mu), x)
Rejoins(x) == /\ req[x].step = "created" /\ mu # <<>> /\ Head(mu) = x
              /\ req'[x].step = "count" /\ mu' = Append(Tail(mu), x)
Leaves(x) == /\ req[x].step = "count" /\ mu # <<>> /\ Head(mu) = x
             /\ req'[x].step = "idle" /\ mu' = Tail(mu)
Alone(x)  == \A y \in Requests : y # x => req'[y] = req[y]

(* A step of a request is one of these, and moves no other.                *)
LEMMA Moves ==
  ASSUME TypeOK, NEW x \in Requests, Accept(x) \/ Handler(x)
  PROVE  /\ Joins(x) \/ Stays(x) \/ Begins(x) \/ Ends(x) \/ Rejoins(x) \/ Leaves(x)
         /\ Alone(x) /\ UNCHANGED main
<1>0. Typed /\ req[x] \in Request /\ req \in [Requests -> Request]
  BY TypeParts DEF Typed
<1>1. UNCHANGED main
  BY DEF Accept, Handler, Healthz, Readyz, Metrics, Tasks, BodyRead, QueryDone, QueryCancelled,
         ScrapeStart, ScrapeEnd, Created, Count
<1>a. ASSUME NEW q, req' = [req EXCEPT ![x] = q] PROVE Alone(x) /\ req'[x] = q
  BY <1>0, <1>a DEF Alone
<1>b. ASSUME NEW what, LockFor(x, what)
      PROVE  Alone(x) /\ req'[x].step = what /\ req'[x].wait = 0 /\ mu' = Append(mu, x)
  <2>1. req' = [req EXCEPT ![x] = [req[x] EXCEPT !.step = what, !.wait = 0]]
    BY <1>b DEF LockFor
  <2>2. [req[x] EXCEPT !.step = what, !.wait = 0].step = what
        /\ [req[x] EXCEPT !.step = what, !.wait = 0].wait = 0
    BY <1>0 DEF Request
  <2> QED BY <1>a, <1>b, <2>1, <2>2 DEF LockFor
<1>c. ASSUME NEW what, req' = [req EXCEPT ![x].step = what]
      PROVE  Alone(x) /\ req'[x].step = what
  <2>1. req' = [req EXCEPT ![x] = [req[x] EXCEPT !.step = what]]
    BY <1>c
  <2>2. [req[x] EXCEPT !.step = what].step = what
    BY <1>0 DEF Request
  <2> QED BY <1>a, <2>1, <2>2
<1>2. CASE Accept(x)
  <2>1. PICK b : req' = [req EXCEPT ![x] = [Free EXCEPT !.step = "handling", !.early = b]]
    BY <1>2 DEF Accept
  <2>2. [Free EXCEPT !.step = "handling", !.early = b].step = "handling"
    BY DEF Free
  <2>3. Alone(x) /\ req'[x].step = "handling"
    BY <1>a, <2>1, <2>2
  <2> QED BY <1>1, <1>2, <2>3 DEF Accept, Stays, Wanting, InFlight
<1>3. CASE Healthz(x) \/ Readyz(x) \/ Metrics(x) \/ Tasks(x) \/ QueryCancelled(x)
  <2>1. req[x].step \in {"handling", "query"}
    BY <1>3 DEF Healthz, Readyz, Metrics, Tasks, QueryCancelled
  <2>2. \/ LockFor(x, "count") \/ LockFor(x, "scrape")
        \/ \E to \in {"body", "query"} : req' = [req EXCEPT ![x].step = to] /\ mu' = mu
    BY <1>3 DEF Healthz, Readyz, Metrics, Tasks, QueryCancelled
  <2>3. CASE LockFor(x, "count") \/ LockFor(x, "scrape")
    BY <1>1, <1>b, <2>1, <2>3 DEF Joins, Wanting
  <2>4. CASE \E to \in {"body", "query"} : req' = [req EXCEPT ![x].step = to] /\ mu' = mu
    BY <1>1, <1>c, <2>1, <2>4 DEF Stays, Wanting
  <2> QED BY <2>2, <2>3, <2>4
<1>4. CASE QueryDone(x)
  <2> DEFINE b == x \in Readiness /\ db = "up"
  <2>0. PICK to \in {"created", "count"} :
          req' = [req EXCEPT ![x].step = to, ![x].wait = 0, ![x].ready = b]
    BY <1>4 DEF QueryDone
  <2> HIDE DEF b
  <2>1. req' = [req EXCEPT ![x] = [req[x] EXCEPT !.step = to, !.wait = 0, !.ready = b]]
    BY <2>0
  <2>2. [req[x] EXCEPT !.step = to, !.wait = 0, !.ready = b].step = to
    BY <1>0 DEF Request
  <2>3. Alone(x) /\ req'[x].step = to
    BY <1>a, <2>1, <2>2
  <2> QED BY <1>1, <1>4, <2>3 DEF QueryDone, Joins, Wanting
<1>5. CASE ScrapeStart(x)
  <2>1. req' = [req EXCEPT ![x] = [req[x] EXCEPT !.step = "gauge", !.wait = 0]]
    BY <1>5 DEF ScrapeStart
  <2>2. [req[x] EXCEPT !.step = "gauge", !.wait = 0].step = "gauge"
        /\ [req[x] EXCEPT !.step = "gauge", !.wait = 0].wait = 0
    BY <1>0 DEF Request
  <2>3. Alone(x) /\ req'[x].step = "gauge" /\ req'[x].wait = 0
    BY <1>a, <2>1, <2>2
  <2> QED BY <1>1, <1>5, <2>3 DEF ScrapeStart, Holder, Begins
<1>6. CASE ScrapeEnd(x)
  <2>1. req' = [req EXCEPT ![x] = [req[x] EXCEPT !.step = "count", !.wait = 0]]
    BY <1>6 DEF ScrapeEnd
  <2>2. [req[x] EXCEPT !.step = "count", !.wait = 0].step = "count"
    BY <1>0 DEF Request
  <2>3. Alone(x) /\ req'[x].step = "count"
    BY <1>a, <2>1, <2>2
  <2> QED BY <1>1, <1>6, <2>3 DEF ScrapeEnd, GaugeOver, Ends
<1>7. CASE Created(x)
  <2>1. Alone(x) /\ req'[x].step = "count"
    BY <1>c, <1>7 DEF Created
  <2> QED BY <1>1, <1>7, <2>1 DEF Created, Holder, Rejoins
<1>8. CASE Count(x)
  <2>1. Alone(x) /\ req'[x] = Free
    BY <1>a, <1>8 DEF Count
  <2> QED BY <1>1, <1>8, <2>1 DEF Count, Holder, Leaves, Free
<1>9. CASE BodyRead(x)
  <2> DEFINE b == since >= DrainDeadline
  <2>0. PICK to \in {"query", "count"} :
          /\ req' = [req EXCEPT ![x].step = to, ![x].late = b]
          /\ mu' = IF to = "query" THEN mu ELSE Append(mu, x)
    BY <1>9 DEF BodyRead
  <2> HIDE DEF b
  <2>1. req' = [req EXCEPT ![x] = [req[x] EXCEPT !.step = to, !.late = b]]
    BY <2>0
  <2>2. [req[x] EXCEPT !.step = to, !.late = b].step = to
    BY <1>0 DEF Request
  <2>3. Alone(x) /\ req'[x].step = to
    BY <1>a, <2>1, <2>2
  <2> QED BY <1>1, <1>9, <2>0, <2>3 DEF BodyRead, Joins, Stays, Wanting
<1> QED BY <1>2, <1>3, <1>4, <1>5, <1>6, <1>7, <1>8, <1>9 DEF Handler

(* Whoever has the mutex is the first in the queue.                        *)
LEMMA First ==
  ASSUME TypeOK, NEW x \in Requests, Begins(x) \/ Ends(x) \/ Rejoins(x) \/ Leaves(x)
  PROVE  mu # <<>> /\ mu[1] = x
<1>1. mu \in Seq(Requests) /\ QueueInv
  BY TypeParts DEF Typed
<1>2. CASE Ends(x)
  BY <1>1, <1>2 DEF Ends, QueueInv, Queued, Wanting
<1>3. CASE Begins(x) \/ Rejoins(x) \/ Leaves(x)
  BY <1>1, <1>3 DEF Begins, Rejoins, Leaves
<1> QED BY <1>2, <1>3

(* No step of another request puts a scrape before r.                      *)
LEMMA NobodyOvertakes ==
  ASSUME TypeOK, NEW x \in Requests, NEW r \in Requests, r # x, Alone(x),
         Joins(x) \/ Stays(x) \/ Begins(x) \/ Ends(x) \/ Rejoins(x) \/ Leaves(x)
  PROVE  /\ Ahead(r)' \subseteq Ahead(r)
         /\ Ends(x) => x \notin Ahead(r)'
<1>1. mu \in Seq(Requests) /\ QueueInv
  BY TypeParts DEF Typed
<1>2. ASSUME NEW s, Before(mu', s, r) PROVE Before(mu, s, r)
  <2>1. CASE Joins(x)
    BY <1>1, <1>2, <2>1, BeforeAppend DEF Joins
  <2>2. CASE Stays(x) \/ Begins(x)
    BY <1>2, <2>2 DEF Stays, Begins
  <2>3. CASE Ends(x) \/ Rejoins(x)
    <3>1. mu # <<>> /\ Tail(mu) \in Seq(Requests) /\ mu' = Append(Tail(mu), x)
      BY <1>1, <2>3, First DEF Ends, Rejoins
    <3>2. Before(Tail(mu), s, r)
      <4> DEFINE q == Tail(mu)
      <4>1. q \in Seq(Requests) /\ Before(Append(q, x), s, r)
        BY <1>2, <3>1
      <4> HIDE DEF q
      <4>2. Before(q, s, r)
        BY <4>1, BeforeAppend
      <4> QED BY <4>2 DEF q
    <3> QED BY <1>1, <3>1, <3>2, BeforeTail
  <2>4. CASE Leaves(x)
    BY <1>1, <1>2, <2>4, First, BeforeTail DEF Leaves
  <2> QED BY <2>1, <2>2, <2>3, <2>4
<1>3. ASSUME NEW s \in Scrapes, req'[s].step \in {"scrape", "gauge"}, Before(mu', s, r)
      PROVE  s \in Ahead(r)
  <2>1. Before(mu, s, r) /\ s \in Requests
    BY <1>2, <1>3 DEF Requests
  <2>2. CASE s # x
    BY <1>3, <2>1, <2>2 DEF Alone, Ahead
  <2>3. CASE s = x
    <3>1. Queued(mu, x)
      BY <2>1, <2>3 DEF Before, Queued
    <3>2. req[x].step \in Wanting
      BY <1>1, <3>1 DEF QueueInv
    <3>3. Begins(x)
      BY <1>3, <2>3, <3>2 DEF Joins, Stays, Ends, Rejoins, Leaves, Wanting
    <3> QED BY <1>3, <2>1, <2>3, <3>3 DEF Begins, Ahead
  <2> QED BY <2>2, <2>3
<1>4. Ahead(r)' \subseteq Ahead(r)
  BY <1>3 DEF Ahead
<1>5. Ends(x) => x \notin Ahead(r)'
  BY DEF Ends, Ahead
<1> QED BY <1>4, <1>5

(* Unless a scrape ends, the head does not begin anew.                     *)
LEMMA HeadStays ==
  ASSUME TypeOK, TypeOK', NEW x \in Requests, Alone(x),
         Joins(x) \/ Stays(x) \/ Begins(x) \/ Rejoins(x) \/ Leaves(x)
  PROVE  HeadWait <= HeadWait'
<1>1. mu \in Seq(Requests) /\ QueueInv
  BY TypeParts DEF Typed
<1>2. HeadWait \in Nat /\ HeadWait' \in Nat
  BY HeadWaitType, HeadWaitNext
<1>3. CASE Begins(x) \/ Rejoins(x) \/ Leaves(x)
  <2>1. HeadWait = 0
    BY <1>3, First DEF Begins, Rejoins, Leaves, HeadWait
  <2> QED BY <1>2, <2>1
<1>4. CASE (Joins(x) \/ Stays(x)) /\ mu # <<>> /\ req[mu[1]].step = "gauge"
  <2>1. mu[1] \in Requests /\ mu'[1] = mu[1] /\ mu' # <<>>
    BY <1>1, <1>4 DEF Joins, Stays
  <2>2. mu[1] # x
    BY <1>4 DEF Joins, Stays, Wanting
  <2>3. HeadWait' = HeadWait
    BY <1>4, <2>1, <2>2 DEF Alone, HeadWait
  <2> QED BY <1>2, <2>3
<1>5. CASE ~(mu # <<>> /\ req[mu[1]].step = "gauge")
  <2>1. HeadWait = 0
    BY <1>5 DEF HeadWait
  <2> QED BY <1>2, <2>1
<1> QED BY <1>3, <1>4, <1>5

(* Whoever waits goes on waiting within the bound when another steps.      *)
LEMMA OthersWait ==
  ASSUME TypeOK, TypeOK', KindInv, NEW x \in Requests, NEW r \in Requests, r # x, Alone(x),
         Joins(x) \/ Stays(x) \/ Begins(x) \/ Ends(x) \/ Rejoins(x) \/ Leaves(x),
         req[r].step = "count", Waited(r)
  PROVE  Waited(r)'
<1>1. mu \in Seq(Requests) /\ QueueInv /\ req[r] \in Request
  BY TypeParts DEF Typed
<1>2. req'[r] = req[r] /\ req[r].age \in Nat
  BY <1>1, Durations DEF Alone, Request
<1>3. CASE Ends(x)
  <2>1. mu # <<>> /\ mu[1] = x /\ x \in Scrapes
    BY <1>3, First DEF Ends, KindInv
  <2>2. Before(mu, x, r)
    <3>1. PICK j \in DOMAIN mu : mu[j] = r
      BY <1>1 DEF QueueInv, Queued, Wanting
    <3>2. j # 1 /\ 1 \in DOMAIN mu /\ 1 < j
      BY <1>1, <2>1, <3>1
    <3> QED BY <2>1, <3>1, <3>2 DEF Before
  <2>3. x \in Ahead(r)
    BY <1>3, <2>1, <2>2 DEF Ends, Ahead
  <2>4. HeadWait <= GaugeTimeout
    BY <1>3, <2>1 DEF Ends, KindInv, HeadWait
  <2>5. Ahead(r)' \subseteq Ahead(r) \ {x}
    BY <1>3, NobodyOvertakes
  <2> QED BY <1>2, <2>3, <2>4, <2>5, ScrapeSpent
<1>4. CASE Joins(x) \/ Stays(x) \/ Begins(x) \/ Rejoins(x) \/ Leaves(x)
  <2>1. HeadWait <= HeadWait' /\ HeadWait \in Nat /\ HeadWait' \in Nat
    BY <1>4, HeadStays, HeadWaitType, HeadWaitNext
  <2>2. req'[r].age - req[r].age <= HeadWait' - HeadWait
    <3> DEFINE h == HeadWait  g == HeadWait'
    <3>1. h <= g /\ h \in Nat /\ g \in Nat /\ req'[r].age - req[r].age = 0
      BY <1>2, <2>1
    <3> HIDE DEF h, g
    <3>2. req'[r].age - req[r].age <= g - h
      BY <3>1
    <3> QED BY <3>2 DEF h, g
  <2> QED BY <1>4, <2>2, NobodyOvertakes, StillQueued
<1> QED BY <1>3, <1>4
(* The steps of request x keep the invariant.                              *)
LEMMA HandlerWaits ==
  ASSUME TypeOK, TypeOK', WaitInv, NEW x \in Requests, Accept(x) \/ Handler(x)
  PROVE  WaitInv'
<1>0. Typed /\ req[x] \in Request /\ req \in [Requests -> Request]
  BY TypeParts DEF Typed
<1>1. /\ Joins(x) \/ Stays(x) \/ Begins(x) \/ Ends(x) \/ Rejoins(x) \/ Leaves(x)
      /\ Alone(x) /\ UNCHANGED main
  BY Moves
<1>2. KindInv /\ AgeInv /\ EarlyInv
  BY DEF WaitInv
<1> DEFINE p == req[x]  q == req'[x]
<1>3. /\ q.step \in {"scrape", "gauge"} => x \in Scrapes
      /\ q.step = "created" => x \in Clients
      /\ q.step = "query" => x \in Readiness \cup Clients
      /\ q.step = "body" => x \in Clients
      /\ q.step = "gauge" => q.wait <= GaugeTimeout
      /\ x \in Probes \cup Readiness =>
           /\ q.step \in {"idle", "handling"} => q.age = 0 /\ q.wait = 0
           /\ q.step = "query" => q.age <= q.wait /\ q.wait <= PingTimeout
           /\ q.step = "count" => q.age \in Nat /\ q.age <= Earlier(x)
      /\ x \in Readiness =>
           /\ q.step = "query" => q.early
           /\ q.step = "handling" /\ ~Stopped => q.early
           /\ q.ready => q.early /\ q.step = "count"
  <2>0. /\ p.step \in {"scrape", "gauge"} => x \in Scrapes
        /\ p.step = "created" => x \in Clients
        /\ p.step = "query" => x \in Readiness \cup Clients
        /\ p.step = "body" => x \in Clients
        /\ x \in Probes \cup Readiness =>
             /\ p.step \in {"idle", "handling"} => p.age = 0 /\ p.wait = 0
             /\ p.step = "query" => p.age <= p.wait /\ p.wait <= PingTimeout
        /\ x \in Readiness =>
             /\ p.step = "query" => p.early
             /\ p.step = "handling" /\ ~Stopped => p.early
             /\ p.ready => p.early /\ p.step = "count"
    BY <1>2 DEF KindInv, AgeInv, EarlyInv
  <2>k. /\ x \in Probes => x \notin Readiness /\ x \notin Scrapes /\ x \notin Clients
        /\ x \in Readiness => x \notin Probes /\ x \notin Scrapes /\ x \notin Clients
        /\ x \in Scrapes => x \notin Clients
    BY Kinds
  <2>t. p.age \in Nat /\ p.wait \in Nat /\ GaugeTimeout \in Nat /\ PingTimeout \in Nat
        /\ Earlier(x) \in Nat /\ (x \in Readiness => Earlier(x) = PingTimeout)
    BY <1>0, Durations DEF Request, Earlier
  <2>c. ASSUME x \in Probes \cup Readiness, p.step \in {"handling", "query"}
        PROVE  p.age <= Earlier(x)
    <3>1. CASE p.step = "handling"
      BY <2>0, <2>c, <2>t, <3>1
    <3>2. CASE p.step = "query"
      BY <2>0, <2>c, <2>t, <2>k, <3>2
    <3> QED BY <2>c, <3>1, <3>2
  <2>a. ASSUME NEW v, req' = [req EXCEPT ![x] = v] PROVE q = v
    BY <1>0, <2>a
  <2>b. ASSUME NEW what \in {"scrape", "count"}, LockFor(x, what), p.step \in {"handling", "query"},
               what = "scrape" => x \in Scrapes
        PROVE  <1>3
    <3>0. req' = [req EXCEPT ![x] = [p EXCEPT !.step = what, !.wait = 0]]
      BY <2>b DEF LockFor
    <3>1. q = [p EXCEPT !.step = what, !.wait = 0]
      BY <2>a, <3>0
    <3>2. q.step = what /\ q.age = p.age /\ q.ready = p.ready /\ q.early = p.early
      BY <1>0, <3>1 DEF Request
    <3> QED BY <2>0, <2>b, <2>c, <2>k, <2>t, <3>2
  <2>1. CASE Accept(x)
    <3> DEFINE b == x \in Readiness => ~Stopped
    <3>1. req' = [req EXCEPT ![x] = [Free EXCEPT !.step = "handling", !.early = b]]
      BY <2>1 DEF Accept
    <3>2. q = [Free EXCEPT !.step = "handling", !.early = b]
      BY <2>a, <3>1
    <3>3. q.step = "handling" /\ q.age = 0 /\ q.wait = 0 /\ q.ready = FALSE /\ q.early = b
      BY <3>2 DEF Free
    <3> QED BY <3>3
  <2>2. CASE req' = [req EXCEPT ![x].step = "query"] /\ p.step = "handling"
             /\ ((x \in Readiness /\ ~Stopped) \/ x \in Clients)
    <3>1. q = [p EXCEPT !.step = "query"]
      BY <2>2, <2>a
    <3>2. q.step = "query" /\ q.age = p.age /\ q.wait = p.wait /\ q.ready = p.ready /\ q.early = p.early
      BY <1>0, <3>1 DEF Request
    <3> QED BY <2>0, <2>2, <2>k, <2>t, <3>2
  <2>7. CASE req' = [req EXCEPT ![x].step = "body"] /\ x \in Clients
    <3>1. q = [p EXCEPT !.step = "body"]
      BY <2>7, <2>a
    <3>2. q.step = "body"
      BY <1>0, <3>1 DEF Request
    <3> QED BY <2>7, <2>k, <3>2
  <2>3. CASE Healthz(x) \/ Readyz(x) \/ Metrics(x) \/ Tasks(x) \/ QueryCancelled(x)
    <3>1. CASE Tasks(x)
      <4>1. p.step = "handling" /\ x \in Clients
        BY <3>1 DEF Tasks
      <4>2. \/ LockFor(x, "count")
            \/ req' = [req EXCEPT ![x].step = "query"]
            \/ req' = [req EXCEPT ![x].step = "body"]
        BY <3>1 DEF Tasks
      <4>3. CASE LockFor(x, "count")
        BY <2>b, <4>1, <4>3
      <4> QED BY <2>2, <2>7, <4>1, <4>2, <4>3
    <3> QED BY <2>2, <2>3, <2>b, <3>1 DEF Healthz, Readyz, Metrics, QueryCancelled
  <2>4. CASE QueryDone(x)
    <3> DEFINE b == x \in Readiness /\ db = "up"
    <3>1. PICK to \in {"created", "count"} :
            /\ req' = [req EXCEPT ![x].step = to, ![x].wait = 0, ![x].ready = b]
            /\ to = "created" => x \in Clients
      BY <2>4 DEF QueryDone
    <3> HIDE DEF b
    <3>0. req' = [req EXCEPT ![x] = [p EXCEPT !.step = to, !.wait = 0, !.ready = b]]
      BY <3>1
    <3>2. q = [p EXCEPT !.step = to, !.wait = 0, !.ready = b]
      BY <2>a, <3>0
    <3>3. q.step = to /\ q.age = p.age /\ q.early = p.early
      BY <1>0, <3>2 DEF Request
    <3>4. p.step = "query"
      BY <2>4 DEF QueryDone
    <3> QED BY <2>0, <2>c, <2>k, <2>t, <3>1, <3>3, <3>4
  <2>5. CASE ScrapeStart(x) \/ ScrapeEnd(x) \/ Created(x)
    <3>1. x \in Scrapes \cup Clients
      BY <2>0, <2>5 DEF ScrapeStart, ScrapeEnd, GaugeOver, Created
    <3>2. q.step = "count" \/ (q.step = "gauge" /\ x \in Scrapes /\ q.wait = 0)
      <4>1. CASE ScrapeStart(x)
        <5>0. req' = [req EXCEPT ![x] = [p EXCEPT !.step = "gauge", !.wait = 0]]
          BY <4>1 DEF ScrapeStart
        <5>1. q = [p EXCEPT !.step = "gauge", !.wait = 0]
          BY <2>a, <5>0
        <5> QED BY <1>0, <2>0, <4>1, <5>1 DEF ScrapeStart, Request
      <4>2. CASE ScrapeEnd(x)
        <5>0. req' = [req EXCEPT ![x] = [p EXCEPT !.step = "count", !.wait = 0]]
          BY <4>2 DEF ScrapeEnd
        <5>1. q = [p EXCEPT !.step = "count", !.wait = 0]
          BY <2>a, <5>0
        <5> QED BY <1>0, <5>1 DEF Request
      <4>3. CASE Created(x)
        <5>1. q = [p EXCEPT !.step = "count"]
          BY <2>a, <4>3 DEF Created
        <5> QED BY <1>0, <5>1 DEF Request
      <4> QED BY <2>5, <4>1, <4>2, <4>3
    <3> QED BY <2>k, <2>t, <3>1, <3>2
  <2>6. CASE Count(x)
    <3>1. q = Free
      BY <2>6, <2>a DEF Count
    <3>2. q.step = "idle" /\ q.age = 0 /\ q.wait = 0 /\ q.ready = FALSE
      BY <3>1 DEF Free
    <3> QED BY <3>2
  <2>8. CASE BodyRead(x)
    <3> DEFINE b == since >= DrainDeadline
    <3>0. PICK to \in {"query", "count"} : req' = [req EXCEPT ![x].step = to, ![x].late = b]
      BY <2>8 DEF BodyRead
    <3> HIDE DEF b
    <3>1. req' = [req EXCEPT ![x] = [p EXCEPT !.step = to, !.late = b]]
      BY <3>0
    <3>2. q = [p EXCEPT !.step = to, !.late = b]
      BY <2>a, <3>1
    <3>3. q.step = to
      BY <1>0, <3>2 DEF Request
    <3>4. x \in Clients
      BY <2>0, <2>8 DEF BodyRead
    <3> QED BY <2>k, <3>3, <3>4
  <2> QED BY <2>1, <2>3, <2>4, <2>5, <2>6, <2>8 DEF Handler
<1>4. KindInv'
  BY <1>1, <1>2, <1>3 DEF KindInv, Alone
<1>5. ASSUME NEW r \in Probes \cup Readiness
      PROVE  /\ req'[r].step \in {"idle", "handling"} => req'[r].age = 0 /\ req'[r].wait = 0
             /\ req'[r].step = "query" => req'[r].age <= req'[r].wait /\ req'[r].wait <= PingTimeout
             /\ req'[r].step = "count" => Waited(r)'
  <2>1. CASE r = x
    BY <1>3, <2>1, JustQueued
  <2>2. CASE r # x
    <3>1. r \in Requests /\ req'[r] = req[r]
      BY <1>1, <2>2 DEF Alone, Requests
    <3>2. req[r].step = "count" => Waited(r)'
      BY <1>1, <1>2, <2>2, <3>1, OthersWait DEF AgeInv
    <3> QED BY <1>2, <3>1, <3>2 DEF AgeInv
  <2> QED BY <2>1, <2>2
<1>6. AgeInv'
  BY <1>5 DEF AgeInv
<1>7. EarlyInv'
  BY <1>1, <1>2, <1>3 DEF EarlyInv, Alone, Stopped, Requests
<1> QED BY <1>4, <1>6, <1>7 DEF WaitInv
(* While time passes, the head of the queue is a scrape that waits for the *)
(* database and has not waited for its whole deadline.                     *)
LEMMA TickWaits ==
  ASSUME TypeOK, TypeOK', WaitInv, Tick
  PROVE  WaitInv'
<1>0. Typed /\ QueueInv /\ req \in [Requests -> Request] /\ mu \in Seq(Requests)
  BY TypeParts DEF Typed
<1>1. /\ UNCHANGED <<main, mu, db>> /\ \A r \in Requests : ~Due(r)
      /\ req' = [r \in Requests |-> Older(r)]
  BY DEF Tick
<1>2. KindInv /\ AgeInv /\ EarlyInv
  BY DEF WaitInv
<1>3. ASSUME NEW r \in Requests
      PROVE  /\ req'[r].step = req[r].step /\ req'[r].early = req[r].early /\ req'[r].ready = req[r].ready
             /\ req'[r].age = req[r].age \/ req'[r].age = OneMore(req[r].age)
             /\ req'[r].wait = IF req[r].step = "gauge" \/ (req[r].step = "query" /\ r \in Readiness)
                               THEN OneMore(req[r].wait) ELSE req[r].wait
             /\ req[r].step = "idle" => req'[r].age = req[r].age
             /\ req[r].age \in 0 .. Patience /\ req[r].wait \in 0 .. Patience
  BY <1>0, <1>1 DEF Older, Request, InFlight
<1>4. \A r \in Requests : req[r].step # "handling"
  BY <1>1 DEF Due
<1>5. ASSUME NEW r \in Requests, req[r].step = "gauge"
      PROVE  req'[r].wait = req[r].wait + 1 /\ req'[r].wait <= GaugeTimeout
  <2>1. ~(req[r].wait >= GaugeTimeout)
    BY <1>1, <1>5 DEF Due, GaugeOver
  <2> QED BY <1>3, <1>5, <2>1, Durations DEF OneMore
<1>6. KindInv'
  BY <1>2, <1>3, <1>5 DEF KindInv
<1>7. ASSUME NEW r \in Readiness, req[r].step = "query"
      PROVE  req'[r].age <= req'[r].wait /\ req'[r].wait <= PingTimeout
  <2>1. r \in Requests /\ ~(req[r].wait >= PingTimeout)
    BY <1>1, <1>7 DEF Due, Requests
  <2>2. req[r].age <= req[r].wait /\ req'[r].wait = OneMore(req[r].wait)
    BY <1>2, <1>3, <1>7, <2>1 DEF AgeInv
  <2> DEFINE a == req[r].age  w == req[r].wait
  <2>3. a \in 0 .. Patience /\ w \in 0 .. Patience /\ a <= w /\ ~(w >= PingTimeout)
        /\ (req'[r].age = a \/ req'[r].age = OneMore(a)) /\ req'[r].wait = OneMore(w)
    BY <1>3, <2>1, <2>2
  <2> HIDE DEF a, w
  <2> QED BY <2>3, Durations DEF OneMore
<1>8. ASSUME NEW r \in Requests, req[r].step = "count", Waited(r) PROVE Waited(r)'
  <2>1. /\ mu # <<>> /\ mu[1] \in Requests /\ req[mu[1]].step \in Wanting
    <3>1. PICK i \in DOMAIN mu : mu[i] = r
      BY <1>0, <1>8 DEF QueueInv, Queued, Wanting
    <3>2. mu # <<>> /\ 1 \in DOMAIN mu /\ mu[1] \in Requests
      BY <1>0, <3>1
    <3> QED BY <1>0, <3>2 DEF QueueInv, Queued
  <2>2. req[mu[1]].step = "gauge"
    <3>1. ~Due(mu[1]) /\ Holder(mu[1])
      BY <1>0, <1>1, <2>1 DEF Holder
    <3> QED BY <2>1, <3>1 DEF Due, Wanting
  <2>3. HeadWait' = HeadWait + 1 /\ HeadWait \in Nat
    BY <1>1, <1>3, <1>5, <2>1, <2>2, HeadWaitType DEF HeadWait
  <2>4. Ahead(r)' \subseteq Ahead(r)
    BY <1>1, <1>3 DEF Ahead, Requests
  <2>5. req'[r].age - req[r].age <= 1
    BY <1>3, Durations
  <2>6. req'[r].age - req[r].age <= HeadWait' - HeadWait
    <3> DEFINE h == HeadWait  g == HeadWait'  d == req'[r].age - req[r].age
    <3>1. g = h + 1 /\ h \in Nat /\ d <= 1
      BY <2>3, <2>5
    <3> HIDE DEF h, g
    <3>2. d <= g - h
      BY <3>1
    <3> QED BY <3>2 DEF h, g
  <2> QED BY <1>8, <2>4, <2>6, StillQueued
<1>9. AgeInv'
  <2> SUFFICES ASSUME NEW r \in Probes \cup Readiness
               PROVE  (/\ req[r].step \in {"idle", "handling"} => req[r].age = 0 /\ req[r].wait = 0
                       /\ req[r].step = "query" => req[r].age <= req[r].wait /\ req[r].wait <= PingTimeout
                       /\ req[r].step = "count" => Waited(r))'
    BY DEF AgeInv
  <2>1. r \in Requests
    BY DEF Requests
  <2>2. req[r].step = "query" => r \in Readiness
    BY <1>2, <2>1, Kinds DEF KindInv
  <2> QED BY <1>2, <1>3, <1>4, <1>7, <1>8, <2>1, <2>2 DEF AgeInv
<1>10. EarlyInv'
  BY <1>1, <1>2, <1>3 DEF EarlyInv, Stopped, Requests
<1> QED BY <1>6, <1>9, <1>10 DEF WaitInv

(* Every step keeps the invariant.                                         *)
LEMMA WaitNext == TypeOK /\ TypeOK' /\ WaitInv /\ [Next]_vars => WaitInv'
<1> SUFFICES ASSUME TypeOK, TypeOK', WaitInv, [Next]_vars PROVE WaitInv'
  OBVIOUS
<1>1. CASE \E r \in Requests : Accept(r) \/ Handler(r)
  BY <1>1, HandlerWaits
<1>2. CASE Main \/ Sigterm \/ Kill \/ Unroute \/ DbChanges \/ UNCHANGED vars
  <2>1. req' = req /\ mu' = mu /\ (Stopped => Stopped')
    BY <1>2 DEF Main, Shutdown, Drained, Close, Sigterm, Kill, Unroute, DbChanges, vars,
       Stopped
  <2>2. KindInv'
    BY <2>1 DEF WaitInv, KindInv
  <2>3. \A r : Waited(r) => Waited(r)'
    BY <2>1 DEF Waited, Spent, Ahead, HeadWait
  <2>4. AgeInv'
    BY <2>1, <2>3 DEF WaitInv, AgeInv
  <2>5. EarlyInv'
    BY <2>1 DEF WaitInv, EarlyInv
  <2> QED BY <2>2, <2>4, <2>5 DEF WaitInv
<1>3. CASE Tick
  BY <1>3, TickWaits
<1> QED BY <1>1, <1>2, <1>3 DEF Next

(* The bounds on waiting hold throughout.                                  *)
LEMMA Waits == Spec => [](TypeOK /\ WaitInv)
<1>1. Init => WaitInv
  BY DEF Init, WaitInv, KindInv, AgeInv, EarlyInv, Free, Requests
<1> QED BY <1>1, WaitNext, ApiTypeCorrect, PTL DEF Spec

(* In all its life a request of the kubelet waits for at most one deadline *)
(* for every scrape slot, besides its own ping.                            *)
LEMMA AgeBound ==
  ASSUME TypeOK, WaitInv, NEW r \in Probes \cup Readiness
  PROVE  req[r].age <= Earlier(r) + GaugeTimeout * Cardinality(Scrapes)
<1>1. r \in Requests /\ req[r] \in Request /\ req[r].step \in Steps
  BY TypeParts DEF Typed, Request, Requests
<1> DEFINE a == req[r].age  e == Earlier(r)  n == Cardinality(Scrapes)
<1>2. a \in Nat /\ e \in Nat /\ n \in Nat /\ GaugeTimeout \in Nat \ {0} /\ GaugeTimeout * n \in Nat
  BY <1>1, Durations, AheadFinite DEF Request, Earlier, Countable
<1>3. CASE req[r].step = "count"
  <2>1. PICK k \in Nat : Spent(r, k)
    BY <1>3 DEF WaitInv, AgeInv, Waited
  <2> DEFINE c == Cardinality(Ahead(r))  h == HeadWait
  <2>2. c \in Nat /\ k + c <= n /\ a <= e + GaugeTimeout * k + h /\ h \in Nat
    BY <1>1, <2>1, AheadFinite, HeadWaitType DEF Spent, Countable
  <2>3. h # 0 => h <= GaugeTimeout /\ c # 0
    <3>1. CASE mu # <<>> /\ req[mu[1]].step = "gauge"
      <4>1. mu[1] \in Requests /\ 1 \in DOMAIN mu
        BY <3>1, TypeParts DEF Typed
      <4>2. h <= GaugeTimeout /\ mu[1] \in Scrapes
        BY <3>1, <4>1 DEF WaitInv, KindInv, HeadWait
      <4>3. PICK j \in DOMAIN mu : mu[j] = r
        BY <1>1, <1>3 DEF TypeOK
      <4>4. 1 < j
        BY <1>3, <3>1, <4>3, TypeParts DEF Typed
      <4>5. mu[1] \in Ahead(r)
        BY <3>1, <4>1, <4>2, <4>3, <4>4 DEF Ahead, Before
      <4>6. c # 0
        BY <1>1, <4>5, AheadFinite, FS_EmptySet DEF Countable
      <4> QED BY <4>2, <4>6
    <3>2. CASE ~(mu # <<>> /\ req[mu[1]].step = "gauge")
      BY <3>2 DEF HeadWait
    <3> QED BY <3>1, <3>2
  <2>4. GaugeTimeout * k + h <= GaugeTimeout * n
    <3> HIDE DEF c, h, n
    <3>1. CASE h = 0
      <4>1. k <= n
        BY <1>2, <2>2
      <4>2. GaugeTimeout * k <= GaugeTimeout * n
        BY <1>2, <4>1
      <4> QED BY <1>2, <3>1, <4>2
    <3>2. CASE h # 0
      <4>1. k + 1 <= n
        BY <1>2, <2>2, <2>3, <3>2
      <4>2. GaugeTimeout * (k + 1) <= GaugeTimeout * n
        BY <1>2, <4>1
      <4>3. GaugeTimeout * (k + 1) = GaugeTimeout * k + GaugeTimeout /\ GaugeTimeout * k \in Nat
        BY <1>2
      <4> DEFINE gk == GaugeTimeout * k  gn == GaugeTimeout * n
      <4>4. gk \in Nat /\ gn \in Nat /\ gk + GaugeTimeout <= gn
        BY <1>2, <4>2, <4>3
      <4>5. gk + h <= gn
        <5> HIDE DEF gk, gn
        <5> QED BY <1>2, <2>2, <2>3, <3>2, <4>4
      <4> QED BY <4>5
    <3> QED BY <3>1, <3>2
  <2>5. a <= e + GaugeTimeout * n
    <3> DEFINE gk == GaugeTimeout * k  gn == GaugeTimeout * n
    <3>1. gk \in Nat /\ gn \in Nat /\ gk + h <= gn /\ a <= e + gk + h
      BY <1>2, <2>2, <2>4
    <3>2. a <= e + gn
      <4> HIDE DEF gk, gn, a, e, h, n
      <4> QED BY <1>2, <2>2, <3>1
    <3> QED BY <3>2
  <2> QED BY <2>5
<1>4. CASE req[r].step # "count"
  <2>1. a <= e
    <3>1. req[r].step \in {"idle", "handling", "query"}
      BY <1>1, <1>4, Kinds DEF WaitInv, KindInv, Steps
    <3>2. CASE req[r].step \in {"idle", "handling"}
      BY <1>2, <3>2 DEF WaitInv, AgeInv
    <3>3. CASE req[r].step = "query"
      <4>1. r \in Readiness /\ a <= req[r].wait /\ req[r].wait <= PingTimeout
        BY <1>1, <3>3, Kinds DEF WaitInv, KindInv, AgeInv
      <4>2. req[r].wait \in Nat
        BY <1>1, Durations DEF Request
      <4> QED BY <1>2, <4>1, <4>2, Durations DEF Earlier
    <3> QED BY <3>1, <3>2, <3>3
  <2> DEFINE gn == GaugeTimeout * n
  <2>2. a <= e + gn
    <3> HIDE DEF a, e, n
    <3>1. gn \in Nat
      BY <1>2
    <3> HIDE DEF gn
    <3> QED BY <1>2, <2>1, <3>1
  <2> QED BY <2>2
<1> QED BY <1>3, <1>4

(* A request accepted after SIGTERM is never answered "ready", and one     *)
(* from before it waits for its ping and one deadline for every scrape     *)
(* slot at most, however many probes, clients and scrapes are in flight.   *)
THEOREM ReadyzHonestHolds == Spec => []ReadyzHonest
<1>1. TypeOK /\ WaitInv => ReadyzHonest
  <2> SUFFICES ASSUME TypeOK, WaitInv, NEW r \in Readiness, req[r].ready
               PROVE  req[r].early /\ req[r].age <= PingTimeout + GaugeTimeout * Cardinality(Scrapes)
    BY DEF ReadyzHonest
  <2>1. req[r].age <= Earlier(r) + GaugeTimeout * Cardinality(Scrapes)
    BY AgeBound
  <2> QED BY <2>1 DEF WaitInv, EarlyInv, Earlier
<1> QED BY <1>1, Waits, PTL

(* A liveness probe is answered before it times out, whatever the database *)
(* does, if all scrapes there can be take less time than the probe's       *)
(* timeout: with one Prometheus, if the gauge's deadline does.             *)
THEOREM ProbeAnsweredInTimeHolds ==
  ASSUME GaugeTimeout * Cardinality(Scrapes) < ProbeTimeout
  PROVE  Spec => []ProbeAnsweredInTime
<1>1. TypeOK /\ WaitInv => ProbeAnsweredInTime
  <2> SUFFICES ASSUME TypeOK, WaitInv, NEW r \in Probes PROVE req[r].age < ProbeTimeout
    BY DEF ProbeAnsweredInTime
  <2>1. req[r].age <= Earlier(r) + GaugeTimeout * Cardinality(Scrapes) /\ Earlier(r) = 0
    BY AgeBound, Kinds DEF Earlier
  <2>2. req[r].age \in Nat /\ Cardinality(Scrapes) \in Nat
    <3>1. r \in Requests /\ req[r] \in Request
      BY TypeParts DEF Typed, Requests
    <3> QED BY <3>1, Durations, AheadFinite DEF Request, Countable
  <2> DEFINE gn == GaugeTimeout * Cardinality(Scrapes)  a == req[r].age
  <2>3. gn \in Nat /\ a \in Nat /\ a <= 0 + gn /\ gn < ProbeTimeout /\ ProbeTimeout \in Nat
    BY <2>1, <2>2, Durations
  <2> HIDE DEF gn, a
  <2>4. a < ProbeTimeout
    BY <2>3
  <2> QED BY <2>4 DEF a
<1> QED BY <1>1, Waits, PTL
=============================================================================
