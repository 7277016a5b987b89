# A verification development for Tasklane

The repository is a handbook about Docker and Kubernetes. Most of it is prose,
recorded output and a generated site; the program logic is in

* **Tasklane**, the example application the handbook deploys (Go,
  `src/examples/app`): an HTTP API, worker replicas and a PostgreSQL table
  used as a queue;
* **the TaskQueue operator** (Go, `src/examples/operator`);
* **the site tooling** (Node, `src/scripts`): a markdown renderer, a checker,
  a site generator, a harness, and the browser script of the site;
* **shell scripts** that deploy Tasklane (`src/examples/docker-run` and others).

This directory holds TLA+ specifications of these parts, TLC configurations
that check them on small instances, and TLAPS proofs for every instance.

## Inventory

| Part | State it keeps | Operations | What is hard about it |
|---|---|---|---|
| Worker, `cmd/worker/main.go` | position in its loop, the task it works on, the cancelled context, two counters, `lastLoop` | the poll loop, SIGTERM, `/healthz` | replies late, lost or ignored; SIGTERM between any two steps; crashes |
| Store, `internal/store/store.go` | the `tasks` table, the pool | `Claim`, `Complete`, `Release`, `Create`, `List`, `Pending`, `Ping`, `Migrate` | statements of several workers interleave in the database; `Complete` and `Release` do not check who holds the row |
| API server, `cmd/api/main.go` | in-flight requests, `draining`, the listener | five routes, graceful shutdown, `migrate` mode | deadlines that must fit into one another; a request, a scrape and a probe that share one mutex |
| Metrics registry, `internal/metrics` | counters, a gauge that queries the database, a mutex | `Inc`, `ServeHTTP` | the mutex is held during the query |
| Operator, `internal/controller`, `cmd/main.go` | informer caches, a work queue, the lease, `status` of a TaskQueue, `replicas` of a Deployment | `Reconcile`, `writeStatus`, two watches | stale caches, conflicting writers, handover of the lease, steps that fail half-way |
| `docker run` scripts | volumes, containers, the generated password | start, re-run, clean-up | a run that stops half-way and is repeated |
| Renderer and checker (`scripts/lib/markdown.mjs`, `check.mjs`) | none between files | functions over the lines of a page | six scanners that have to see the same code, and two that have to give a heading the same anchor |
| Harness, `scripts/harness.mjs` | what it gathered, its counts, its report; the cluster's namespaces | extract, kubeconform, namespaces, dry run, pluto, the local phases | a cluster that holds what earlier labs left and may go away during the run |
| Site build and publishing, `scripts/build.mjs`, `check.mjs`, `.github/workflows/pages.yml` | the page graph, the `docs/` tree, the runs of the workflow | two passes over the pages, the rules that a push has to pass, check, build and deploy | pages, lists and links that change independently; pushes that overtake each other |
| The site's script, `APP_JS` in `lib/template.mjs` | open menus, timers, the drawer, the index, the result list, the selection | clicks, hovering, typing, keys, toggle events, a fetch that answers later | callbacks after the reader moved on |

How they interact: the API inserts rows, workers claim and finish them, and a
nightly job deletes old ones, all through the table and nothing else. The
Service and the kubelet watch `/readyz` and `/healthz`, Prometheus scrapes
`/metrics`. The operator changes how many workers there are by writing
`spec.replicas` of their Deployment; users and GitOps write the same object.
Authors push to the repository; a workflow checks the pages, builds them and
deploys the site. The checker, the renderer and the harness read the same
pages, each by rules of its own; a reader's browser runs the script that the
site generator wrote.

## Modules

| Module | What it is |
|---|---|
| `TaskLifecycle` | abstract: the life of one row of the table |
| `WorkerQueue` | detailed: workers, database sessions, the table; refines `TaskLifecycle` |
| `ApiServer` | one API pod, its mutex, its probes and its shutdown, in discrete time |
| `TaskQueueOperator` | operator replicas, caches, lease, TaskQueues and a Deployment |
| `DockerRun` | the deploy and clean-up scripts, the Docker daemon and the database container |
| `SitePipeline` | the handbook's pages and lists, the graph rules of the checker, the site generator and the workflow that publishes |
| `DocScan` | the renderer's blocks and the scanners of checker and harness, reading the same page line by line |
| `Harness` | a run of the harness against a cluster |
| `PageScript` | the script of the site: menus, drawer and search box |
| `MCWorkerQueue`, `MCApiServer`, `MCTaskQueueOperator`, `MCHandbook` | what TLC needs: symmetry, small values, liveness properties, the four small machines side by side |
| `WorkerQueueProofs`, `LifecycleProofs` | the theorems about `WorkerQueue`: ownership of tasks, what is lost, what the counters claim, and the refinement |
| `ApiServerProofs`, `TaskQueueOperatorProofs`, `DockerRunProofs`, `DocScanProofs`, `PageScriptProofs` | the theorems about the module of that name |
| `HandbookProofs` | the theorems about `SitePipeline`, `Harness` and their composition in `MCHandbook` |

### WorkerQueue

A worker never touches the table. `Call` puts a statement into a database
session (`stmt`), server actions execute it there (`ClaimPick` takes the row
lock, `ClaimCommit` commits; `ExecComplete`, `ExecRelease`), and the worker
consumes the reply (`ClaimGot`, `ClaimEmpty`, `ClaimFailed`, `CompleteOk`,
`CompleteFailed`, `ReleaseEnd`). A worker may stop waiting at any time: its
context is cancelled (`Cancelled`), the connection breaks (`ConnectionLost`),
the process dies (`Crash`). The statement stays behind and may be executed
later. `ReplyLost` is a connection that stays open and silent: the worker
waits for ever until `LivenessRestart`, because `Claim` and `Complete` have no
deadline. `WorkDone` is a sleep that ends with its context alive; with a
cancelled one `sleep` returns at once and the task is handed back
(`Interrupted`). `CompleteRefused` is `Complete(ctx)` after a SIGTERM that came
once the sleep was over: pgx does not send a statement under a cancelled
context.

`pc` names the places in `main()`: `loop` is line 72, `claiming` 74, `polling`
77, `backoff` 84, `working` 88, `releasing` 91-95, `complete`/`completing` 98,
`stopping` 106-110. Time is abstracted: every sleep may end at any moment.
`Create` stands for the API's INSERT and `Purge` for the nightly DELETE.

### ApiServer

A request is a slot with a step: `handling`, waiting for the client to send
the body of a POST (`body`: `Decode` has no deadline, the server sets
`ReadHeaderTimeout` only), waiting for the database (`query`), waiting for the
registry's mutex (`scrape`, `created`, `count`) or holding it while the gauge
queries the database (`gauge`). `mu` is the mutex's
queue, its holder first (Go's mutex hands over in order once a waiter has been
passed over for a millisecond). Time passes only in `Tick`, only when nothing
can run; durations keep the order they have in the program and the manifests:
gauge and ping 1 s, probe timeout 2 s, delay 5 s, drain 15 s, grace 30 s.
Responses are sent when the handler chain returns, which is after
`countRequests` has had the mutex: the bodies are smaller than the server's
write buffer. `late` is history: the body came when the drain was at its
deadline (`DrainDeadline`).

### TaskQueueOperator

The API server holds `queues` and `deploy`; every accepted write is delivered,
in order, to every replica's caches (`qwatch`, `dwatch` to `qcache`,
`dcache`). `Reconcile` is cut where another actor can get in: `Take` (the
cached TaskQueue), `ReadDeploy` (the cached Deployment, and the comparison),
`Patch`, `writeStatus`. A resourceVersion is only compared for equality, so a
copy carries `qfresh`/`dfresh`, true while the object has not been written
since; a status update is accepted only for a fresh copy, a merge patch always.
An error puts the request back (`Retry`). The condition's message is a
function of the other status fields and is left out, as is the event recorder.

### DockerRun

One step per docker command of `tasklane-docker-run.sh` and
`tasklane-docker-cleanup.sh` that changes something. `pc` is the next step of
the script that runs, or `idle`; the user starts either script whenever none
runs. A volume is `None`, `Empty`, or stands for the password it holds: `secret`
the one in the file, `data` the one the cluster was created with. `db` is the
database container, whose entrypoint (`InitDb`, `InitEnds`, `DbUp`) takes its
own time and looks only at whether the volume holds a cluster.

An incident ends the script (`Interrupt`: Ctrl-C, `set -e`, a wait without
success), or, where the script does not look at a status or looks at it in an
`if`, makes it go on: `CheckFails` (the test of the password file),
`RemoveFails` (`docker rm ... || true`), `SkipFails` (`if docker ... inspect`).
`InUse` is what the daemon refuses: a name that is taken, the network or the
password's volume while any container is there, the data volume while the
database container is (api, worker and migrate mount only `tasklane-secrets`,
run.sh:127, 177, 192). `fooled` and `torn` are history: a failed command was
taken for something missing, and the database was killed while it initialised.

### SitePipeline

A page is what other pages can tell of it: a heading that links may point to,
one link (with or without an anchor), one prerequisite. `tree` is the author's
working copy, `commits` what was pushed. `Linear`, `Place`, `Prev`, `NextPage`,
`Rendered` and `Menu` are `build.mjs`, `Orphans`, `BadPrereqs` and `BadLinks`
are the graph rules of `check.mjs`, and a run of `pages.yml` goes through
`CheckRun`, `BuildRun` and `Deploy`, unless the next push or a run by hand
(`Dispatch`) cancels it, in the same step (a deployment that GitHub still
finishes after the cancellation is not modelled), or the build or the deployment
fails (`FailRun`; `broken` says so of the last run, which nobody starts again by
itself). The site is not a variable: `Build(commits[published])` is what is
online. That the renderer gives a heading the anchor that the checker computes
for it is assumed here and checked in `DocScan`.

### DocScan

One action, `Read(line)`: the next line of a page is given to all scanners at
once. Each scanner's state is one variable: `rendered` (`renderBlocks`:
the stack of open containers and list items, the innermost block, the headings),
`anchors` (`getHeadings`), `linkFence` (`validateLinks`), `block`
(`extractBlocks`), `banFence` and `skipping` (`validateBans`, `skipRanges`), and
`extracted` (the harness's `extractFromMarkdown`). What an opening fence says
is one of `Infos`: a language, a flag, a title or an include, with or without
a name that ends in `.yaml`. A ban is known by where it holds (`Bans`): removed
APIs everywhere, docker-compose, dockershim and installing ingress-nginx in
prose only, `:latest` in titled or included manifests and Dockerfiles
(`BanMode`), none on a page of the migration part or with the status legacy or
deprecated. The renderer's recursion into
containers and lists is a stack in which the outermost block sees a line first:
callouts count colons, tabs cut at `@tab`, an item takes what is indented to its
text. `page` is what the author means, a ghost against which the scanners are
compared.

The scanners do differ (a fence that `getHeadings` closes by any fence of the same
character is still open for `extractBlocks`), so agreement is stated for pages
in house style, the guard `HouseStyle`: three backticks around code, at the
margin or under an item's text; no fence and no colons in code; items, headings
and containers at the margin, a container in another only with another number of
colons, and no tabs in tabs. The pages under `src/content` are written like that,
but for a few places that the model leaves out: a callout inside a list item
(`troubleshooting/docker-disk-exhaustion.md`,
`troubleshooting/stuck-terminating-namespace.md`) and lists within lists. The
lines themselves are assumed to be what the scanners' patterns can match
(`ScanAssumption`): at least three characters for a fence or a container, four
for tabs, an info string that `parseFenceAttrs` tells apart (`Infos`).

### Harness

`step` is the script's next step, `at` how far its loop over the manifests is.
The phases that talk to the API server are cut at every call (`clusterInfo`,
`namespacePass`, `createNamespace`, `runServerDryRun`); what runs on files is
one step each. A document is a record of what the script's conditions ask of it:
where it was found, whether it is expected to be rejected, the namespace it
declares and with which Pod Security level, the one it names, and on what the
server's answer depends (`Verdicts`): on nothing, on the level of its namespace,
on policies such as a LimitRange (which the harness never applies: line 180
applies Namespaces only), or on an add-on with CRDs and a webhook. The cluster
starts with any namespaces in any state, and a document without a namespace goes
to the `context`'s, whatever that is; of policies and add-ons the cluster has
some or none, so `Answers` leaves both answers open. A declaration without a
label keeps the label that is there, or takes it away if an earlier apply had
set it (`AppliedLevel`). `Outage`, `DeleteNamespace`, `NamespaceGone` and
`Recover` happen between any two steps.

`VerdictsAreTrue` states what the report is worth: in a calm cluster each count
lies between the documents that have to be counted there by the documents alone
(`Sure`) and those that may be (`May`). A document whose answer depends on what
the cluster holds besides widens the interval and changes nothing for the
others. For `examples/multi-tenancy/verify/oversized-pod.yaml` both
`rejectedAsExpected` and `wronglyAccepted` are possible, although the comment
at harness.mjs:112 names LimitRange fixtures among the intended rejections: in
a cluster where nobody applied the LimitRange it is reported among the
failures. That the verdict of a document says on what its answer depends is an
assumption about the documents: one that a leftover quota could refuse has to
be "policy".

### PageScript

An action per handler of `APP_JS`. What the browser runs later is state: toggle
events (`toggles`; several changes of one menu before delivery are one event),
hover timers (`timers`), fetches of the index (`fetches`, by the callback that
waits). Every key before the first reply starts a fetch of its own, replies and
failures come in any order, and the callback runs on the text that is in the
box by then. Of the index only the number of results of a query is kept.

`MCHandbook` puts these four modules into one instance. They share no state
while they run, so a behaviour is one of them, chosen in the initial state by
`machine`; the next-state relation and the fairness are the four modules' own.

## Runs

| Run | Checks | Instance |
|---|---|---|
| `queue_safety` | `TypeOK`, `NoDoubleProcessing`, `HolderNamedInRow`, `StrandedAccounted`, `CountersHonest`, `DoneIsFinal`, `StrandedForever` | 2 tasks, 2 workers, 2 sessions, 1 fault, 1 crash, 1 SIGTERM |
| `queue_live` | `ImplementsLifecycle`, `PendingIsServed`, `LoopNeverWedges` | 1 task, 2 workers, 2 sessions, 2 faults, 1 SIGTERM |
| `queue_sigterm` (violated) | `SigtermHandsBack` | no fault, no crash, 1 SIGTERM |
| `api_safety` | `TypeOK`, `NoRefusedClient`, `AcceptedIsAnswered`, `KilledOnlyInTrouble`, `ReadyzHonest`, `ProbeAnsweredInTime` | 2 clients whose bodies may come at any time, 1 probe, 1 readiness check, 1 scrape |
| `api_healthz` (violated) | `HealthzIgnoresDatabase` | 1 client, otherwise the same |
| `operator_safety` | `TypeOK`, `RestIsInSync`, `ObservedGenerationMonotone` | 2 replicas, 1 edit, 1 failed call, 1 handover, watches 1 version behind |
| `operator_live` | `Converges`, `ComesToRest` | 1 replica, 2 edits, 1 failed call, 1 restart, watches 2 versions behind |
| `operator_patch` (violated) | `PatchIsFresh` | 1 replica, 2 TaskQueues |
| `operator_fight` (violated) | `NobodyFights` | 2 replicas, 1 edit, 1 handover |
| `handbook`, site | `HandbookTypeOK`, `LinksLead`, `ReadingOrder`, `NothingHidden`, `NeverGoesBack`, `LastPushWins` | 4 pages in 3 parts, one of them in no menu; 2 edits or runs by hand, 2 pushes, builds and deployments that may fail |
| `handbook`, scanners | `ScannersAgree`, `AnchorsAgree`, `ChecksReach` | every kind of line, 3 indentations, boxes of 3 and 4 colons, all 11 info strings; pages of any length, 3 headings |
| `handbook`, harness | `VerdictsAreTrue` | 12 documents, 2 namespaces in any state, any context, 1 outage or deletion |
| `handbook`, browser | `OneMenuOpen`, `HoverKeepsOpen`, `ResultsFresh`, `QueryIsAnswered` | 2 menus, 2 queries, 2 fetches under way |
| `docker_run` | `TypeOK`, `PasswordFits`, `ServesOnlyMigrated`, `RunServes` | 3 passwords, 3 incidents |
| `docker_rerun` (violated) | `RerunServes` | 3 passwords, 1 incident |

**Why the bounds are enough.** Two workers and two tasks are what a conflict
over a row needs; two sessions let a statement that was abandoned be executed
next to a live one, of the same worker or of the other. One fault, one crash and
one SIGTERM meet in every order. In `ApiServer` one scrape at a time is what the
mutex analysis assumes (one Prometheus); the property `ReadyzHonest` counts
scrapes explicitly. The initial states of `TaskQueueOperator` already hold or
lack each object, so one edit is an edit of an installed system; a zombie
leader, its successor and one change of the spec are what a conflict on status
needs. In the operator a replica that lost its lease finishes the request at
hand and takes no other before it notices. In `DockerRun` the scripts may be run
any number of times; three incidents can fail in one run, in the clean-up after
it and in the run after that, and with three passwords a new one always differs
from what the two volumes hold. In `SitePipeline` an edit that breaks something
needs at most one partner (a link and a deletion, an anchor and a heading, a
page and a list), and two pushes are one that runs and one that overtakes it. In
`DocScan` pages have any length; what bounds the state is the number of headings
(three: two of the same text and one whose slug is the number that the second
gets, "A", "A", "A 2", in any order) and `HouseStyle`, which nests boxes only
with different numbers of colons, so two numbers give every nesting. The twelve
documents of `Harness` are one for each way through its conditions, among them a
namespace that is declared twice, the last time after the Pod that its level
makes illegal, one that is declared without a level, a fixture for a LimitRange
and Pods without a namespace; one trouble at any point is what the second half
of `VerdictsAreTrue` needs. In `PageScript` one menu is opened while another's
event is queued, and two fetches answer in either order.

**What the violated runs show.**

* `queue_sigterm`: a worker's sleep ends (`WorkDone`), then SIGTERM arrives,
  `Complete(ctx)` is refused because its context is cancelled, the loop ends.
  The row stays "processing" for good, against the comment at
  `worker/main.go:89`. Other ways to strand a task (crash, lost reply, failed
  `Complete`) need an incident each, as `StrandedAccounted` shows; nothing ever
  brings one back (`StrandedForever`).
* `api_healthz`: `/healthz` is answered after `countRequests` has had the
  metrics mutex, which a scrape holds while it waits up to a second for the
  database. With one scrape at a time the two-second probe timeout still
  suffices (`ProbeAnsweredInTime`), so an outage does not restart pods, but the
  comments that say the probe does not depend on the database are wrong.
* `operator_patch`: `client.MergeFrom` sends no resourceVersion, so a patch
  computed from an old copy is accepted, against the comment above it.
  `Converges` shows that the operator's own goal does not depend on it.
* `operator_fight`: a holder that was paused past its lease finishes its patch
  after its successor has acted on a newer spec, and scales the Deployment back.
  The next Deployment event repairs it.
* `docker_rerun`: the script is stopped while the database initialises its
  volume, and run again. `docker rm -f` kills the database, the next container
  finds a cluster without the application's database and does not initialise
  again, and the migration fails, now and on every later run, until the volumes
  are deleted. The header calls the script idempotent.

**Fairness.** A worker's goroutine, a session's server process and the kubelet
are weakly fair: each keeps running once it can. Nothing is assumed about
clients, faults, signals or the purge. In the operator, watches deliver, the
work queue is worked off, pods follow `replicas`, a free lease is taken and a
loser notices; edits and failures are not fair, and there are finitely many.
In `DockerRun` a script that was started goes on and so does the database;
nobody has to start a script, and the liveness properties speak of runs that
begin when the incidents are used up. In `SitePipeline` a workflow run goes on
until it ends; authors may stop, and nothing is assumed about them. In
`PageScript` every fetch ends with a reply or an error, as `fetch` does; nothing
is assumed about the reader, and toggle events and timers need no fairness for
the invariants.

**Deadlock** is checked for the queue, whose workers always poll, and for the
scripts, which always end or can be started. The API pod exits, the operator
comes to rest, authors stop and the harness ends, so their configurations switch
the check off; `ComesToRest` states the latter.

Every property of a passing run has a mutant in `PROJECT.json`: an operator of
the same module, marked "Mutant" where it is defined, that changes one mapped
definition the way a bug would, and that the property must catch.

## Proofs

`WorkerQueueProofs` proves, for any sets of tasks, workers and sessions and any
bounds, from `QueueAssumption` alone:

* `TypeCorrect`: `Spec => []TypeOK`;
* `Ownership`: `Spec => []IInv`, the inductive invariant;
* `NoDoubleProcessingHolds`, `HolderNamedInRowHolds`, `DoneIsFinalHolds`.

`NoDoubleProcessing` is not inductive: a reply on its way, or a Complete that
nobody waits for any more, gives a task to a worker as much as `pc` does. `IInv`
therefore says of every session what its statement still means: a locked row is
pending and locked once; a committed claim whose reply is awaited names a row
that is "processing" under the claimant's name and that nobody else holds; an
unexecuted Complete or Release names such a row too, and there is at most one
of these rights per task. `PhaseStep` and `TypeStep` prove the type part,
`OwnershipStep` has one step per action and, under the difficult ones, one per
conjunct. The theorems follow from `IInv` with a last temporal step (PTL).

Further on it proves, about the same specification:

* `StrandedAccountedHolds`: there are never more stranded tasks than incidents
  (a cardinality, for any number of workers). A task is often stranded long
  after the incident: SIGTERM strands it when the worker comes to its
  `Complete`, a lost connection when the server executes the abandoned claim.
  Until then the incident is a debt, of a worker told to stop (`AtRisk`) or of a
  claim nobody waits for (`Orphan`). The invariant `Debts` bounds stranded tasks
  and debts together by the incidents; every step either settles (nothing new),
  costs (one incident, one debt or task) or passes a debt on, and `Balance` is
  the arithmetic.
* `StrandedForeverHolds`: no late statement brings a stranded task back.
* `CountersHonestHolds`: the sum of a counter over any number of workers is the
  cardinality of a set of pairs (`Increments`), so that no recursion over the
  workers is needed. The bound is not inductive: a Complete that was executed
  and whose answer nobody has read (`Acknowledged`) and a statement that failed
  (`FailedReplies`) are increments to come. `DoneCovered` and `ErrorsCovered`
  bound both together; a step keeps each set, adds one member or takes one away
  (`Keeps`, `Grows`, `Loses`).

`LifecycleProofs` proves `ImplementsLifecycleHolds`, the refinement of
`TaskLifecycle`: the initial state maps to its initial state, and every step is
one of its steps or a stutter. `StageTable` turns the mapping's nested choice
into a table of disjoint cases, which `OneOwner` (from `IInv`) justifies;
`Same` and `Advance` then say that a step touches no task, or exactly one.

`ApiServerProofs` proves, for any number of requests of every kind and any
durations in the order that `ApiAssumption` states, `ApiTypeCorrect`,
`NoRefusedClientHolds`, `AcceptedIsAnsweredHolds` and
`KilledOnlyInTroubleHolds`. `QueueInv` (part of `TypeOK`): the mutex's queue
holds who wants the mutex, each once, and who waits for the database under it
is first. So while the database answers, somebody is always due
(`SomebodyDue`), time stands still until all requests are answered but those
that wait for their client, and `DrainInv` bounds how far time can have come at
each point of the shutdown. What the drain's deadline finds in flight is `Held`:
it still waits for its body, or the body came at the deadline (`late`), which is
what `AcceptedIsAnswered` excepts; `KilledOnlyInTrouble` needs no such exception,
because `Shutdown`'s deadline bounds the wait.

`ReadyzHonestHolds` and `ProbeAnsweredInTimeHolds` bound the age of one request
whatever the others do. `WaitInv` gives it an account: its age is at most the
ping's deadline (for a readiness check), one gauge deadline for every scrape
that has left the queue before it, and what the scrape at the head has taken,
and those scrapes together with the ones still before it (`Ahead`) are no more
than there are slots, because a scrape that comes back queues behind. `Moves`
says what a step does to the queue, and one lemma for each kind of move keeps the
account. That a probe is in time assumes `GaugeTimeout * Cardinality(Scrapes) <
ProbeTimeout`: one scrape of a second, and a probe's two seconds. `ApiAssumption`
says that a request is of one kind and that scrapes are finitely many.

`TaskQueueOperatorProofs` proves, for any number of replicas, TaskQueues, edits,
faults and handovers and any lag, from `OperatorAssumption`:
`OperatorTypeCorrect`, `RestIsInSyncHolds` and
`ObservedGenerationMonotoneHolds`. The inductive invariant (`Informed`) says of
each replica what it knows (`Known`: its caches, once their watches have
delivered, hold what the API server holds, and a copy taken for fresh is that
object) and why it cares (`Cares`: for every TaskQueue that is not in sync a
leader has an event on its way, a request queued or a Reconcile at work on
current copies). One lemma for each kind of write (`QueueWritten`,
`DeployWritten`), one for steps that write nothing (`Remembered`), and one per
action. For the generation, `Written` lists what a step may do to a TaskQueue.

`DockerRunProofs` proves, for any set of passwords and any number of incidents,
from `DockerAssumption` (the values of a volume differ):

* `Prepares`: `Spec => []IInv`, the inductive invariant;
* `DockerTypeCorrect`, `PasswordFitsHolds`, `ServesOnlyMigratedHolds`.

Here the invariant has to say how far the script has come: at each step the
network, the volumes, the password and the schema that the steps before it
provide are there (`Prepared`), and at the two steps that replace or delete a
password no cluster needs it (`Replaceable`). `LeftOver` counts the incidents a
clean-up has needed to get past containers that it could not remove: one at the
network, where Docker refuses and `set -e` stops it, two beyond it, which is why
`ServesOnlyMigrated` makes its exception at two. The steps are grouped by who takes
them, one lemma per group.

`HandbookProofs` proves about `SitePipeline`, for any pages, parts and menus and
any number of edits and pushes:

* `PublishedPasses` and `NeverGoesBackHolds`, from `RunsOfLast`: a run is always of
  the last commit, and past the check only if that commit passes;
* `LinksLeadHolds`, `NothingHiddenHolds`, `ReadingOrderHolds`, `SiteTypeCorrect`.
  They need two things more. The reading order flattens lists of lists, whose
  operator is recursive; `FlattensExists` gets the recursive function without
  induction, from a smallest counterexample (`LeastNumber`), and what follows
  says that flattening keeps exactly the members, each once if the lists are
  disjoint and name none twice. And an author cannot write everything: an anchor
  comes with a link, a list names pages of its part (`Sound`, kept by every edit).

It proves about `Harness`, for any documents, namespaces, tools and any number of
outages and deletions, `HarnessTypeCorrect` and `VerdictsAreTrueHolds`, from
`HarnessInv`: the phases come in their order (`OrderInv`), each manifest that was
asked about is counted once and, in a calm cluster, where the documents allow it
(`CountInv`, with cardinalities of the manifests so far), and what the namespace
pass has left for those it has seen (`CalmInv`): a namespace has the level of its
last declaration that says one, and namespaces that are named are there or about
to be created.

`HandbookTypeCorrect` puts four theorems together: the machines of `MCHandbook`
share no variable, so a behaviour of the whole is one of each, and
`HandbookTypeOK` follows from `SiteTypeCorrect`, `ScanTypeCorrect`,
`PageTypeCorrect` and `HarnessTypeCorrect`.

`DocScanProofs` proves, for any set of lines and any number of headings, for
pages of any length and containers of any depth, `ScannersAgreeHolds`,
`AnchorsAgreeHolds`, `ChecksReachHolds` and `ScanTypeCorrect`. The inductive
invariant `ScanInv` has six parts: what the author can have open (`PageInv`),
containers with numbers of colons of their own (`BoxesInv`), a renderer's stack
that is the author's containers with at most one item on top (`StackInv`, which
is where a line in a tab, in an item or after a closing colon is hard), every
other scanner inside the author's fence or in none (`FenceInv`), bans that skip
the outermost legacy callout and no other (`SkipInv`), and one table of headings
(`HeadsInv`, which rests on `UniqueSlugHolds`: among the numbers up to one more
than there are headings one is free, by the pigeonhole principle). One lemma per
part says that a line keeps it.

`PageScriptProofs` proves, for any number of menus, queries and fetches,
`PageTypeCorrect`, `OneMenuOpenHolds`, `HoverKeepsOpenHolds` and
`ResultsFreshHolds`. `OneMenuOpen` needs `Settled`: among the menus with no event
queued at most one is open, and `aria-expanded` is right for each of them.
`ResultsFresh` needs to know that an index, once there, is never lost again.

All safety invariants and action properties of the passing runs are proved, each
from the assumptions its module names. Only model-checked: the liveness
properties `PendingIsServed`, `LoopNeverWedges`, `Converges`, `ComesToRest`,
`LastPushWins`, `QueryIsAnswered` and `RunServes`, because fairness and ENABLED
are outside the prover.

## Not modelled

**Tasklane.** Request bodies and JSON, logging, the text of metrics and
conditions, the schema's CHECK constraints, start-up errors that end the process;
the pool's limit of ten connections; concurrent `CREATE TABLE IF NOT EXISTS` of
several init containers, a race inside PostgreSQL that the migrate mode retries;
a client that repeats a POST whose reply was lost; `healthcheck` modes (one
request, one exit code); a `WORK_DURATION_MS` longer than the liveness
probe allows. The operator's `/readyz`, which does not wait for the caches, delays
the first reconcile only.

**Scripts and manifests.** Lab and foundations scripts, manifests beyond the values
above, and all prose. Of the `docker run` scripts: the image check, two scripts
that run at once, and a migration container that outlives its interrupted
script. The test of the password file replaces a password when its container
cannot be run (run.sh:103, `CheckFails`), although the comment above it says that
one is only generated when the file is missing; `PasswordFits` excepts the case
by `fooled`.

**Site.** Files that earlier builds left in `docs/`, the top-level pages, the text
of the search index, the copy of `examples/`. A page listed twice in
`_part.json` keeps only its last place, and a part that no section of
`nav.json` names is in no menu; the check reports neither, and nothing in the
repository says it should.

**Renderer and checker.** Inline formatting, escaping, tables' cells, the
highlighter, the patterns of the bans, links wrapped over two lines (which
`validateLinks`, working line by line, does not see), the front matter (a list
item that is not indented ends the list, and the prerequisites are then empty
without a message), lists within lists, blocks within quotes; pages that are not
in house style, on which the scanners do differ. `ChecksReach` states what the
bans reach in the code. CONTRIBUTING.md:407 lists docker-compose, dockershim and
ingress-nginx without an exception for code, where check.mjs:346-357 does not
look for them, and a block in YAML whose title does not end in `.yaml` meets
neither the dry run (harness.mjs:90) nor an error of `validateCodeBlocks`.

**Harness.** `capture.mjs`; the text of what tools answer. Two things follow from
that text: any error counts as the expected rejection of a fixture, a missing
CRD too (line 200), and any answer with "webhook" in it counts as an offline
webhook, a denial too (line 205). A tool on PATH but not in `.tools` is
reported NOT RUN for some tools, although the comment at line 14 names both places.

**Browser.** The theme, the copy buttons, the tabs and the scroll-spy, one handler
each that writes its own attributes; the text of results and their URLs (which
leave out the page's relative root, line 665); Enter on a hidden list, which
the model takes as the code does and no property judges.
