------------------------------ MODULE Harness ------------------------------
(***************************************************************************)
(* scripts/harness.mjs: collects the manifests of the handbook and gives   *)
(* them to kubeconform, to the API server as a dry run and to pluto, then  *)
(* checks Dockerfiles, Compose files, charts and overlays.                 *)
(*                                                                         *)
(* The run takes minutes and the cluster is the reader's: meanwhile the    *)
(* API server can go away and a lab's namespace can be deleted.  Tools     *)
(* that keep to local files are one step.                                  *)
(***************************************************************************)
EXTENDS Integers, Sequences, SequencesExt, FiniteSets

CONSTANTS
  Documents,    (* the YAML documents of content/ and examples/, in order   *)
  Namespaces,   (* the namespaces they name                                 *)
  NoNamespace,
  Only,         (* what --only= may say                                     *)
  LocalTools,   (* what may be in .tools                                    *)
  MaxTroubles   (* bound: outages and deleted namespaces                    *)

Phases == <<"manifests", "dockerfiles", "compose", "helm", "kustomize">>
Names == Namespaces \cup {NoNamespace}

(* A document: where it is found; whether an included file is there, it is *)
(* a Kubernetes object, its path is left to another tool; what says that   *)
(* it shall be rejected; whether its source is about old APIs and its      *)
(* schema is valid; the namespace it declares, with a label for its level  *)
(* or without ("unsaid"); the first namespace it names, and whether it is  *)
(* of the whole cluster and belongs to none.  The verdict says on what the *)
(* API server's answer depends: nothing ("accept", "refuse"), the level of *)
(* the namespace ("psa"), policies such as a LimitRange or a quota that    *)
(* labs leave ("policy"), whether an add-on with its CRDs and webhook is   *)
(* installed ("addon"); or its API version is gone ("removed").            *)
Verdicts == {"accept", "refuse", "psa", "policy", "addon", "removed"}
Levels == {"open", "restricted"}

Document == [via : {"inline", "include", "example"},
             exists : BOOLEAN, object : BOOLEAN, elsewhere : BOOLEAN,
             expect : BOOLEAN, path : BOOLEAN, old : BOOLEAN, schema : BOOLEAN,
             declares : Names, level : Levels \cup {"unsaid"},
             ns : Names, global : BOOLEAN, verdict : Verdicts]

ASSUME HarnessAssumption ==
  /\ Documents \in Seq(Document)
  /\ NoNamespace \notin Namespaces /\ Only \subseteq SUBSET ToSet(Phases)
  /\ LocalTools \subseteq SUBSET {"kubeconform", "pluto", "hadolint", "helm"}
  /\ MaxTroubles \in Nat

VARIABLES
  step,       (* what the script does next                                  *)
  want, withCluster, local, docker,  (* arguments and tools of this run     *)
  items,      (* the manifests that were gathered                           *)
  at,         (* how many of them the loop has done                         *)
  nsNames,    (* namespaces still to create                                 *)
  counts,     (* the verdicts of the dry run so far                         *)
  summary,    (* what was recorded                                          *)
  up,         (* whether the API server can be reached                      *)
  space,      (* the namespaces of the cluster                              *)
  context,    (* the namespace of kubectl's context, NoNamespace for the    *)
              (* default one                                                *)
  troubles,   (* outages and deletions so far                               *)
  calm        (* none of them reached into the dry run                      *)

setup == <<want, withCluster, local, docker>>
cluster == <<up, space, context, troubles, calm>>
harnessVars == <<step, setup, items, at, nsNames, counts, summary, cluster>>

NoCounts == [pass |-> 0, realFail |-> 0, rejectedAsExpected |-> 0,
             wronglyAccepted |-> 0, skipCrd |-> 0, skipNs |-> 0, skipOther |-> 0]

HarnessInit ==
  /\ step = "start" /\ want = {} /\ withCluster = FALSE /\ local = {} /\ docker = FALSE
  /\ items = <<>> /\ at = 0 /\ nsNames = {} /\ counts = NoCounts
  /\ summary = [k \in {} |-> "not-run"]
  /\ up = TRUE /\ space = [n \in Namespaces |-> "absent"] /\ context = NoNamespace
  /\ troubles = 0 /\ calm = TRUE

Record(s, key, v) == [k \in DOMAIN s \cup {key} |-> IF k = key THEN v ELSE s[k]]

(* The next phase after this one that is wanted.                           *)
After(phase, wanted) ==
  LET place == CHOOSE i \in 0 .. 5 : IF phase = "start" THEN i = 0
                                     ELSE i > 0 /\ Phases[i] = phase
      left == {i \in place + 1 .. 5 : Phases[i] \in wanted}
  IN IF left = {} THEN "done" ELSE Phases[CHOOSE i \in left : \A j \in left : i <= j]

-----------------------------------------------------------------------------
(* The cluster holds what earlier labs left in it, and the context points  *)
(* where they set it.                                                      *)
Start ==
  /\ step = "start"
  /\ want' \in Only /\ withCluster' \in BOOLEAN /\ local' \in LocalTools /\ docker' \in BOOLEAN
  /\ up' \in BOOLEAN
  /\ space' \in [Namespaces -> {"absent", "open", "restricted", "terminating"}]
  /\ context' \in Names
  /\ step' = After("start", want')
  /\ UNCHANGED <<items, at, nsNames, counts, summary, troubles, calm>>

Gathered(doc) ==
  /\ doc.object
  /\ doc.via = "include" => doc.exists
  /\ doc.via = "example" => ~doc.elsewhere

Rejected(doc) ==
  CASE doc.via = "inline"  -> doc.expect
    [] doc.via = "include" -> doc.expect \/ doc.path
    [] doc.via = "example" -> doc.path

Manifests ==
  FlattenSeq([i \in DOMAIN Documents |->
    IF Gathered(Documents[i]) THEN <<Documents[i]>> ELSE <<>>])

gatherManifests ==
  /\ step = "manifests"
  /\ items' = Manifests
  /\ summary' = Record(summary, "manifests-extracted", "done")
  /\ step' = "kubeconform"
  /\ UNCHANGED <<setup, at, nsNames, counts, cluster>>

(* kubeconform has to be in .tools; on PATH it is not found.               *)
runKubeconform ==
  /\ step = "kubeconform"
  /\ LET verdict == CASE "kubeconform" \notin local -> "not-run"
                      [] "kubeconform" \in local ->
                           IF \A i \in DOMAIN items : items[i].schema THEN "valid" ELSE "failed"
         recorded == Record(summary, "kubeconform", verdict)
     IN IF withCluster
        THEN step' = "cluster-info" /\ summary' = recorded
        ELSE /\ step' = After("manifests", want)
             /\ summary' = Record(Record(recorded, "kubectl-dry-run", "not-run"),
                                  "pluto", "not-run")
  /\ UNCHANGED <<setup, items, at, nsNames, counts, cluster>>

clusterInfo ==
  /\ step = "cluster-info"
  /\ IF up THEN step' = "namespaces" /\ UNCHANGED summary
           ELSE /\ step' = "pluto"
                /\ summary' = Record(summary, "kubectl-dry-run", "not-run")
  /\ calm' = \A n \in Namespaces : space[n] # "terminating"
  /\ at' = 0 /\ counts' = NoCounts
  /\ UNCHANGED <<setup, items, nsNames, up, space, context, troubles>>

(* Mutant: a namespace that is there already is left as it is.             *)
ApplyNamespaceIfAbsent(it) ==
  IF it.declares # NoNamespace /\ up /\ space[it.declares] = "absent"
  THEN space' = [space EXCEPT ![it.declares] = IF it.level = "unsaid" THEN "open" ELSE it.level]
  ELSE space' = space

(* The level after a declaration is applied; a declaration without a label *)
(* takes away the one that an apply before it had set, and no other.       *)
AppliedLevel(state, level) ==
  IF level = "unsaid" THEN {"open"} \cup ({state} \cap Levels) ELSE {level}

(* A namespace manifest is applied, whatever comes of it; a namespace that *)
(* is being deleted takes the labels and goes on.                          *)
ApplyNamespace(it) ==
  IF it.declares # NoNamespace /\ up /\ space[it.declares] # "terminating"
  THEN \E level \in AppliedLevel(space[it.declares], it.level) :
         space' = [space EXCEPT ![it.declares] = level]
  ELSE space' = space

namespacePass ==
  /\ step = "namespaces" /\ at < Len(items)
  /\ ApplyNamespace(items[at + 1])
  /\ nsNames' = nsNames \cup ({items[at + 1].ns} \cap Namespaces)
  /\ at' = at + 1
  /\ UNCHANGED <<step, setup, items, counts, summary, up, context, troubles, calm>>

(* An error, because the namespace is there, say, is passed over.          *)
createNamespace(n) ==
  /\ step = "namespaces" /\ at = Len(items) /\ n \in nsNames
  /\ nsNames' = nsNames \ {n}
  /\ space' = IF up /\ space[n] = "absent" THEN [space EXCEPT ![n] = "open"] ELSE space
  /\ UNCHANGED <<step, setup, items, at, counts, summary, up, context, troubles, calm>>

allCreated ==
  /\ step = "namespaces" /\ at = Len(items) /\ nsNames = {}
  /\ step' = "dry-run" /\ at' = 0
  /\ UNCHANGED <<setup, items, nsNames, counts, summary, cluster>>

(* What the API server answers to a document whose namespace is in this    *)
(* state; of policies and add-ons the cluster has some or none.            *)
InState(verdict, state) ==
  CASE state = "absent"      -> {"nons"}
    [] state = "terminating" -> {"refuse"}
    [] state \in Levels -> CASE verdict = "psa"    -> {IF state = "open" THEN "accept" ELSE "refuse"}
                             [] verdict = "policy" -> {"accept", "refuse"}
                             [] verdict = "addon"  -> {"accept", "webhook"}
                             [] OTHER -> {verdict}

Among(verdict, states) ==
  IF verdict = "removed" THEN {"nocrd"}
  ELSE (IF verdict = "addon" THEN {"nocrd"} ELSE {})
         \cup UNION {InState(verdict, state) : state \in states}

(* A document without a namespace goes to the context's.                   *)
States(it) ==
  LET n == IF it.ns = NoNamespace THEN context ELSE it.ns
  IN CASE it.global -> {"open"}
       [] ~it.global /\ n = NoNamespace -> Levels
       [] OTHER -> {space[n]}

(* What comes of a dry run; no answer means that a connection is refused   *)
(* or that kubectl runs into its timeout.                                  *)
Answers(it) == IF up THEN Among(it.verdict, States(it)) ELSE {"webhook", "refuse"}

Counter(reject, answer) ==
  IF reject THEN IF answer = "accept" THEN "wronglyAccepted" ELSE "rejectedAsExpected"
  ELSE CASE answer = "accept"  -> "pass"
         [] answer = "nocrd"   -> "skipCrd"
         [] answer = "nons"    -> "skipNs"
         [] answer = "webhook" -> "skipOther"
         [] OTHER              -> "realFail"

runServerDryRun ==
  /\ step = "dry-run" /\ at < Len(items)
  /\ \E answer \in Answers(items[at + 1]) :
       counts' = [counts EXCEPT ![Counter(Rejected(items[at + 1]), answer)] = @ + 1]
  /\ at' = at + 1
  /\ UNCHANGED <<step, setup, items, nsNames, summary, cluster>>

recordDryRun ==
  /\ step = "dry-run" /\ at = Len(items)
  /\ summary' = Record(summary, "kubectl-dry-run", "done")
  /\ step' = "pluto"
  /\ UNCHANGED <<setup, items, at, nsNames, counts, cluster>>

(* From docker, an image that cannot be pulled counts as a finding.        *)
runPluto ==
  /\ step = "pluto"
  /\ LET found == \E i \in DOMAIN items : items[i].verdict = "removed" /\ ~items[i].old
         said  == {IF found THEN "found" ELSE "clean"}
     IN \E verdict \in CASE "pluto" \in local -> said
                         [] "pluto" \notin local /\ docker -> said \cup {"found"}
                         [] OTHER -> {"not-run"} :
          summary' = Record(summary, "pluto", verdict)
  /\ step' = After("manifests", want)
  /\ UNCHANGED <<setup, items, at, nsNames, counts, cluster>>

(* The phases that only look at files: whether the tool is there decides.  *)
Finish(phase, key, verdict) ==
  /\ step = phase /\ step' = After(phase, want)
  /\ summary' = Record(summary, key, verdict)
  /\ UNCHANGED <<setup, items, at, nsNames, counts, cluster>>

runDockerfiles ==
  Finish("dockerfiles", "hadolint",
         IF "hadolint" \in local \/ docker THEN "done" ELSE "not-run")

runCompose == Finish("compose", "compose", IF docker THEN "done" ELSE "not-run")

runHelm == Finish("helm", "helm", IF "helm" \in local THEN "done" ELSE "not-run")

(* Without kubeconform the overlays are built and not validated.           *)
runKustomize ==
  Finish("kustomize", "kustomize",
         IF "kubeconform" \in local THEN "validated" ELSE "built")

-----------------------------------------------------------------------------
(* Meanwhile in the cluster.                                               *)

Trouble ==
  /\ step \notin {"start", "done"}
  /\ troubles < MaxTroubles /\ troubles' = troubles + 1
  /\ calm' = FALSE
  /\ UNCHANGED <<step, setup, items, at, nsNames, counts, summary, context>>

Outage == up /\ up' = FALSE /\ UNCHANGED space /\ Trouble

DeleteNamespace(n) ==
  /\ space[n] \in {"open", "restricted"}
  /\ space' = [space EXCEPT ![n] = "terminating"]
  /\ UNCHANGED up /\ Trouble

NamespaceGone(n) ==
  /\ space[n] = "terminating" /\ space' = [space EXCEPT ![n] = "absent"]
  /\ UNCHANGED <<step, setup, items, at, nsNames, counts, summary, up, context, troubles, calm>>

Recover ==
  /\ step \notin {"start", "done"}
  /\ ~up /\ up' = TRUE
  /\ UNCHANGED <<step, setup, items, at, nsNames, counts, summary, space, context, troubles, calm>>

HarnessScript ==
  \/ Start \/ gatherManifests \/ runKubeconform \/ clusterInfo
  \/ namespacePass \/ (\E n \in Namespaces : createNamespace(n)) \/ allCreated
  \/ runServerDryRun \/ recordDryRun \/ runPluto
  \/ runDockerfiles \/ runCompose \/ runHelm \/ runKustomize

HarnessNext ==
  \/ HarnessScript
  \/ Outage \/ Recover
  \/ \E n \in Namespaces : DeleteNamespace(n) \/ NamespaceGone(n)

HarnessSpec == HarnessInit /\ [][HarnessNext]_harnessVars

-----------------------------------------------------------------------------
(* Properties                                                              *)

HarnessTypeOK ==
  /\ want \subseteq ToSet(Phases) /\ withCluster \in BOOLEAN
  /\ items \in {<<>>, Manifests}
  /\ at \in 0 .. Len(items) /\ nsNames \subseteq Namespaces
  /\ \A c \in DOMAIN counts : counts[c] \in 0 .. Len(items)
  /\ space \in [Namespaces -> {"absent", "open", "restricted", "terminating"}]
  /\ context \in Names
  /\ up \in BOOLEAN /\ calm \in BOOLEAN /\ troubles \in 0 .. MaxTroubles

(* Of the first so many documents, this one is the last to declare its     *)
(* namespace, and it says the level.                                       *)
Decides(j, upto) ==
  /\ j <= upto /\ items[j].declares # NoNamespace /\ items[j].level # "unsaid"
  /\ \A k \in j + 1 .. upto : items[k].declares # items[j].declares

(* The states a document's namespace can be in, by the documents alone.    *)
Declared(it) ==
  CASE it.global -> {"open"}
    [] ~it.global /\ it.ns = NoNamespace -> Levels \cup {"absent"}
    [] OTHER -> {l \in Levels : \A j \in DOMAIN items :
                   Decides(j, Len(items)) /\ items[j].declares = it.ns => items[j].level = l}

(* Where a document may be counted, by the documents alone.                *)
Outcomes(it) ==
  {Counter(Rejected(it), answer) : answer \in Among(it.verdict, Declared(it))}

Sure(c) == {i \in DOMAIN items : Outcomes(items[i]) = {c}}
May(c)  == {i \in DOMAIN items : c \in Outcomes(items[i])}

DryRunDone == "kubectl-dry-run" \in DOMAIN summary /\ summary["kubectl-dry-run"] = "done"

(* If nothing disturbs the cluster, what earlier labs left in it changes    *)
(* the report only for the documents whose verdict depends on it: policies, *)
(* add-ons, the level of a namespace that no document declares with one,    *)
(* the context's namespace.  Every other document is counted where its own  *)
(* namespace's last declaration puts it, whether that namespace was there   *)
(* before and with whatever level, and none that names a namespace is       *)
(* skipped for it.  If something does disturb it, every document is still   *)
(* counted once, none passes that the API server refuses everywhere, and a  *)
(* removed API that the dry run takes for a missing CRD is found by pluto.  *)
VerdictsAreTrue ==
  DryRunDone =>
    /\ calm => \A c \in DOMAIN counts :
                 Cardinality(Sure(c)) <= counts[c] /\ counts[c] <= Cardinality(May(c))
    /\ \A i \in DOMAIN items : items[i].verdict = "removed" /\ ~items[i].old =>
         ("pluto" \in DOMAIN summary => summary["pluto"] \in {"found", "not-run"})
    /\ counts.pass <= Cardinality({i \in DOMAIN items :
         ~Rejected(items[i]) /\ items[i].verdict \notin {"refuse", "removed"}})
    /\ counts.pass + counts.realFail + counts.rejectedAsExpected + counts.wronglyAccepted
         + counts.skipCrd + counts.skipNs + counts.skipOther = Len(items)
=============================================================================
