----------------------------- MODULE MCHandbook -----------------------------
(* The handbook's tools and its site.  They share no state while they run, *)
(* so a behaviour is one of them: the variable "machine" says which.       *)
EXTENDS SitePipeline, DocScan, PageScript, Harness, TLC

CONSTANTS p1, p2, p3, p4, m1, m2, qa, qb, n1, n2

VARIABLE machine

-----------------------------------------------------------------------------
(* SitePipeline: two parts in nav.json, one of two pages and one of one,   *)
(* and a part that nav.json does not name.                                 *)
MCPages == {p1, p2, p3, p4}
MCPartOf == (p1 :> "docker") @@ (p2 :> "docker") @@ (p3 :> "k8s") @@ (p4 :> "drafts")
MCNavParts == <<"docker", "k8s">>

(* PageScript: a query with results and one without.                       *)
MCHits == (qa :> 2) @@ (qb :> 0)

(* DocScan: every kind of line, three indentations, and containers of two  *)
(* numbers of colons.                                                      *)
Line(k, ch, n, ind, w) == [k |-> k, c |-> ch, n |-> n, ind |-> ind, w |-> w]
MCLines ==
  {Line(k, "none", 0, 0, "none") : k \in {"blank", "rule", "html", "quote", "row", "tab"}}
  \cup {Line("text", "none", 0, i, w) : i \in {0, 2, 3}, w \in {"none", "manifest"}}
  \cup {Line("head", "none", 0, 0, w) : w \in {"A", "A-2"}}
  \cup {Line("item", "none", n, 0, "none") : n \in {2, 3}}
  \cup {Line("fence", "tick", 3, 2, "none")}
  \cup {Line("fence", "tick", 3, i, w) : i \in {0, 3}, w \in Infos}
  \cup {Line("open", "none", 3, 0, w) : w \in {"note", "legacy"}}
  \cup {Line("open", "none", 4, 0, w) : w \in {"tabs", "legacy"}}
  \cup {Line("close", "none", n, 0, "none") : n \in {3, 4}}

(* Harness: documents that are accepted, refused, missing or left to       *)
(* another tool; a namespace declared with its level after the Pod that    *)
(* the level refuses; one declared without a level and a Pod whose answer  *)
(* depends on it; a fixture for a LimitRange, an add-on's object, and a    *)
(* Pod for the context's namespace.                                        *)
Doc == [via |-> "example", exists |-> TRUE, object |-> TRUE, elsewhere |-> FALSE,
        expect |-> FALSE, path |-> FALSE, old |-> FALSE, schema |-> TRUE,
        declares |-> NoNamespace, level |-> "unsaid", ns |-> NoNamespace,
        global |-> FALSE, verdict |-> "accept"]
MCDocuments ==
  << [Doc EXCEPT !.via = "inline", !.ns = n1, !.verdict = "psa"],
     [Doc EXCEPT !.via = "include", !.expect = TRUE, !.ns = n1, !.verdict = "refuse"],
     [Doc EXCEPT !.via = "include", !.exists = FALSE],
     [Doc EXCEPT !.declares = n2, !.global = TRUE, !.level = "open"],
     [Doc EXCEPT !.path = TRUE, !.ns = n2, !.verdict = "psa"],
     [Doc EXCEPT !.path = TRUE, !.ns = n2, !.verdict = "policy"],
     [Doc EXCEPT !.elsewhere = TRUE],
     [Doc EXCEPT !.verdict = "removed"],
     [Doc EXCEPT !.ns = n2, !.verdict = "addon"],
     [Doc EXCEPT !.verdict = "psa"],
     [Doc EXCEPT !.declares = n1, !.global = TRUE],
     [Doc EXCEPT !.declares = n2, !.global = TRUE, !.level = "restricted"] >>
MCOnly == {ToSet(Phases), {"dockerfiles", "compose"}}
MCLocalTools == {{}, {"kubeconform", "pluto", "hadolint", "helm"}}

-----------------------------------------------------------------------------
handbookVars == <<machine, vars, scanVars, pageVars, harnessVars>>

HandbookInit ==
  /\ machine \in {"site", "scan", "page", "harness"}
  /\ Init /\ ScanInit /\ PageInit /\ HarnessInit
  /\ machine # "site" => tree.listed["docker"] = <<p1, p2>>

HandbookNext ==
  \/ machine = "site" /\ Next /\ UNCHANGED <<machine, scanVars, pageVars, harnessVars>>
  \/ machine = "scan" /\ ScanNext /\ UNCHANGED <<machine, vars, pageVars, harnessVars>>
  \/ machine = "page" /\ PageNext /\ UNCHANGED <<machine, vars, scanVars, harnessVars>>
  \/ machine = "harness" /\ HarnessNext /\ UNCHANGED <<machine, vars, scanVars, pageVars>>

(* The fairness of each machine; the others never take a step.             *)
HandbookSpec ==
  HandbookInit /\ [][HandbookNext]_handbookVars /\ WF_vars(Workflow) /\ PageFairness

(* The types of the machine that runs.                                     *)
HandbookTypeOK ==
  CASE machine = "site"    -> TypeOK
    [] machine = "scan"    -> ScanTypeOK
    [] machine = "page"    -> PageTypeOK
    [] machine = "harness" -> HarnessTypeOK
=============================================================================
