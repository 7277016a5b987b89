---------------------------- MODULE SitePipeline ----------------------------
(***************************************************************************)
(* The handbook's site: authors edit pages and lists, and push; a workflow *)
(* checks every push (check.mjs), builds it (build.mjs) and deploys it.    *)
(*                                                                         *)
(* A page is what other pages can tell of it: whether it has a heading     *)
(* that links may point to, and its own link and prerequisite.  A tree is  *)
(* a working copy or a commit: content/ with its _part.json lists.  The    *)
(* files that earlier builds left in docs/ are not part of it: a build     *)
(* writes every page that has a source and deletes none.                   *)
(***************************************************************************)
EXTENDS Integers, Sequences, SequencesExt, FiniteSets, FiniteSetsExt, Functions

CONSTANTS
  Pages, PartOf,  (* the pages that can be written, and the part of each    *)
  NavParts,       (* nav.json: the parts of all sections, in order          *)
  None,           (* no page: absent, or nothing to link to                 *)
  MaxEdits,       (* bound: edits, and runs that are started by hand        *)
  MaxPushes,      (* bound: pushes                                          *)
  MaxList         (* bound: length of a _part.json list                     *)

Parts == Range(PartOf)

ASSUME SiteAssumption ==
  /\ PartOf \in [Pages -> Parts] /\ None \notin Pages
  /\ NavParts \in Seq(Parts) /\ IsInjective(NavParts)
  /\ MaxEdits \in Nat /\ MaxPushes \in Nat /\ MaxList \in Nat

VARIABLES
  tree,       (* the author's working copy                                  *)
  commits,    (* what was pushed to main, in order                          *)
  runs,       (* the workflow's runs that have not ended                    *)
  published,  (* the commit the site was built from, 0 before the first     *)
  broken,     (* the build or the deployment of the last run failed         *)
  edits       (* edits and runs by hand so far                              *)

vars == <<tree, commits, runs, published, broken, edits>>

Page == [to : Pages \cup {None}, anchor : BOOLEAN, prereq : Pages \cup {None},
         heading : BOOLEAN]
NewPage == [to |-> None, anchor |-> FALSE, prereq |-> None, heading |-> FALSE]

Lists == [Parts -> UNION {[1 .. n -> Pages] : n \in 0 .. MaxList}]
Tree == [content : [Pages -> Page \cup {None}], listed : Lists]

Present(t) == {p \in Pages : t.content[p] # None}

-----------------------------------------------------------------------------
(* build.mjs                                                               *)

(* The reading order: the pages of all lists that exist.                   *)
Existing(t, list) ==
  FlattenSeq([i \in DOMAIN list |->
    IF t.content[list[i]] # None THEN <<list[i]>> ELSE <<>>])

Linear(t) ==
  FlattenSeq([i \in DOMAIN NavParts |-> Existing(t, t.listed[NavParts[i]])])

(* linearIndex: the last place of a page in the order, 0 when it has none. *)
Place(order, p) == Max({0} \cup {i \in DOMAIN order : order[i] = p})

Prev(order, p) == IF Place(order, p) > 1 THEN order[Place(order, p) - 1] ELSE None

(* Mutant: the page before the last has no next one.                       *)
NextShort(order, p) ==
  IF Place(order, p) \in 1 .. Len(order) - 2 THEN order[Place(order, p) + 1] ELSE None

NextPage(order, p) ==
  IF Place(order, p) \in 1 .. Len(order) - 1 THEN order[Place(order, p) + 1] ELSE None

(* The page that is written.  A link is rendered whether its target exists *)
(* or not; a prerequisite that does not exist leads nowhere.               *)
Rendered(t, order, p) ==
  LET page == t.content[p] IN
  [to |-> page.to, anchor |-> page.anchor, heading |-> page.heading,
   prereq |-> IF page.prereq \in Present(t) THEN page.prereq ELSE None,
   prev |-> Prev(order, p), next |-> NextPage(order, p)]

Build(t) ==
  LET order == Linear(t) IN [p \in Present(t) |-> Rendered(t, order, p)]

(* The menu that every page carries.                                       *)
Menu(t) == Range(Linear(t))

-----------------------------------------------------------------------------
(* check.mjs                                                               *)

Orphans(t) == {p \in Present(t) : p \notin Range(t.listed[PartOf[p]])}

BadPrereqs(t) ==
  {p \in Present(t) : t.content[p].prereq \notin Present(t) \cup {None}}

(* Mutant: anchors are only looked for in the page itself.                 *)
BadLinksSamePage(t) ==
  {p \in Present(t) : LET page == t.content[p] IN
     \/ page.to \notin Present(t) \cup {None}
     \/ page.anchor /\ page.to = p /\ ~page.heading}

BadLinks(t) ==
  {p \in Present(t) : LET page == t.content[p] IN
     \/ page.to \notin Present(t) \cup {None}
     \/ page.anchor /\ page.to \in Present(t) /\ ~t.content[page.to].heading}

(* Mutant: orphans are only warned about.                                  *)
PassesWithOrphans(t) == BadPrereqs(t) = {} /\ BadLinks(t) = {}

Passes(t) == Orphans(t) = {} /\ BadPrereqs(t) = {} /\ BadLinks(t) = {}

-----------------------------------------------------------------------------
(* A first version: every page is written, without links, and is in the    *)
(* list of its part.                                                       *)
Init ==
  /\ \E lists \in Lists :
       /\ \A part \in Parts :
            /\ IsInjective(lists[part])
            /\ Range(lists[part]) = {p \in Pages : PartOf[p] = part}
       /\ tree = [content |-> [p \in Pages |-> NewPage], listed |-> lists]
  /\ commits = <<>> /\ runs = {} /\ published = 0 /\ broken = FALSE /\ edits = 0

(* The author.                                                             *)
Edit(new) ==
  /\ edits < MaxEdits /\ edits' = edits + 1
  /\ tree' = new
  /\ UNCHANGED <<commits, runs, published, broken>>

WritePage(p) ==
  /\ tree.content[p] = None
  /\ Edit([tree EXCEPT !.content[p] = NewPage])

DeletePage(p) ==
  /\ tree.content[p] # None
  /\ Edit([tree EXCEPT !.content[p] = None])

EditLink(p) ==
  /\ tree.content[p] # None
  /\ \E to \in Pages \cup {None}, anchor \in BOOLEAN :
       /\ anchor => to # None
       /\ Edit([tree EXCEPT !.content[p].to = to, !.content[p].anchor = anchor])

EditPrereq(p) ==
  /\ tree.content[p] # None
  /\ \E q \in Pages \cup {None} : Edit([tree EXCEPT !.content[p].prereq = q])

EditHeading(p) ==
  /\ tree.content[p] # None
  /\ Edit([tree EXCEPT !.content[p].heading = ~@])

EditList(part) ==
  \E n \in 0 .. MaxList : \E list \in [1 .. n -> {p \in Pages : PartOf[p] = part}] :
    Edit([tree EXCEPT !.listed[part] = list])

-----------------------------------------------------------------------------
(* The workflow.                                                           *)

NewRun == [rev |-> Len(commits) + 1, step |-> "check"]
Pushed(newRuns) ==
  /\ Len(commits) < MaxPushes
  /\ commits' = Append(commits, tree)
  /\ runs' = newRuns /\ broken' = FALSE
  /\ UNCHANGED <<tree, published, edits>>

(* Mutant: without the concurrency group, runs go on side by side.         *)
PushBeside == Pushed(runs \cup {NewRun})

(* Mutant: a push during a run does not start one of its own.              *)
PushUnlessBusy == Pushed(IF runs = {} THEN {NewRun} ELSE runs)

(* cancel-in-progress: a new run puts an end to the one before it.         *)
Push == Pushed({NewRun})

(* workflow_dispatch: the last commit once more, in the same group.        *)
Dispatch ==
  /\ commits # <<>> /\ edits < MaxEdits /\ edits' = edits + 1
  /\ runs' = {[rev |-> Len(commits), step |-> "check"]}
  /\ broken' = FALSE
  /\ UNCHANGED <<tree, commits, published>>

(* The first step that fails ends the run.                                 *)
CheckRun(r) ==
  /\ r.step = "check"
  /\ runs' = (runs \ {r}) \cup
       (IF Passes(commits[r.rev]) THEN {[r EXCEPT !.step = "build"]} ELSE {})
  /\ UNCHANGED <<tree, commits, published, broken, edits>>

BuildRun(r) ==
  /\ r.step = "build"
  /\ runs' = (runs \ {r}) \cup {[r EXCEPT !.step = "deploy"]}
  /\ UNCHANGED <<tree, commits, published, broken, edits>>

(* build.mjs throws, or a step of the workflow around it fails: the run    *)
(* ends, and nobody starts it again but a person.                          *)
FailRun(r) ==
  /\ r.step \in {"build", "deploy"}
  /\ runs' = runs \ {r} /\ broken' = TRUE
  /\ UNCHANGED <<tree, commits, published, edits>>

Deploy(r) ==
  /\ r.step = "deploy"
  /\ published' = r.rev
  /\ runs' = runs \ {r}
  /\ UNCHANGED <<tree, commits, broken, edits>>

Author ==
  \/ \E p \in Pages : WritePage(p) \/ DeletePage(p) \/ EditLink(p) \/ EditPrereq(p)
                      \/ EditHeading(p)
  \/ \E part \in Parts : EditList(part)
  \/ Push \/ Dispatch

Workflow == \E r \in runs : CheckRun(r) \/ BuildRun(r) \/ FailRun(r) \/ Deploy(r)

Next == Author \/ Workflow

Spec == Init /\ [][Next]_vars

(* A run goes on until it ends; authors may stop at any time.              *)
FairSpec == Spec /\ WF_vars(Workflow)

-----------------------------------------------------------------------------
(* The types, with at most one run and nothing published before a push.    *)
TypeOK ==
  /\ tree \in Tree
  /\ \A i \in DOMAIN commits : commits[i] \in Tree
  /\ Len(commits) <= MaxPushes /\ edits \in 0 .. MaxEdits
  /\ published \in 0 .. Len(commits)
  /\ runs \subseteq [rev : 1 .. Len(commits), step : {"check", "build", "deploy"}]
  /\ Cardinality(runs) <= 1 /\ broken \in BOOLEAN

(* The tree that the site was built from.                                  *)
Current == commits[published]

(* On the published site no page leads to one that has no source any more, *)
(* by whatever link (its old file may still be in docs/, so nobody would   *)
(* notice), and every anchor is there.                                     *)
LinksLead ==
  published > 0 => LET site == Build(Current) IN
    \A p \in DOMAIN site :
      /\ {site[p].to, site[p].prereq, site[p].prev, site[p].next}
           \subseteq DOMAIN site \cup {None}
      /\ site[p].anchor => site[site[p].to].heading

(* Unless a page is listed twice, "next" and "previous" are each other's   *)
(* inverse on the published site and only the two ends of the reading      *)
(* order lack one.                                                         *)
ReadingOrder ==
  published > 0 /\ IsInjective(Linear(Current)) =>
    LET site == Build(Current)
        Ends(link(_)) == {p \in Menu(Current) : link(p) = None}
    IN /\ \A p, q \in DOMAIN site : site[p].next = q <=> site[q].prev = p
       /\ Cardinality(Ends(LAMBDA p : site[p].next)) <= 1
       /\ Cardinality(Ends(LAMBDA p : site[p].prev)) <= 1

(* Every published page of a part in nav.json is in the menu.              *)
NothingHidden ==
  published > 0 =>
    {p \in Present(Current) : PartOf[p] \in Range(NavParts)} = Menu(Current)

(* The site is never replaced by an older state of the repository.         *)
NeverGoesBack == [][published' >= published]_vars

(* When the authors stop, the site shows their last push, if it passes the *)
(* check, unless the build or the deployment of the last run there was     *)
(* failed.                                                                 *)
LastPushWins ==
  <>[](commits # <<>> /\ Passes(Last(commits)) => published = Len(commits) \/ broken)
=============================================================================
