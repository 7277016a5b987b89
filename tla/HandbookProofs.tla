--------------------------- MODULE HandbookProofs ---------------------------
(***************************************************************************)
(* Proofs about SitePipeline, for any set of pages and parts and any       *)
(* number of edits and pushes, and about Harness, for any documents,       *)
(* namespaces and number of outages and deletions.                         *)
(*                                                                         *)
(* The site: a run is always of the last commit, because a push and a      *)
(* start by hand end the run before them.  So whatever is deployed is the  *)
(* newest commit there is, and it went through the check; what the check   *)
(* demands is enough for the links, the menu and the order of what build   *)
(* makes of that commit.                                                   *)
(*                                                                         *)
(* The harness: the pass over the namespaces leaves all that the documents *)
(* declare or name, each with the level of its last declaration, so that   *)
(* in a calm cluster the answer to a document is one that the documents    *)
(* allow; and a document is counted when it is asked about, once.          *)
(*                                                                         *)
(* At the end the types of MCHandbook, which puts these two, DocScan and   *)
(* PageScript side by side, follow from those of the four.                 *)
(***************************************************************************)
EXTENDS MCHandbook, DocScanProofs, PageScriptProofs

(* The working copy and the commits.                                       *)
Sources == tree \in Tree /\ commits \in Seq(Tree)

(* Runs are of the last commit and past the check only if it passes, and   *)
(* so did the commit that is online.                                       *)
RunsInv ==
  /\ published \in 0 .. Len(commits)
  /\ \A r \in runs :
       /\ r \in [rev : Nat, step : {"check", "build", "deploy"}]
       /\ commits # <<>> /\ r.rev = Len(commits)
       /\ r.step # "check" => Passes(commits[r.rev])
  /\ published > 0 => Passes(commits[published])

-----------------------------------------------------------------------------
(* An edit of a page leaves a tree.                                        *)
LEMMA PageEdited ==
  ASSUME NEW t \in Tree, NEW p \in Pages, NEW edited \in Page \cup {None}
  PROVE  [t EXCEPT !.content[p] = edited] \in Tree
<1>1. t.content \in [Pages -> Page \cup {None}] /\ t.listed \in Lists
  BY DEF Tree
<1> DEFINE c == [t.content EXCEPT ![p] = edited]
<1>2. c \in [Pages -> Page \cup {None}]
  BY <1>1
<1>3. [t EXCEPT !.content[p] = edited] = [t EXCEPT !.content = c]
  BY DEF Tree
<1> HIDE DEF c
<1>4. [t EXCEPT !.content = c] \in Tree
  BY <1>1, <1>2 DEF Tree
<1> QED BY <1>3, <1>4

(* And so does an edit of a list.                                          *)
LEMMA ListEdited ==
  ASSUME NEW t \in Tree, NEW part \in Parts, NEW n \in 0 .. MaxList, NEW names \in [1 .. n -> Pages]
  PROVE  [t EXCEPT !.listed[part] = names] \in Tree
<1>1. t.content \in [Pages -> Page \cup {None}] /\ t.listed \in Lists
  BY DEF Tree
<1> DEFINE l == [t.listed EXCEPT ![part] = names]
<1>2. l \in Lists
  BY <1>1 DEF Lists
<1>3. [t EXCEPT !.listed[part] = names] = [t EXCEPT !.listed = l]
  BY DEF Tree
<1> HIDE DEF l
<1>4. [t EXCEPT !.listed = l] \in Tree
  BY <1>1, <1>2 DEF Tree
<1> QED BY <1>3, <1>4

(* The edits of a page.                                                    *)
LEMMA PageSteps ==
  ASSUME tree \in Tree, NEW p \in Pages,
         WritePage(p) \/ DeletePage(p) \/ EditLink(p) \/ EditPrereq(p) \/ EditHeading(p)
  PROVE  tree' \in Tree /\ UNCHANGED <<commits, runs, published, broken>>
<1>1. NewPage \in Page \cup {None} /\ None \in Page \cup {None}
  BY DEF NewPage, Page
<1>2. CASE WritePage(p)
  BY <1>1, <1>2, PageEdited DEF WritePage, Edit
<1>3. CASE DeletePage(p)
  BY <1>1, <1>3, PageEdited DEF DeletePage, Edit
<1>4. PICK q : q = tree.content[p]
  OBVIOUS
<1>5. q # None => q \in Page
  BY <1>4 DEF Tree
<1>6. CASE EditLink(p)
  <2>1. PICK to \in Pages \cup {None}, anchor \in BOOLEAN :
          Edit([tree EXCEPT !.content[p].to = to, !.content[p].anchor = anchor])
    BY <1>6 DEF EditLink
  <2>2. [q EXCEPT !.to = to, !.anchor = anchor] \in Page
    BY <1>4, <1>5, <1>6 DEF EditLink, Page
  <2>3. PICK edited \in Page : edited = [q EXCEPT !.to = to, !.anchor = anchor]
    BY <2>2
  <2>4. [tree EXCEPT !.content[p].to = to, !.content[p].anchor = anchor]
           = [tree EXCEPT !.content[p] = edited]
    BY <1>4, <2>3 DEF Tree
  <2> QED BY <2>1, <2>3, <2>4, PageEdited DEF Edit
<1>7. CASE EditPrereq(p)
  <2>1. PICK other \in Pages \cup {None} : Edit([tree EXCEPT !.content[p].prereq = other])
    BY <1>7 DEF EditPrereq
  <2>2. [q EXCEPT !.prereq = other] \in Page
    BY <1>4, <1>5, <1>7 DEF EditPrereq, Page
  <2>3. PICK edited \in Page : edited = [q EXCEPT !.prereq = other]
    BY <2>2
  <2>4. [tree EXCEPT !.content[p].prereq = other] = [tree EXCEPT !.content[p] = edited]
    BY <1>4, <2>3 DEF Tree
  <2> QED BY <2>1, <2>3, <2>4, PageEdited DEF Edit
<1>8. CASE EditHeading(p)
  <2>1. PICK edited : edited = [q EXCEPT !.heading = ~@]
    OBVIOUS
  <2>2. edited \in Page
    BY <1>4, <1>5, <1>8, <2>1 DEF EditHeading, Page
  <2>3. [tree EXCEPT !.content[p].heading = ~@] = [tree EXCEPT !.content[p] = edited]
    BY <1>4, <2>1 DEF Tree
  <2> QED BY <1>8, <2>2, <2>3, PageEdited DEF EditHeading, Edit
<1> QED BY <1>2, <1>3, <1>6, <1>7, <1>8

(* The author's edits leave a tree, and leave what was pushed alone.       *)
LEMMA EditSteps ==
  ASSUME tree \in Tree, NEW part \in Parts, EditList(part)
  PROVE  tree' \in Tree /\ UNCHANGED <<commits, runs, published, broken>>
<1>0. PICK n \in 0 .. MaxList : \E names \in [1 .. n -> {p \in Pages : PartOf[p] = part}] :
        Edit([tree EXCEPT !.listed[part] = names])
  BY DEF EditList
<1>1. PICK names \in [1 .. n -> {p \in Pages : PartOf[p] = part}] :
        Edit([tree EXCEPT !.listed[part] = names])
  BY <1>0
<1>2. names \in [1 .. n -> Pages]
  OBVIOUS
<1>3. PICK new : new = [tree EXCEPT !.listed[part] = names]
  OBVIOUS
<1>4. new \in Tree
  BY <1>2, <1>3, ListEdited
<1> QED BY <1>1, <1>3, <1>4 DEF Edit

-----------------------------------------------------------------------------
(* A first version of every page, and nothing pushed.                      *)
LEMMA InvInit == Init => Sources /\ RunsInv
<1> SUFFICES ASSUME Init PROVE Sources /\ RunsInv
  OBVIOUS
<1>1. PICK lists \in Lists : tree = [content |-> [p \in Pages |-> NewPage], listed |-> lists]
  BY DEF Init
<1>2. NewPage \in Page
  BY DEF NewPage, Page
<1>3. tree \in Tree
  BY <1>1, <1>2 DEF Tree
<1>4. commits = <<>> /\ runs = {} /\ published = 0
  BY DEF Init
<1> QED BY <1>3, <1>4 DEF Sources, RunsInv

(* A push: the new commit is the last one and its run the only one.        *)
LEMMA PushKept ==
  ASSUME Sources, RunsInv, Push
  PROVE  Sources' /\ RunsInv'
<1>1. /\ commits' = Append(commits, tree) /\ runs' = {NewRun}
      /\ UNCHANGED <<tree, published>>
  BY DEF Push, Pushed
<1>2. /\ commits \in Seq(Tree) /\ tree \in Tree /\ Len(commits) \in Nat
  BY DEF Sources
<1>3. /\ commits' \in Seq(Tree) /\ Len(commits') = Len(commits) + 1 /\ commits' # <<>>
      /\ \A i \in 1 .. Len(commits) : commits'[i] = commits[i]
  BY <1>1, <1>2
<1>5. published \in 0 .. Len(commits) /\ (published > 0 => Passes(commits[published]))
  BY DEF RunsInv
<1>6. published' \in 0 .. Len(commits')
  BY <1>1, <1>2, <1>3, <1>5
<1>7. published > 0 => commits'[published] = commits[published]
  BY <1>2, <1>3, <1>5
<1>8. published' > 0 => Passes(commits'[published'])
  BY <1>1, <1>5, <1>7
<1>9. NewRun.rev = Len(commits') /\ NewRun.step = "check"
      /\ NewRun \in [rev : Nat, step : {"check", "build", "deploy"}]
  BY <1>2, <1>3 DEF NewRun
<1>10. \A r \in runs' : r = NewRun
  BY <1>1
<1> QED BY <1>1, <1>2, <1>3, <1>6, <1>8, <1>9, <1>10 DEF Sources, RunsInv, Passes, Orphans,
           BadPrereqs, BadLinks, Present

(* A step of the run.                                                      *)
LEMMA RunKept ==
  ASSUME Sources, RunsInv, NEW r \in runs, CheckRun(r) \/ BuildRun(r) \/ FailRun(r) \/ Deploy(r)
  PROVE  RunsInv'
<1>1. /\ r \in [rev : Nat, step : {"check", "build", "deploy"}] /\ commits # <<>>
      /\ r.rev = Len(commits) /\ (r.step # "check" => Passes(commits[r.rev]))
  BY DEF RunsInv
<1>2. Len(commits) \in Nat /\ Len(commits) > 0
  BY <1>1 DEF Sources
<1>3. CASE CheckRun(r) \/ BuildRun(r)
  <2>1. UNCHANGED <<commits, published>>
    BY <1>3 DEF CheckRun, BuildRun
  <2>2. ASSUME NEW s \in runs'
        PROVE  /\ s \in [rev : Nat, step : {"check", "build", "deploy"}] /\ s.rev = Len(commits)
               /\ s.step # "check" => Passes(commits[s.rev])
    <3>1. CASE s \in runs
      BY <3>1 DEF RunsInv
    <3>2. CASE s = [r EXCEPT !.step = "build"] /\ Passes(commits[r.rev])
      BY <1>1, <3>2
    <3>3. CASE s = [r EXCEPT !.step = "deploy"] /\ r.step = "build"
      BY <1>1, <3>3
    <3> QED BY <1>3, <2>2, <3>1, <3>2, <3>3 DEF CheckRun, BuildRun
  <2> QED BY <1>1, <2>1, <2>2 DEF RunsInv
<1>4. CASE Deploy(r)
  <2>1. published' = r.rev /\ runs' \subseteq runs /\ UNCHANGED commits /\ r.step = "deploy"
    BY <1>4 DEF Deploy
  <2>2. published' \in 0 .. Len(commits) /\ Passes(commits[published'])
    BY <1>1, <1>2, <2>1
  <2> QED BY <2>1, <2>2 DEF RunsInv
<1>5. CASE FailRun(r)
  <2>1. runs' \subseteq runs /\ UNCHANGED <<commits, published>>
    BY <1>5 DEF FailRun
  <2> QED BY <2>1 DEF RunsInv
<1> QED BY <1>3, <1>4, <1>5

(* The workflow is started by hand, for the last commit.                   *)
LEMMA DispatchKept ==
  ASSUME Sources, RunsInv, Dispatch
  PROVE  RunsInv'
<1>1. /\ commits # <<>> /\ runs' = {[rev |-> Len(commits), step |-> "check"]}
      /\ UNCHANGED <<commits, published>>
  BY DEF Dispatch
<1>2. Len(commits) \in Nat
  BY DEF Sources
<1> QED BY <1>1, <1>2 DEF RunsInv

(* Every step keeps both.                                                  *)
LEMMA InvNext == Sources /\ RunsInv /\ [Next]_vars => Sources' /\ RunsInv'
<1> SUFFICES ASSUME Sources, RunsInv, [Next]_vars PROVE Sources' /\ RunsInv'
  OBVIOUS
<1>1. ASSUME UNCHANGED <<commits, runs, published>>, tree' \in Tree PROVE Sources' /\ RunsInv'
  BY <1>1 DEF Sources, RunsInv
<1>2. CASE Push
  BY <1>2, PushKept
<1>3. CASE Dispatch
  <2>1. UNCHANGED <<tree, commits>>
    BY <1>3 DEF Dispatch
  <2> QED BY <1>3, <2>1, DispatchKept DEF Sources
<1>4. CASE Workflow
  <2>1. UNCHANGED <<tree, commits>>
    BY <1>4 DEF Workflow, CheckRun, BuildRun, FailRun, Deploy
  <2> QED BY <1>4, <2>1, RunKept DEF Workflow, Sources
<1>5. CASE UNCHANGED vars
  BY <1>1, <1>5 DEF vars, Sources
<1>6. ASSUME NEW p \in Pages, WritePage(p) \/ DeletePage(p) \/ EditLink(p) \/ EditPrereq(p) \/ EditHeading(p)
      PROVE  Sources' /\ RunsInv'
  BY <1>1, <1>6, PageSteps DEF Sources
<1>7. ASSUME NEW part \in Parts, EditList(part) PROVE Sources' /\ RunsInv'
  BY <1>1, <1>7, EditSteps DEF Sources
<1> QED BY <1>2, <1>3, <1>4, <1>5, <1>6, <1>7 DEF Next, Author

(* Runs are of the last commit, and past the check only if it passes.      *)
THEOREM RunsOfLast == Spec => [](Sources /\ RunsInv)
BY InvInit, InvNext, PTL DEF Spec

(* No more edits and pushes than the bounds allow, and one run at most.    *)
Bounds ==
  /\ Len(commits) <= MaxPushes /\ edits \in 0 .. MaxEdits
  /\ broken \in BOOLEAN /\ \E r : runs \subseteq {r}

(* An edit counts as one.                                                  *)
LEMMA EditBounds ==
  ASSUME Bounds, edits < MaxEdits, edits' = edits + 1, UNCHANGED commits
  PROVE  Len(commits') <= MaxPushes /\ edits' \in 0 .. MaxEdits
<1>1. MaxEdits \in Nat
  BY SiteAssumption
<1> QED BY <1>1 DEF Bounds

(* A step of the run leaves that run, or none.                             *)
LEMMA OneRun ==
  ASSUME Bounds, NEW r \in runs, NEW new, runs' \subseteq (runs \ {r}) \cup {new}
  PROVE  \E q : runs' \subseteq {q}
<1>1. runs \subseteq {r}
  BY DEF Bounds
<1>2. runs' \subseteq {new}
  BY <1>1
<1> QED BY <1>2

(* Every step keeps the bounds.                                            *)
LEMMA BoundsNext == Sources /\ RunsInv /\ Bounds /\ [Next]_vars => Bounds'
<1> SUFFICES ASSUME Sources, RunsInv, Bounds, [Next]_vars PROVE Bounds'
  OBVIOUS
<1>1. ASSUME UNCHANGED <<commits, runs, broken>>, edits < MaxEdits, edits' = edits + 1
      PROVE  Bounds'
  BY <1>1, EditBounds DEF Bounds
<1>2. CASE Push
  <2>1. /\ Len(commits) < MaxPushes /\ commits' = Append(commits, tree)
        /\ runs' = {NewRun} /\ broken' = FALSE /\ UNCHANGED edits
    BY <1>2 DEF Push, Pushed
  <2>2. Len(commits') = Len(commits) + 1 /\ Len(commits) \in Nat
    BY <2>1 DEF Sources
  <2>3. Len(commits') <= MaxPushes
    BY <2>1, <2>2, SiteAssumption
  <2> QED BY <2>1, <2>3 DEF Bounds
<1>3. CASE Dispatch
  <2>1. edits < MaxEdits /\ edits' = edits + 1 /\ broken' = FALSE /\ UNCHANGED commits
        /\ runs' = {[rev |-> Len(commits), step |-> "check"]}
    BY <1>3 DEF Dispatch
  <2> QED BY <2>1, EditBounds DEF Bounds
<1>4. ASSUME NEW r \in runs, CheckRun(r) \/ BuildRun(r) \/ FailRun(r) \/ Deploy(r)
      PROVE  Bounds'
  <2>1. UNCHANGED <<commits, edits>> /\ broken' \in BOOLEAN
    BY <1>4 DEF CheckRun, BuildRun, FailRun, Deploy, Bounds
  <2>2. CASE CheckRun(r)
    <3>1. runs' \subseteq (runs \ {r}) \cup {[r EXCEPT !.step = "build"]}
      BY <2>2 DEF CheckRun
    <3> QED BY <2>1, <3>1, OneRun DEF Bounds
  <2>3. CASE BuildRun(r)
    <3>1. runs' \subseteq (runs \ {r}) \cup {[r EXCEPT !.step = "deploy"]}
      BY <2>3 DEF BuildRun
    <3> QED BY <2>1, <3>1, OneRun DEF Bounds
  <2>4. CASE Deploy(r)
    <3>1. runs' \subseteq runs
      BY <2>4 DEF Deploy
    <3> QED BY <2>1, <3>1 DEF Bounds
  <2>5. CASE FailRun(r)
    <3>1. runs' \subseteq runs
      BY <2>5 DEF FailRun
    <3> QED BY <2>1, <3>1 DEF Bounds
  <2> QED BY <1>4, <2>2, <2>3, <2>4, <2>5
<1>5. CASE UNCHANGED vars
  BY <1>5 DEF vars, Bounds
<1>6. ASSUME NEW p \in Pages, WritePage(p) \/ DeletePage(p) \/ EditLink(p) \/ EditPrereq(p) \/ EditHeading(p)
      PROVE  Bounds'
  BY <1>1, <1>6 DEF WritePage, DeletePage, EditLink, EditPrereq, EditHeading, Edit
<1>7. ASSUME NEW part \in Parts, EditList(part) PROVE Bounds'
  BY <1>1, <1>7 DEF EditList, Edit
<1> QED BY <1>2, <1>3, <1>4, <1>5, <1>6, <1>7 DEF Next, Author, Workflow

(* The types, with one run at a time: a push and a start by hand end the   *)
(* run before them.                                                        *)
THEOREM SiteTypeCorrect == Spec => []TypeOK
<1>1. Init => Bounds
  <2>1. MaxPushes \in Nat /\ MaxEdits \in Nat
    BY SiteAssumption
  <2>2. Init => broken \in BOOLEAN /\ runs \subseteq {0}
    BY DEF Init
  <2>3. Init => Len(commits) <= MaxPushes /\ edits \in 0 .. MaxEdits
    BY <2>1 DEF Init
  <2> QED BY <2>2, <2>3 DEF Bounds
<1>2. Sources /\ RunsInv /\ Bounds => TypeOK
  <2> SUFFICES ASSUME Sources, RunsInv, Bounds PROVE TypeOK
    OBVIOUS
  <2>1. \A i \in DOMAIN commits : commits[i] \in Tree
    BY DEF Sources
  <2>2. runs \subseteq [rev : 1 .. Len(commits), step : {"check", "build", "deploy"}]
    <3>1. ASSUME NEW r \in runs
          PROVE  r \in [rev : 1 .. Len(commits), step : {"check", "build", "deploy"}]
      <4>1. /\ r \in [rev : Nat, step : {"check", "build", "deploy"}] /\ commits # <<>>
            /\ r.rev = Len(commits)
        BY DEF RunsInv
      <4>2. r.rev \in 1 .. Len(commits)
        BY <4>1 DEF Sources
      <4> QED BY <4>1, <4>2
    <3> QED BY <3>1
  <2>3. Cardinality(runs) <= 1
    <3>1. PICK r : runs \subseteq {r}
      BY DEF Bounds
    <3>2. IsFiniteSet({r}) /\ Cardinality({r}) = 1
      BY FS_Singleton
    <3> QED BY <3>1, <3>2, FS_Subset
  <2> QED BY <2>1, <2>2, <2>3 DEF Sources, RunsInv, Bounds, TypeOK
<1> QED BY <1>1, <1>2, InvInit, InvNext, BoundsNext, PTL DEF Spec

(* What is online went through the check: no link, prerequisite or anchor  *)
(* of it is broken and no page is missing in its list.                     *)
THEOREM PublishedPasses == Spec => [](published > 0 => Passes(Current))
<1>1. RunsInv => (published > 0 => Passes(Current))
  BY DEF RunsInv, Current
<1> QED BY <1>1, RunsOfLast, PTL

(* The site is never replaced by an older state of the repository.         *)
THEOREM NeverGoesBackHolds == Spec => NeverGoesBack
<1>1. ASSUME Sources, RunsInv, [Next]_vars PROVE [published' >= published]_vars
  <2>1. Len(commits) \in Nat /\ published \in 0 .. Len(commits)
    BY <1>1 DEF Sources, RunsInv
  <2>2. ASSUME NEW r \in runs, Deploy(r) PROVE published' >= published
    BY <1>1, <2>1, <2>2 DEF Deploy, RunsInv
  <2>3. CASE UNCHANGED published
    BY <2>1, <2>3
  <2>4. UNCHANGED published \/ \E r \in runs : Deploy(r)
    BY <1>1 DEF Next, Author, Workflow, WritePage, DeletePage, EditLink, EditPrereq,
       EditHeading,
       EditList, Edit, Push, Pushed, Dispatch, CheckRun, BuildRun, FailRun, vars
  <2> QED BY <2>2, <2>3, <2>4
<1> QED BY <1>1, RunsOfLast, PTL DEF Spec, NeverGoesBack

-----------------------------------------------------------------------------
(* Lists of lists.                                                         *)

(* A set of numbers has a least one.                                       *)
LEMMA LeastNumber ==
  ASSUME NEW T \in SUBSET Nat, T # {}
  PROVE  \E n \in T : \A m \in T : n <= m
<1>1. IsWellFoundedOn(OpToRel(<, Nat), Nat)
  BY NatLessThanWellFounded
<1>2. PICK n \in T : \A m \in T : ~(<<m, n>> \in OpToRel(<, Nat))
  BY <1>1, WFMin
<1>3. \A m \in T : ~(m < n)
  BY <1>2 DEF OpToRel
<1> QED BY <1>3

(* The steps of flattening lists: the first list, then one more appended.  *)
Flattens(f, seqs, n) ==
  f = [i \in 1 .. n |-> IF i = 1 THEN seqs[i] ELSE f[i - 1] \o seqs[i]]

(* There are such steps for any number of lists.                           *)
LEMMA FlattensExists ==
  ASSUME NEW seqs, NEW n \in Nat \ {0}
  PROVE  \E f : Flattens(f, seqs, n)
<1> DEFINE Missing == {m \in Nat \ {0} : ~ \E f : Flattens(f, seqs, m)}
<1> SUFFICES ASSUME Missing # {} PROVE FALSE
  OBVIOUS
<1>1. PICK m \in Missing : \A k \in Missing : m <= k
  BY LeastNumber
<1>2. m # 1
  <2>1. Flattens([i \in 1 .. 1 |-> seqs[i]], seqs, 1)
    BY DEF Flattens
  <2> QED BY <2>1
<1>3. m - 1 \in Nat \ {0} /\ m - 1 \notin Missing
  BY <1>1, <1>2
<1>4. PICK g : Flattens(g, seqs, m - 1)
  BY <1>3
<1> DEFINE f == [i \in 1 .. m |-> IF i = m THEN g[m - 1] \o seqs[m] ELSE g[i]]
<1>5. \A i \in 1 .. m : f[i] = IF i = 1 THEN seqs[i] ELSE f[i - 1] \o seqs[i]
  <2> SUFFICES ASSUME NEW i \in 1 .. m PROVE f[i] = IF i = 1 THEN seqs[i] ELSE f[i - 1] \o seqs[i]
    OBVIOUS
  <2>1. CASE i = m
    <3>1. f[i - 1] = g[i - 1]
      BY <1>2, <1>3, <2>1
    <3> QED BY <1>2, <1>3, <2>1, <3>1
  <2>2. CASE i # m
    <3>1. i \in 1 .. m - 1 /\ f[i] = g[i] /\ (i # 1 => i - 1 \in 1 .. m - 1 /\ f[i - 1] = g[i - 1])
      BY <1>3, <2>2
    <3>2. g[i] = IF i = 1 THEN seqs[i] ELSE g[i - 1] \o seqs[i]
      BY <1>4, <3>1 DEF Flattens
    <3> QED BY <3>1, <3>2
  <2> QED BY <2>1, <2>2
<1>6. Flattens(f, seqs, m)
  <2>1. f = [i \in 1 .. m |-> f[i]]
    OBVIOUS
  <2> HIDE DEF f
  <2> QED BY <1>5, <2>1 DEF Flattens
<1> QED BY <1>6

(* Flattening a list of lists gives what they hold, in one list.           *)
LEMMA FlattenHolds ==
  ASSUME NEW S, NEW seqs \in Seq(Seq(S))
  PROVE  /\ FlattenSeq(seqs) \in Seq(S)
         /\ Range(FlattenSeq(seqs)) = UNION {Range(seqs[i]) : i \in DOMAIN seqs}
<1>1. CASE Len(seqs) = 0
  BY <1>1 DEF FlattenSeq, Range
<1>2. CASE Len(seqs) # 0
  <2> DEFINE n == Len(seqs)
             f == CHOOSE flatten : flatten =
                    [i \in 1 .. n |-> IF i = 1 THEN seqs[i] ELSE flatten[i - 1] \o seqs[i]]
  <2>1. n \in Nat \ {0} /\ DOMAIN seqs = 1 .. n /\ \A i \in 1 .. n : seqs[i] \in Seq(S)
    BY <1>2
  <2>2. f = [i \in 1 .. n |-> IF i = 1 THEN seqs[i] ELSE f[i - 1] \o seqs[i]]
    BY <2>1, FlattensExists DEF Flattens
  <2>3. FlattenSeq(seqs) = f[n]
    BY <1>2 DEF FlattenSeq
  <2> HIDE DEF f, n
  <2> DEFINE Good(m) == /\ f[m] \in Seq(S)
                        /\ \A x : x \in Range(f[m]) <=> \E i \in 1 .. m : x \in Range(seqs[i])
             Bad == {m \in 1 .. n : ~Good(m)}
  <2>4. Bad = {}
    <3> SUFFICES ASSUME Bad # {} PROVE FALSE
      OBVIOUS
    <3>1. PICK m \in Bad : \A k \in Bad : m <= k
      <4>1. Bad \subseteq Nat
        BY <2>1
      <4> QED BY <4>1, LeastNumber
    <3>2. CASE m = 1
      <4>1. f[m] = seqs[m] /\ 1 .. m = {m} /\ seqs[m] \in Seq(S)
        BY <2>1, <2>2, <3>2
      <4>2. Good(m)
        BY <4>1
      <4> QED BY <3>1, <4>2
    <3>3. CASE m # 1
      <4>0. m \in 1 .. n
        OBVIOUS
      <4>1. m - 1 \in 1 .. n /\ ~(m <= m - 1) /\ 1 .. m = (1 .. m - 1) \cup {m}
        <5> HIDE DEF Bad
        <5> QED BY <2>1, <3>3, <4>0
      <4>2. Good(m - 1)
        BY <3>1, <4>1
      <4>3. f[m] = f[m - 1] \o seqs[m] /\ seqs[m] \in Seq(S)
        BY <2>1, <2>2, <3>3
      <4>4. \A s, t \in Seq(S) : s \o t \in Seq(S) /\ Range(s \o t) = Range(s) \cup Range(t)
        <5> SUFFICES ASSUME NEW s \in Seq(S), NEW t \in Seq(S)
                     PROVE  s \o t \in Seq(S) /\ Range(s \o t) = Range(s) \cup Range(t)
          OBVIOUS
        <5>1. /\ s \o t \in Seq(S) /\ Len(s \o t) = Len(s) + Len(t)
              /\ \A i \in 1 .. Len(s) : (s \o t)[i] = s[i]
              /\ \A i \in 1 .. Len(t) : (s \o t)[Len(s) + i] = t[i]
              /\ \A i \in 1 .. Len(s) + Len(t) : i \in 1 .. Len(s) \/ i - Len(s) \in 1 .. Len(t)
              /\ DOMAIN s = 1 .. Len(s) /\ DOMAIN t = 1 .. Len(t)
              /\ DOMAIN (s \o t) = 1 .. Len(s) + Len(t)
              /\ \A i \in 1 .. Len(t) : Len(s) + i \in 1 .. Len(s) + Len(t)
              /\ 1 .. Len(s) \subseteq 1 .. Len(s) + Len(t)
          OBVIOUS
        <5>2. Range(s \o t) \subseteq Range(s) \cup Range(t)
          BY <5>1 DEF Range
        <5>3. Range(s) \cup Range(t) \subseteq Range(s \o t)
          BY <5>1 DEF Range
        <5> QED BY <5>1, <5>2, <5>3
      <4>5. f[m] \in Seq(S) /\ Range(f[m]) = Range(f[m - 1]) \cup Range(seqs[m])
        BY <4>2, <4>3, <4>4
      <4>6. \A x : x \in Range(f[m]) <=> \E i \in 1 .. m : x \in Range(seqs[i])
        BY <4>1, <4>2, <4>5
      <4>7. Good(m)
        BY <4>5, <4>6
      <4> QED BY <4>7
    <3> QED BY <3>2, <3>3
  <2>5. Good(n)
    <3>1. n \in 1 .. n
      BY <2>1
    <3>2. n \notin Bad
      BY <2>4
    <3> QED BY <3>1, <3>2
  <2> HIDE DEF Good
  <2>6. f[n] \in Seq(S) /\ \A x : x \in Range(f[n]) <=> \E i \in 1 .. n : x \in Range(seqs[i])
    BY <2>5 DEF Good
  <2> QED BY <2>1, <2>3, <2>6
<1> QED BY <1>1, <1>2

-----------------------------------------------------------------------------
(* What authors write.                                                     *)

(* A list names pages of its part, and an anchor is an anchor of a link.   *)
Sound(t) ==
  /\ \A part \in Parts : Range(t.listed[part]) \subseteq {p \in Pages : PartOf[p] = part}
  /\ \A p \in Present(t) : t.content[p].anchor => t.content[p].to # None

AllSound == Sound(tree) /\ \A i \in 1 .. Len(commits) : Sound(commits[i])

(* An edit of a page whose anchor comes with a link keeps a tree sound,    *)
(* and so does a list of pages of its part.                                *)
LEMMA SoundEdited ==
  ASSUME NEW t \in Tree, Sound(t)
  PROVE  /\ \A p \in Pages, edited \in Page \cup {None} :
              (edited # None /\ edited.anchor => edited.to # None) => Sound([t EXCEPT !.content[p] = edited])
         /\ \A part \in Parts, n \in Nat : \A l \in [1 .. n -> {p \in Pages : PartOf[p] = part}] :
              Sound([t EXCEPT !.listed[part] = l])
<1>1. t.content \in [Pages -> Page \cup {None}] /\ t.listed \in Lists
  BY DEF Tree
<1>2. ASSUME NEW p \in Pages, NEW edited \in Page \cup {None}, edited # None /\ edited.anchor => edited.to # None
      PROVE  Sound([t EXCEPT !.content[p] = edited])
  <2> DEFINE u == [t EXCEPT !.content[p] = edited]
  <2>1. u.listed = t.listed /\ u.content = [t.content EXCEPT ![p] = edited]
    BY DEF Tree
  <2> HIDE DEF u
  <2>2. \A q \in Present(u) : u.content[q].anchor => u.content[q].to # None
    BY <1>1, <1>2, <2>1 DEF Sound, Present
  <2>3. Sound(u)
    BY <2>1, <2>2 DEF Sound
  <2> QED BY <2>3 DEF u
<1>3. ASSUME NEW part \in Parts, NEW n \in Nat, NEW l \in [1 .. n -> {p \in Pages : PartOf[p] = part}]
      PROVE  Sound([t EXCEPT !.listed[part] = l])
  <2> DEFINE u == [t EXCEPT !.listed[part] = l]
  <2>1. u.content = t.content /\ u.listed = [t.listed EXCEPT ![part] = l] /\ DOMAIN t.listed = Parts
    BY <1>1 DEF Tree, Lists
  <2> HIDE DEF u
  <2>2. Range(l) \subseteq {p \in Pages : PartOf[p] = part}
    BY DEF Range
  <2>3. \A other \in Parts : Range(u.listed[other]) \subseteq {p \in Pages : PartOf[p] = other}
    BY <2>1, <2>2 DEF Sound
  <2>4. Sound(u)
    BY <2>1, <2>3 DEF Sound, Present
  <2> QED BY <2>4 DEF u
<1> QED BY <1>2, <1>3

(* The author's edits of a page.                                           *)
LEMMA PagesSound ==
  ASSUME tree \in Tree, Sound(tree), NEW p \in Pages,
         WritePage(p) \/ DeletePage(p) \/ EditLink(p) \/ EditPrereq(p) \/ EditHeading(p)
  PROVE  Sound(tree')
<1>0. PICK q : q = tree.content[p]
  OBVIOUS
<1>1. q # None => q \in Page /\ (q.anchor => q.to # None)
  BY <1>0 DEF Tree, Sound, Present
<1>2. CASE WritePage(p) \/ DeletePage(p)
  <2>1. NewPage \in Page /\ ~NewPage.anchor
    BY DEF NewPage, Page
  <2> QED BY <1>2, <2>1, SoundEdited DEF WritePage, DeletePage, Edit
<1>3. CASE EditLink(p)
  <2>1. PICK to \in Pages \cup {None}, anchor \in BOOLEAN :
          /\ anchor => to # None
          /\ Edit([tree EXCEPT !.content[p].to = to, !.content[p].anchor = anchor])
    BY <1>3 DEF EditLink
  <2>2. PICK edited : edited = [q EXCEPT !.to = to, !.anchor = anchor]
    OBVIOUS
  <2>3. edited \in Page /\ edited.to = to /\ edited.anchor = anchor
    BY <1>0, <1>1, <1>3, <2>2 DEF EditLink, Page
  <2>4. [tree EXCEPT !.content[p].to = to, !.content[p].anchor = anchor]
           = [tree EXCEPT !.content[p] = edited]
    BY <1>0, <2>2 DEF Tree
  <2> QED BY <2>1, <2>3, <2>4, SoundEdited DEF Edit
<1>4. CASE EditPrereq(p)
  <2>1. PICK other \in Pages \cup {None} : Edit([tree EXCEPT !.content[p].prereq = other])
    BY <1>4 DEF EditPrereq
  <2>2. PICK edited : edited = [q EXCEPT !.prereq = other]
    OBVIOUS
  <2>3. edited \in Page /\ edited.to = q.to /\ edited.anchor = q.anchor
    BY <1>0, <1>1, <1>4, <2>2 DEF EditPrereq, Page
  <2>4. [tree EXCEPT !.content[p].prereq = other] = [tree EXCEPT !.content[p] = edited]
    BY <1>0, <2>2 DEF Tree
  <2> QED BY <1>0, <1>1, <1>4, <2>1, <2>3, <2>4, SoundEdited DEF Edit, EditPrereq
<1>5. CASE EditHeading(p)
  <2>1. PICK edited : edited = [q EXCEPT !.heading = ~@]
    OBVIOUS
  <2>2. edited \in Page /\ edited.to = q.to /\ edited.anchor = q.anchor
    BY <1>0, <1>1, <1>5, <2>1 DEF EditHeading, Page
  <2>3. [tree EXCEPT !.content[p].heading = ~@] = [tree EXCEPT !.content[p] = edited]
    BY <1>0, <2>1 DEF Tree
  <2> QED BY <1>0, <1>1, <1>5, <2>2, <2>3, SoundEdited DEF Edit, EditHeading
<1> QED BY <1>2, <1>3, <1>4, <1>5

(* Every step keeps the trees sound.                                       *)
LEMMA SoundNext == Sources /\ AllSound /\ [Next]_vars => AllSound'
<1> SUFFICES ASSUME Sources, AllSound, [Next]_vars PROVE AllSound'
  OBVIOUS
<1>1. tree \in Tree /\ commits \in Seq(Tree)
  BY DEF Sources
<1>2. ASSUME UNCHANGED commits, Sound(tree') PROVE AllSound'
  BY <1>2 DEF AllSound
<1>3. ASSUME NEW p \in Pages, WritePage(p) \/ DeletePage(p) \/ EditLink(p) \/ EditPrereq(p) \/ EditHeading(p)
      PROVE  AllSound'
  BY <1>1, <1>2, <1>3, PagesSound, PageSteps DEF AllSound
<1>4. ASSUME NEW part \in Parts, EditList(part) PROVE AllSound'
  <2>1. PICK n \in 0 .. MaxList : \E l \in [1 .. n -> {p \in Pages : PartOf[p] = part}] :
          Edit([tree EXCEPT !.listed[part] = l])
    BY <1>4 DEF EditList
  <2>2. PICK l \in [1 .. n -> {p \in Pages : PartOf[p] = part}] :
          Edit([tree EXCEPT !.listed[part] = l])
    BY <2>1
  <2>3. n \in Nat
    BY SiteAssumption
  <2>4. Sound(tree')
    BY <1>1, <2>2, <2>3, SoundEdited DEF Edit, AllSound
  <2> QED BY <1>2, <2>2, <2>4 DEF Edit
<1>5. CASE Push
  <2>1. /\ commits' = Append(commits, tree) /\ tree' = tree
    BY <1>5 DEF Push, Pushed
  <2>2. /\ Len(commits') = Len(commits) + 1 /\ Len(commits) \in Nat
        /\ \A i \in 1 .. Len(commits) : commits'[i] = commits[i]
        /\ commits'[Len(commits) + 1] = tree
    BY <1>1, <2>1
  <2>3. \A i \in 1 .. Len(commits') : i \in 1 .. Len(commits) \/ i = Len(commits) + 1
    BY <2>2
  <2>4. \A i \in 1 .. Len(commits') : Sound(commits'[i])
    BY <2>2, <2>3 DEF AllSound
  <2> QED BY <2>1, <2>4 DEF AllSound
<1>6. CASE UNCHANGED <<tree, commits>>
  BY <1>2, <1>6 DEF AllSound
<1> QED BY <1>3, <1>4, <1>5, <1>6 DEF Next, Author, Workflow, Dispatch, CheckRun, BuildRun,
           FailRun, Deploy, vars

(* What is online is a tree that authors can write and that passed.        *)
LEMMA OnlineSound == Spec => [](published > 0 => Current \in Tree /\ Sound(Current) /\ Passes(Current))
<1>1. Init => AllSound
  <2> SUFFICES ASSUME Init PROVE AllSound
    OBVIOUS
  <2>1. PICK lists \in Lists :
          /\ \A part \in Parts : Range(lists[part]) = {p \in Pages : PartOf[p] = part}
          /\ tree = [content |-> [p \in Pages |-> NewPage], listed |-> lists]
    BY DEF Init
  <2>2. Sound(tree)
    BY <2>1 DEF Sound, Present, NewPage
  <2> QED BY <2>2 DEF AllSound, Init
<1>2. Sources /\ RunsInv /\ AllSound
        => (published > 0 => Current \in Tree /\ Sound(Current) /\ Passes(Current))
  <2> SUFFICES ASSUME Sources, RunsInv, AllSound, published > 0
               PROVE  Current \in Tree /\ Sound(Current) /\ Passes(Current)
    OBVIOUS
  <2>1. commits \in Seq(Tree) /\ published \in 1 .. Len(commits)
    BY DEF Sources, RunsInv
  <2> QED BY <2>1 DEF RunsInv, AllSound, Current
<1> QED BY <1>1, <1>2, SoundNext, RunsOfLast, PTL DEF Spec

-----------------------------------------------------------------------------
(* The reading order.                                                      *)

(* The order holds the present pages of the lists of nav.json's parts.     *)
LEMMA LinearHolds ==
  ASSUME NEW t \in Tree
  PROVE  /\ Linear(t) \in Seq(Present(t))
         /\ Range(Linear(t)) = {p \in Present(t) :
                \E i \in DOMAIN NavParts : p \in Range(t.listed[NavParts[i]])}
<1>1. NavParts \in Seq(Parts)
  BY SiteAssumption
<1>2. ASSUME NEW part \in Parts
      PROVE  /\ Existing(t, t.listed[part]) \in Seq(Present(t))
             /\ Range(Existing(t, t.listed[part])) = Present(t) \cap Range(t.listed[part])
  <2>1. t.listed[part] \in UNION {[1 .. n -> Pages] : n \in 0 .. MaxList}
    BY DEF Tree, Lists
  <2>2. PICK n \in 0 .. MaxList : t.listed[part] \in [1 .. n -> Pages]
    BY <2>1
  <2> DEFINE l == t.listed[part]
             one == [i \in DOMAIN l |-> IF t.content[l[i]] # None THEN <<l[i]>> ELSE <<>>]
  <2>3. l \in [1 .. n -> Pages] /\ n \in Nat
    BY <2>2, SiteAssumption
  <2> HIDE DEF l
  <2>4. \A i \in 1 .. n : /\ one[i] \in Seq(Present(t))
                          /\ Range(one[i]) = Present(t) \cap {l[i]}
    <3> SUFFICES ASSUME NEW i \in 1 .. n
                 PROVE  one[i] \in Seq(Present(t)) /\ Range(one[i]) = Present(t) \cap {l[i]}
      OBVIOUS
    <3>1. one[i] = IF l[i] \in Present(t) THEN <<l[i]>> ELSE <<>>
      BY <2>3 DEF Present
    <3> HIDE DEF one
    <3>2. CASE l[i] \in Present(t)
      <4>1. one[i] = <<l[i]>> /\ DOMAIN one[i] = {1} /\ one[i] \in Seq(Present(t))
        BY <3>1, <3>2
      <4> QED BY <3>2, <4>1 DEF Range
    <3>3. CASE l[i] \notin Present(t)
      BY <3>1, <3>3 DEF Range
    <3> QED BY <3>2, <3>3
  <2>5. DOMAIN one = 1 .. n /\ one \in Seq(Seq(Present(t)))
    <3>1. one = [i \in 1 .. n |-> one[i]]
      BY <2>3
    <3> HIDE DEF one
    <3>2. one \in [1 .. n -> Seq(Present(t))]
      BY <2>4, <3>1
    <3> QED BY <2>3, <3>2
  <2> HIDE DEF one
  <2>6. /\ FlattenSeq(one) \in Seq(Present(t))
        /\ Range(FlattenSeq(one)) = UNION {Range(one[i]) : i \in DOMAIN one}
    BY <2>5, FlattenHolds
  <2>7. Range(FlattenSeq(one)) = Present(t) \cap Range(l)
    <3>1. Range(l) = UNION {{l[i]} : i \in 1 .. n}
      BY <2>3 DEF Range
    <3>2. \A p : p \in Range(FlattenSeq(one)) <=> \E i \in 1 .. n : p \in Range(one[i])
      BY <2>5, <2>6
    <3>3. \A p : p \in Range(l) <=> \E i \in 1 .. n : p = l[i]
      BY <3>1
    <3>4. \A i \in 1 .. n : \A p : p \in Range(one[i]) <=> p \in Present(t) /\ p = l[i]
      BY <2>4
    <3> QED BY <3>2, <3>3, <3>4
  <2> QED BY <2>6, <2>7 DEF Existing, l, one
<1> DEFINE parts == [i \in DOMAIN NavParts |-> Existing(t, t.listed[NavParts[i]])]
<1>3. \A i \in DOMAIN NavParts : /\ parts[i] \in Seq(Present(t))
                                 /\ Range(parts[i]) = Present(t) \cap Range(t.listed[NavParts[i]])
  BY <1>1, <1>2
<1>4. DOMAIN parts = DOMAIN NavParts /\ parts \in Seq(Seq(Present(t)))
  BY <1>1, <1>3
<1>5. Linear(t) = FlattenSeq(parts)
  BY DEF Linear
<1> HIDE DEF parts
<1>6. /\ FlattenSeq(parts) \in Seq(Present(t))
      /\ Range(FlattenSeq(parts)) = UNION {Range(parts[i]) : i \in DOMAIN parts}
  BY <1>4, FlattenHolds
<1>7. \A p : p \in Range(FlattenSeq(parts)) <=>
          p \in Present(t) /\ \E i \in DOMAIN NavParts : p \in Range(t.listed[NavParts[i]])
  BY <1>3, <1>4, <1>6
<1> QED BY <1>5, <1>6, <1>7

(* Where a page is in an order, with or without pages listed twice.        *)
LEMMA PlaceHolds ==
  ASSUME NEW S, NEW order \in Seq(S), NEW p
  PROVE  /\ Place(order, p) \in 0 .. Len(order)
         /\ Place(order, p) > 0 => order[Place(order, p)] = p
         /\ \A i \in 1 .. Len(order) : order[i] = p => i <= Place(order, p)
<1> DEFINE places == {0} \cup {i \in DOMAIN order : order[i] = p}
           n == Len(order)
<1>1. DOMAIN order = 1 .. n /\ n \in Nat
  OBVIOUS
<1> HIDE DEF n
<1>2. places \in SUBSET (0 .. n) /\ 0 \in places
  BY <1>1
<1> DEFINE rest == {n - i : i \in places}
<1>3. \E i \in places : \A j \in places : i >= j
  <2>1. rest \in SUBSET Nat /\ rest # {}
    BY <1>1, <1>2
  <2>2. PICK k \in rest : \A m \in rest : k <= m
    BY <2>1, LeastNumber
  <2>3. PICK i \in places : k = n - i
    BY <2>2
  <2>4. \A j \in places : n - i <= n - j
    BY <2>2, <2>3
  <2> HIDE DEF places
  <2> QED BY <1>1, <1>2, <2>4
<1>4. Place(order, p) = CHOOSE i \in places : \A j \in places : i >= j
  BY DEF Place, Max
<1>5. Place(order, p) \in places /\ \A j \in places : Place(order, p) >= j
  BY <1>3, <1>4
<1>6. \A i \in 1 .. n : order[i] = p => i \in places
  BY <1>1
<1>7. \A i \in places : i > 0 => order[i] = p
  BY <1>1
<1> HIDE DEF places
<1>8. Place(order, p) \in 0 .. n /\ \A i \in 1 .. n : order[i] = p => i <= Place(order, p)
  BY <1>1, <1>2, <1>5, <1>6
<1> QED BY <1>5, <1>7, <1>8 DEF n

(* "next" and "previous" in an order that names no page twice.             *)
LEMMA Neighbours ==
  ASSUME NEW S, None \notin S, NEW order \in Seq(S), IsInjective(order)
  PROVE  /\ \A i \in 1 .. Len(order) :
              /\ NextPage(order, order[i]) = IF i < Len(order) THEN order[i + 1] ELSE None
              /\ Prev(order, order[i]) = IF i > 1 THEN order[i - 1] ELSE None
         /\ \A p : p \notin Range(order) => NextPage(order, p) = None /\ Prev(order, p) = None
<1>1. DOMAIN order = 1 .. Len(order) /\ Len(order) \in Nat
  OBVIOUS
<1>2. ASSUME NEW i \in 1 .. Len(order) PROVE Place(order, order[i]) = i
  <2>1. /\ Place(order, order[i]) \in 0 .. Len(order) /\ i <= Place(order, order[i])
        /\ Place(order, order[i]) > 0 => order[Place(order, order[i])] = order[i]
    BY PlaceHolds
  <2>2. Place(order, order[i]) \in 1 .. Len(order)
    BY <1>1, <2>1
  <2> QED BY <1>1, <2>1, <2>2 DEF IsInjective
<1>3. ASSUME NEW i \in 1 .. Len(order)
      PROVE  /\ NextPage(order, order[i]) = IF i < Len(order) THEN order[i + 1] ELSE None
             /\ Prev(order, order[i]) = IF i > 1 THEN order[i - 1] ELSE None
  <2>1. Place(order, order[i]) = i
    BY <1>2
  <2>2. i < Len(order) <=> i \in 1 .. Len(order) - 1
    BY <1>1
  <2> QED BY <2>1, <2>2 DEF NextPage, Prev
<1>4. ASSUME NEW p, p \notin Range(order) PROVE NextPage(order, p) = None /\ Prev(order, p) = None
  <2>1. Place(order, p) = 0
    BY <1>1, <1>4, PlaceHolds DEF Range
  <2> QED BY <1>1, <2>1 DEF NextPage, Prev
<1> QED BY <1>3, <1>4

(* A set whose members are all the same has one at most.                   *)
LEMMA AtMostOne ==
  ASSUME NEW T, NEW x, \A y \in T : y = x
  PROVE  Cardinality(T) <= 1
<1>1. CASE T = {}
  BY <1>1, FS_EmptySet
<1>2. CASE T = {x}
  <2>1. Cardinality({x}) = 1
    BY FS_Singleton
  <2> QED BY <1>2, <2>1
<1> QED BY <1>1, <1>2

-----------------------------------------------------------------------------
(* On the published site no page leads to one without a source, by its     *)
(* link, prerequisite, previous or next page, and every anchor is there.   *)
THEOREM LinksLeadHolds == Spec => []LinksLead
<1>1. (published > 0 => Current \in Tree /\ Sound(Current) /\ Passes(Current)) => LinksLead
  <2> SUFFICES ASSUME published > 0, Current \in Tree, Sound(Current), Passes(Current) PROVE LinksLead
    BY DEF LinksLead
  <2> DEFINE t == Current  site == Build(t)  order == Linear(t)
  <2>1. DOMAIN site = Present(t) /\ \A p \in Present(t) : site[p] = Rendered(t, order, p)
    BY DEF Build
  <2>2. t \in Tree /\ Sound(t) /\ BadLinks(t) = {} /\ order \in Seq(Present(t))
    BY LinearHolds DEF Passes
  <2> HIDE DEF t, site, order
  <2>3. ASSUME NEW p \in Present(t)
        PROVE  /\ {site[p].to, site[p].prereq, site[p].prev, site[p].next}
                    \subseteq Present(t) \cup {None}
               /\ site[p].anchor => site[site[p].to].heading
    <3> DEFINE c == t.content[p]
    <3>1. /\ c.to \in Present(t) \cup {None}
          /\ c.anchor /\ c.to \in Present(t) => t.content[c.to].heading
      BY <2>2 DEF BadLinks
    <3>2. c.anchor => c.to \in Present(t)
      BY <2>2, <3>1 DEF Sound
    <3>3. /\ site[p].to = c.to /\ site[p].anchor = c.anchor
          /\ site[p].prereq \in Present(t) \cup {None}
          /\ site[p].prev = Prev(order, p) /\ site[p].next = NextPage(order, p)
      BY <2>1 DEF Rendered
    <3>4. \A q \in Present(t) : site[q].heading = t.content[q].heading
      BY <2>1 DEF Rendered
    <3> HIDE DEF c
    <3>5. Prev(order, p) \in Present(t) \cup {None}
      <4>1. Place(order, p) \in 0 .. Len(order)
        BY <2>2, PlaceHolds
      <4>2. Place(order, p) > 1 => Place(order, p) - 1 \in 1 .. Len(order)
        BY <4>1
      <4> QED BY <2>2, <4>2 DEF Prev
    <3>6. NextPage(order, p) \in Present(t) \cup {None}
      <4>1. Place(order, p) \in 1 .. Len(order) - 1 => Place(order, p) + 1 \in 1 .. Len(order)
        BY <2>2
      <4> QED BY <2>2, <4>1 DEF NextPage
    <3>7. site[p].anchor => site[site[p].to].heading
      BY <3>1, <3>2, <3>3, <3>4 DEF c
    <3> QED BY <3>1, <3>3, <3>5, <3>6, <3>7
  <2> QED BY <2>1, <2>3 DEF LinksLead, site, t
<1> QED BY <1>1, OnlineSound, PTL

(* Every published page of a part in nav.json is in the menu.              *)
THEOREM NothingHiddenHolds == Spec => []NothingHidden
<1>1. (published > 0 => Current \in Tree /\ Sound(Current) /\ Passes(Current)) => NothingHidden
  <2> SUFFICES ASSUME NEW t, t = Current, t \in Tree, Sound(t), Passes(t)
               PROVE  {p \in Present(t) : PartOf[p] \in Range(NavParts)} = Menu(t)
    BY DEF NothingHidden
  <2>1. NavParts \in Seq(Parts) /\ \A p \in Pages : PartOf[p] \in Parts
    BY SiteAssumption
  <2>2. Menu(t) = {p \in Present(t) : \E i \in DOMAIN NavParts : p \in Range(t.listed[NavParts[i]])}
    BY LinearHolds DEF Menu
  <2>3. \A p \in Present(t) : p \in Pages /\ p \in Range(t.listed[PartOf[p]])
    BY DEF Passes, Orphans, Present
  <2>4. \A p \in Present(t), part \in Parts : p \in Range(t.listed[part]) <=> PartOf[p] = part
    BY <2>1, <2>3 DEF Sound
  <2>5. \A i \in DOMAIN NavParts : NavParts[i] \in Parts
    BY <2>1
  <2>6. \A p \in Present(t) : PartOf[p] \in Range(NavParts)
            <=> \E i \in DOMAIN NavParts : p \in Range(t.listed[NavParts[i]])
    BY <2>4, <2>5 DEF Range
  <2> QED BY <2>2, <2>6
<1> QED BY <1>1, OnlineSound, PTL

(* Unless a page is listed twice, "next" and "previous" undo each other on *)
(* the published site, and only the ends of the reading order lack one.    *)
THEOREM ReadingOrderHolds == Spec => []ReadingOrder
<1>1. (published > 0 => Current \in Tree /\ Sound(Current) /\ Passes(Current)) => ReadingOrder
  <2> SUFFICES ASSUME NEW t, t = Current, t \in Tree, IsInjective(Linear(t))
               PROVE  LET site == Build(t)
                          Ends(link(_)) == {p \in Menu(t) : link(p) = None}
                      IN /\ \A p, q \in DOMAIN site : site[p].next = q <=> site[q].prev = p
                         /\ Cardinality(Ends(LAMBDA p : site[p].next)) <= 1
                         /\ Cardinality(Ends(LAMBDA p : site[p].prev)) <= 1
    BY DEF ReadingOrder
  <2> DEFINE site == Build(t)  order == Linear(t)
  <2>1. /\ DOMAIN site = Present(t)
        /\ \A p \in Present(t) : site[p].next = NextPage(order, p) /\ site[p].prev = Prev(order, p)
    BY DEF Build, Rendered
  <2>2. /\ order \in Seq(Present(t)) /\ IsInjective(order) /\ None \notin Present(t)
        /\ Menu(t) = Range(order) /\ Menu(t) \subseteq Present(t)
    BY LinearHolds, SiteAssumption DEF Menu, Present
  <2> HIDE DEF site, order
  <2>3. DOMAIN order = 1 .. Len(order) /\ Len(order) \in Nat /\ \A i \in 1 .. Len(order) : order[i] \in Present(t)
    BY <2>2
  <2>4. /\ \A i \in 1 .. Len(order) :
              /\ site[order[i]].next = IF i < Len(order) THEN order[i + 1] ELSE None
              /\ site[order[i]].prev = IF i > 1 THEN order[i - 1] ELSE None
        /\ \A p \in Present(t) : p \notin Range(order) => site[p].next = None /\ site[p].prev = None
    BY <2>1, <2>2, <2>3, Neighbours
  <2>5. ASSUME NEW p \in Present(t), NEW q \in Present(t), site[p].next = q PROVE site[q].prev = p
    <3>1. PICK i \in 1 .. Len(order) : p = order[i]
      BY <2>2, <2>3, <2>4, <2>5 DEF Range
    <3>2. i < Len(order) /\ q = order[i + 1] /\ i + 1 \in 1 .. Len(order) /\ i + 1 > 1 /\ (i + 1) - 1 = i
      BY <2>2, <2>3, <2>4, <2>5, <3>1
    <3> QED BY <2>4, <3>1, <3>2
  <2>6. ASSUME NEW p \in Present(t), NEW q \in Present(t), site[q].prev = p PROVE site[p].next = q
    <3>1. PICK i \in 1 .. Len(order) : q = order[i]
      BY <2>2, <2>3, <2>4, <2>6 DEF Range
    <3>2. i > 1 /\ p = order[i - 1] /\ i - 1 \in 1 .. Len(order) /\ i - 1 < Len(order) /\ (i - 1) + 1 = i
      BY <2>2, <2>3, <2>4, <2>6, <3>1
    <3> QED BY <2>4, <3>1, <3>2
  <2>7. Cardinality({p \in Menu(t) : site[p].next = None}) <= 1
    <3>1. \A p \in Menu(t) : site[p].next = None => p = order[Len(order)]
      BY <2>2, <2>3, <2>4 DEF Range
    <3> QED BY <3>1, AtMostOne
  <2>8. Cardinality({p \in Menu(t) : site[p].prev = None}) <= 1
    <3>1. \A p \in Menu(t) : site[p].prev = None => p = order[1]
      BY <2>2, <2>3, <2>4 DEF Range
    <3> QED BY <3>1, AtMostOne
  <2> QED BY <2>1, <2>5, <2>6, <2>7, <2>8 DEF site
<1> QED BY <1>1, OnlineSound, PTL

-----------------------------------------------------------------------------
(* Proofs about Harness, for any documents, namespaces and tools, and any  *)
(* number of outages and deleted namespaces.                               *)
(*                                                                         *)
(* The report adds up because every manifest is counted once, and it is    *)
(* true because of what the namespace pass leaves behind: each namespace   *)
(* exists, and has the level that its last declaration says, before the    *)
(* first dry run asks.                                                     *)

Early == {"start", "manifests"}
Dry   == {"kubeconform", "cluster-info", "namespaces", "dry-run"}
Late  == {"dockerfiles", "compose", "helm", "kustomize", "done"}

(* The dry run was reported.                                               *)
Recorded == "kubectl-dry-run" \in DOMAIN summary /\ summary["kubectl-dry-run"] = "done"

(* A manifest of an API version that is gone and not shown as old.         *)
Removed == \E i \in DOMAIN items : items[i].verdict = "removed" /\ ~items[i].old

(* The phases come in order and once each.                                 *)
OrderInv ==
  /\ step \in Early \cup Dry \cup {"pluto"} \cup Late
  /\ step \in Early => items = <<>> /\ at = 0 /\ DOMAIN summary = {}
  /\ step \in Dry => items = Manifests /\ "kubectl-dry-run" \notin DOMAIN summary
                                         /\ "pluto" \notin DOMAIN summary
  /\ step = "pluto" => items = Manifests /\ "pluto" \notin DOMAIN summary
  /\ items \in {<<>>, Manifests} /\ at \in 0 .. Len(items)
  /\ "pluto" \in DOMAIN summary => summary["pluto"] \in {"found", "not-run"} \/ ~Removed

CounterNames == {"pass", "realFail", "rejectedAsExpected", "wronglyAccepted",
                 "skipCrd", "skipNs", "skipOther"}

Total == counts["pass"] + counts["realFail"] + counts["rejectedAsExpected"]
         + counts["wronglyAccepted"] + counts["skipCrd"] + counts["skipNs"] + counts["skipOther"]

(* The manifests that may pass.                                            *)
Passable == {i \in DOMAIN items : ~Rejected(items[i]) /\ items[i].verdict \notin {"refuse", "removed"}}

(* Every manifest that was asked about is counted once, and where the      *)
(* documents allow it if the cluster was calm.                             *)
CountInv ==
  /\ counts \in [CounterNames -> Nat]
  /\ ~(step = "dry-run" \/ Recorded) => counts = NoCounts
  /\ step = "dry-run" \/ Recorded =>
       /\ Total = at
       /\ counts["pass"] <= Cardinality(Passable \cap (1 .. at))
       /\ calm => \A c \in CounterNames :
                    /\ Cardinality(Sure(c) \cap (1 .. at)) <= counts[c]
                    /\ counts[c] <= Cardinality(May(c) \cap (1 .. at))
  /\ Recorded => at = Len(items)

(* How many manifests the namespace pass has seen.                         *)
Passed == IF step = "dry-run" THEN Len(items) ELSE at

(* What the namespace pass has done so far, in a calm cluster.             *)
CalmInv ==
  step \in {"namespaces", "dry-run"} /\ calm =>
    /\ up /\ \A n \in Namespaces : space[n] # "terminating"
    /\ \A i \in DOMAIN items : Decides(i, Passed) => space[items[i].declares] = items[i].level
    /\ \A i \in 1 .. Passed :
         items[i].ns # NoNamespace =>
           \/ space[items[i].ns] # "absent"
           \/ step = "namespaces" /\ items[i].ns \in nsNames

(* What the tools and the cluster hold.                                    *)
ClusterInv ==
  /\ want \subseteq ToSet(Phases) /\ withCluster \in BOOLEAN /\ nsNames \subseteq Namespaces
  /\ space \in [Namespaces -> {"absent", "open", "restricted", "terminating"}]
  /\ up \in BOOLEAN /\ calm \in BOOLEAN /\ troubles \in 0 .. MaxTroubles
  /\ context \in Names

HarnessInv == ClusterInv /\ OrderInv /\ CountInv /\ CalmInv

-----------------------------------------------------------------------------
(* The gathered documents, in their order.                                 *)
LEMMA ManifestsHold ==
  /\ Manifests \in Seq(Document)
  /\ \A doc : doc \in Range(Manifests) <=>
       \E i \in DOMAIN Documents : doc = Documents[i] /\ Gathered(Documents[i])
<1> DEFINE one == [i \in DOMAIN Documents |->
                     IF Gathered(Documents[i]) THEN <<Documents[i]>> ELSE <<>>]
           n == Len(Documents)
<1>1. Documents \in Seq(Document) /\ DOMAIN Documents = 1 .. n /\ n \in Nat
      /\ \A i \in 1 .. n : Documents[i] \in Document
  BY HarnessAssumption
<1>2. DOMAIN one = 1 .. n
  BY <1>1
<1> HIDE DEF n
<1>3. ASSUME NEW i \in 1 .. n
      PROVE  /\ one[i] \in Seq(Document)
             /\ \A doc : doc \in Range(one[i]) <=> doc = Documents[i] /\ Gathered(Documents[i])
  <2>1. one[i] = IF Gathered(Documents[i]) THEN <<Documents[i]>> ELSE <<>>
    BY <1>1
  <2> HIDE DEF one
  <2>2. CASE Gathered(Documents[i])
    <3>1. one[i] = <<Documents[i]>> /\ DOMAIN one[i] = {1} /\ one[i] \in Seq(Document)
      BY <1>1, <2>1, <2>2
    <3> QED BY <2>2, <3>1 DEF Range
  <2>3. CASE ~Gathered(Documents[i])
    BY <2>1, <2>3 DEF Range
  <2> QED BY <2>2, <2>3
<1>4. one = [i \in 1 .. n |-> one[i]]
  BY <1>2
<1>5. Manifests = FlattenSeq(one)
  BY DEF Manifests
<1> HIDE DEF one
<1>6. one \in Seq(Seq(Document))
  <2>1. one \in [1 .. n -> Seq(Document)]
    BY <1>3, <1>4
  <2> QED BY <1>1, <2>1
<1>7. /\ FlattenSeq(one) \in Seq(Document)
      /\ Range(FlattenSeq(one)) = UNION {Range(one[i]) : i \in DOMAIN one}
  BY <1>6, FlattenHolds
<1>8. \A doc : doc \in Range(FlattenSeq(one)) <=> \E i \in 1 .. n : doc \in Range(one[i])
  BY <1>2, <1>7
<1> QED BY <1>1, <1>3, <1>5, <1>7, <1>8

(* The phases follow each other in one direction.                          *)
LEMMA AfterHolds ==
  ASSUME NEW wanted
  PROVE  /\ After("start", wanted) \in {"manifests"} \cup Late
         /\ After("manifests", wanted) \in Late
         /\ \A phase \in {"dockerfiles", "compose", "helm", "kustomize"} :
              After(phase, wanted) \in Late
<1>1. ASSUME NEW place \in 0 .. 5, NEW phase,
             place = CHOOSE i \in 0 .. 5 : IF phase = "start" THEN i = 0
                                           ELSE i > 0 /\ Phases[i] = phase
      PROVE  After(phase, wanted) \in {Phases[i] : i \in place + 1 .. 5} \cup {"done"}
  <2> DEFINE left == {i \in place + 1 .. 5 : Phases[i] \in wanted}
  <2>1. CASE left = {}
    BY <1>1, <2>1 DEF After
  <2>2. CASE left # {}
    <3>1. left \in SUBSET Nat
      OBVIOUS
    <3>2. \E i \in left : \A j \in left : i <= j
      BY <2>2, <3>1, LeastNumber
    <3>3. (CHOOSE i \in left : \A j \in left : i <= j) \in left
      BY <3>2
    <3>4. After(phase, wanted) = Phases[CHOOSE i \in left : \A j \in left : i <= j]
      BY <1>1, <2>2 DEF After
    <3> QED BY <3>3, <3>4
  <2> QED BY <2>1, <2>2
<1>2. /\ Phases[1] = "manifests" /\ Phases[2] = "dockerfiles" /\ Phases[3] = "compose"
      /\ Phases[4] = "helm" /\ Phases[5] = "kustomize"
  BY DEF Phases
<1>3. \A i \in 0 .. 5 : i = 0 \/ i = 1 \/ i = 2 \/ i = 3 \/ i = 4 \/ i = 5
  OBVIOUS
<1>4. After("start", wanted) \in {"manifests"} \cup Late
  <2>1. 0 = CHOOSE i \in 0 .. 5 : IF "start" = "start" THEN i = 0 ELSE i > 0 /\ Phases[i] = "start"
    OBVIOUS
  <2> QED BY <1>1, <1>2, <1>3, <2>1 DEF Late
<1>5. ASSUME NEW phase \in {"manifests", "dockerfiles", "compose", "helm", "kustomize"}
      PROVE  After(phase, wanted) \in Late
  <2>1. PICK place \in 1 .. 5 : Phases[place] = phase
    BY <1>2
  <2>2. \A i \in 0 .. 5 : (i > 0 /\ Phases[i] = phase) <=> i = place
    BY <1>2, <1>3, <2>1
  <2>3. place = CHOOSE i \in 0 .. 5 : IF phase = "start" THEN i = 0 ELSE i > 0 /\ Phases[i] = phase
    BY <2>1, <2>2
  <2>4. After(phase, wanted) \in {Phases[i] : i \in place + 1 .. 5} \cup {"done"}
    BY <1>1, <2>3
  <2>5. \A i \in place + 1 .. 5 : i = 2 \/ i = 3 \/ i = 4 \/ i = 5
    BY <2>1
  <2> QED BY <1>2, <2>4, <2>5 DEF Late
<1> QED BY <1>4, <1>5

-----------------------------------------------------------------------------
(* The phases.                                                             *)

(* A phase that is left does not come back.                                *)
LEMMA OrderNext == ClusterInv /\ OrderInv /\ HarnessNext => OrderInv'
<1> SUFFICES ASSUME ClusterInv, OrderInv, HarnessNext PROVE OrderInv'
  OBVIOUS
<1> USE DEF Early, Dry, Late, setup, cluster
<1>0. Manifests \in Seq(Document) /\ Len(Manifests) \in Nat /\ Len(<<>>) = 0
  BY ManifestsHold
<1>13. Len(items) \in Nat /\ at \in 0 .. Len(items)
  BY <1>0 DEF OrderInv
<1>1. ASSUME UNCHANGED <<step, items, summary>>, at' \in 0 .. Len(items), step \in Early => at' = 0
      PROVE  OrderInv'
  BY <1>1 DEF OrderInv, Removed
<1>2. CASE Start
  <2>1. step' \in {"manifests"} \cup Late /\ step = "start" /\ UNCHANGED <<items, at, summary>>
    BY <1>2, AfterHolds DEF Start
  <2> QED BY <2>1 DEF OrderInv, Removed
<1>3. CASE gatherManifests
  <2>1. /\ step = "manifests" /\ step' = "kubeconform" /\ items' = Manifests /\ at' = at
        /\ summary' = Record(summary, "manifests-extracted", "done")
    BY <1>3 DEF gatherManifests
  <2>2. DOMAIN summary' = DOMAIN summary \cup {"manifests-extracted"}
    BY <2>1 DEF Record
  <2>3. at' \in 0 .. Len(items')
    BY <1>0, <1>13, <2>1 DEF OrderInv
  <2> QED BY <2>1, <2>2, <2>3 DEF OrderInv
<1>4. CASE runKubeconform
  <2>1. step = "kubeconform" /\ UNCHANGED <<items, at>>
    BY <1>4 DEF runKubeconform
  <2>2. PICK verdict, recorded :
          /\ recorded = Record(summary, "kubeconform", verdict)
          /\ IF withCluster
             THEN step' = "cluster-info" /\ summary' = recorded
             ELSE /\ step' = After("manifests", want)
                  /\ summary' = Record(Record(recorded, "kubectl-dry-run", "not-run"),
                                       "pluto", "not-run")
    BY <1>4 DEF runKubeconform
  <2>3. CASE withCluster
    <3>1. DOMAIN summary' = DOMAIN summary \cup {"kubeconform"}
      BY <2>2, <2>3 DEF Record
    <3> QED BY <2>1, <2>2, <2>3, <3>1 DEF OrderInv, Removed
  <2>4. CASE ~withCluster
    <3>1. summary'["pluto"] = "not-run"
      BY <2>2, <2>4 DEF Record
    <3>2. step' \in Late
      BY <2>2, <2>4, AfterHolds
    <3> QED BY <2>1, <3>1, <3>2 DEF OrderInv
  <2> QED BY <2>3, <2>4
<1>5. CASE clusterInfo
  <2>1. step = "cluster-info" /\ at' = 0 /\ UNCHANGED items
        /\ \/ step' = "namespaces" /\ UNCHANGED summary
           \/ step' = "pluto" /\ summary' = Record(summary, "kubectl-dry-run", "not-run")
    BY <1>5 DEF clusterInfo
  <2>2. at' \in 0 .. Len(items') /\ "pluto" \notin DOMAIN summary
    BY <1>0, <1>13, <2>1 DEF OrderInv
  <2>3. CASE step' = "namespaces"
    BY <2>1, <2>2, <2>3 DEF OrderInv
  <2>4. CASE step' = "pluto"
    <3>1. "pluto" \notin DOMAIN summary'
      BY <2>1, <2>2, <2>4 DEF Record
    <3> QED BY <2>1, <2>2, <2>4, <3>1 DEF OrderInv
  <2> QED BY <2>1, <2>3, <2>4
<1>6. CASE namespacePass \/ runServerDryRun
  <2>1. step \in {"namespaces", "dry-run"} /\ at < Len(items) /\ at' = at + 1 /\ UNCHANGED <<step, items, summary>>
    BY <1>6 DEF namespacePass, runServerDryRun
  <2>2. at' \in 0 .. Len(items)
    BY <1>0, <1>13, <2>1 DEF OrderInv
  <2> QED BY <1>1, <2>1, <2>2
<1>7. CASE \E n \in Namespaces : createNamespace(n)
  BY <1>1, <1>7 DEF createNamespace, OrderInv
<1>8. CASE allCreated
  <2>1. step = "namespaces" /\ step' = "dry-run" /\ at' = 0 /\ UNCHANGED <<items, summary>>
    BY <1>8 DEF allCreated
  <2>2. at' \in 0 .. Len(items')
    BY <1>0, <1>13, <2>1 DEF OrderInv
  <2> QED BY <2>1, <2>2 DEF OrderInv
<1>9. CASE recordDryRun
  <2>1. /\ step = "dry-run" /\ step' = "pluto" /\ UNCHANGED <<items, at>>
        /\ summary' = Record(summary, "kubectl-dry-run", "done")
    BY <1>9 DEF recordDryRun
  <2>2. "pluto" \notin DOMAIN summary'
    BY <2>1 DEF OrderInv, Record
  <2> QED BY <2>1, <2>2 DEF OrderInv
<1>10. CASE runPluto
  <2>1. /\ step = "pluto" /\ step' = After("manifests", want) /\ UNCHANGED <<items, at>>
        /\ \E verdict : /\ summary' = Record(summary, "pluto", verdict)
                        /\ verdict \in {"found", "not-run"} \/ ~Removed
    BY <1>10 DEF runPluto, Removed
  <2>2. step' \in Late
    BY <2>1, AfterHolds
  <2>3. summary'["pluto"] \in {"found", "not-run"} \/ ~Removed
    BY <2>1 DEF Record
  <2> QED BY <2>1, <2>2, <2>3 DEF OrderInv, Removed
<1>11. CASE runDockerfiles \/ runCompose \/ runHelm \/ runKustomize
  <2>1. PICK phase, key, verdict :
          /\ phase \in {"dockerfiles", "compose", "helm", "kustomize"}
          /\ key \in {"hadolint", "compose", "helm", "kustomize"}
          /\ Finish(phase, key, verdict)
    BY <1>11 DEF runDockerfiles, runCompose, runHelm, runKustomize
  <2>2. /\ step = phase /\ step' = After(phase, want) /\ UNCHANGED <<items, at>>
        /\ summary' = Record(summary, key, verdict)
    BY <2>1 DEF Finish
  <2>3. step' \in Late
    BY <2>1, <2>2, AfterHolds
  <2>4. "pluto" \in DOMAIN summary' => "pluto" \in DOMAIN summary /\ summary'["pluto"] = summary["pluto"]
    BY <2>1, <2>2 DEF Record
  <2> QED BY <2>2, <2>3, <2>4 DEF OrderInv, Removed
<1>12. CASE Outage \/ Recover \/ \E n \in Namespaces : DeleteNamespace(n) \/ NamespaceGone(n)
  BY <1>1, <1>12 DEF Outage, Recover, DeleteNamespace, NamespaceGone, Trouble, OrderInv
<1> QED BY <1>2, <1>3, <1>4, <1>5, <1>6, <1>7, <1>8, <1>9, <1>10, <1>11, <1>12
           DEF HarnessNext, HarnessScript

-----------------------------------------------------------------------------
(* The namespaces.                                                         *)

(* The tools and the cluster keep their types.                             *)
LEMMA ClusterNext == ClusterInv /\ OrderInv /\ [HarnessNext]_harnessVars => ClusterInv'
<1> SUFFICES ASSUME ClusterInv, OrderInv, [HarnessNext]_harnessVars PROVE ClusterInv'
  OBVIOUS
<1> USE DEF ClusterInv, setup, cluster
<1>1. CASE Start
  <2>1. want' \subseteq ToSet(Phases)
    BY <1>1, HarnessAssumption DEF Start
  <2> QED BY <1>1, <2>1 DEF Start
<1>2. CASE gatherManifests \/ runKubeconform \/ allCreated \/ runServerDryRun \/ recordDryRun
           \/ runPluto \/ runDockerfiles \/ runCompose \/ runHelm \/ runKustomize
  BY <1>2 DEF gatherManifests, runKubeconform, allCreated, runServerDryRun, recordDryRun,
     runPluto, runDockerfiles, runCompose, runHelm, runKustomize, Finish
<1>3. CASE clusterInfo
  BY <1>3 DEF clusterInfo
<1>4. CASE namespacePass
  <2>1. ASSUME NEW doc \in Document, ApplyNamespace(doc)
        PROVE  space' \in [Namespaces -> {"absent", "open", "restricted", "terminating"}]
    <3>1. CASE space' = space
      BY <3>1
    <3>2. CASE \E level \in AppliedLevel(space[doc.declares], doc.level) :
                 space' = [space EXCEPT ![doc.declares] = level]
      <4>1. PICK level \in AppliedLevel(space[doc.declares], doc.level) :
                 space' = [space EXCEPT ![doc.declares] = level]
        BY <3>2
      <4>2. doc.level \in Levels \cup {"unsaid"}
        BY DEF Document
      <4>3. level \in Levels
        BY <4>1, <4>2 DEF AppliedLevel, Levels
      <4> QED BY <4>1, <4>3 DEF Levels
    <3> QED BY <2>1, <3>1, <3>2 DEF ApplyNamespace
  <2>2. items[at + 1] \in Document
    <3>1. at < Len(items) /\ step = "namespaces"
      BY <1>4 DEF namespacePass
    <3>2. items \in Seq(Document) /\ at \in 0 .. Len(items)
      BY <3>1, ManifestsHold DEF OrderInv, Early, Dry, Late
    <3> QED BY <3>1, <3>2
  <2> QED BY <1>4, <2>1, <2>2 DEF namespacePass
<1>5. CASE \E n \in Namespaces : createNamespace(n)
  BY <1>5 DEF createNamespace
<1>6. CASE Outage \/ Recover \/ \E n \in Namespaces : DeleteNamespace(n) \/ NamespaceGone(n)
  <2>1. troubles < MaxTroubles => troubles + 1 \in 0 .. MaxTroubles
    BY HarnessAssumption
  <2> QED BY <1>6, <2>1 DEF Outage, Recover, DeleteNamespace, NamespaceGone, Trouble
<1>7. CASE UNCHANGED harnessVars
  BY <1>7 DEF harnessVars
<1> QED BY <1>1, <1>2, <1>3, <1>4, <1>5, <1>6, <1>7 DEF HarnessNext, HarnessScript

(* In a calm cluster a namespace that exists stays, and keeps its level.   *)
LEMMA CalmNext == ClusterInv /\ OrderInv /\ CalmInv /\ HarnessNext => CalmInv'
<1> SUFFICES ASSUME ClusterInv, OrderInv, CalmInv, HarnessNext,
                    step' \in {"namespaces", "dry-run"}, calm'
             PROVE  CalmInv'
  BY DEF CalmInv
<1> USE DEF Early, Dry, Late, setup, cluster
<1>0. /\ items \in Seq(Document) /\ DOMAIN items = 1 .. Len(items) /\ Len(items) \in Nat
      /\ \A i \in DOMAIN items : /\ items[i].declares \in Names /\ items[i].ns \in Names
                                 /\ items[i].level \in Levels \cup {"unsaid"}
      /\ at \in 0 .. Len(items) /\ NoNamespace \notin Namespaces
  <2>1. items \in Seq(Document) /\ at \in 0 .. Len(items)
    <3>1. <<>> \in Seq(Document)
      OBVIOUS
    <3>2. items = <<>> \/ items = Manifests
      BY DEF OrderInv
    <3>3. Manifests \in Seq(Document)
      BY ManifestsHold
    <3>4. at \in 0 .. Len(items)
      BY DEF OrderInv
    <3> QED BY <3>1, <3>2, <3>3, <3>4
  <2>2. DOMAIN items = 1 .. Len(items) /\ Len(items) \in Nat /\ \A i \in DOMAIN items : items[i] \in Document
    BY <2>1
  <2>3. \A doc \in Document : /\ doc.declares \in Names /\ doc.ns \in Names
                               /\ doc.level \in Levels \cup {"unsaid"}
    BY DEF Document
  <2> QED BY <2>1, <2>2, <2>3, HarnessAssumption
<1>1. CASE clusterInfo
  <2>1. at' = 0 /\ UNCHANGED <<items, up, space>> /\ up /\ step' = "namespaces"
        /\ \A n \in Namespaces : space[n] # "terminating"
    BY <1>1 DEF clusterInfo
  <2>2. Passed' = 0 /\ 1 .. 0 = {}
    BY <2>1 DEF Passed
  <2>3. \A i \in DOMAIN items : ~Decides(i, 0)
    BY <1>0 DEF Decides
  <2>4. \A i \in DOMAIN items' : ~Decides(i, Passed)'
    BY <2>1, <2>2, <2>3 DEF Decides
  <2> QED BY <2>1, <2>2, <2>4 DEF CalmInv
<1>2. CASE namespacePass
  <2> DEFINE it == items[at + 1]
  <2>1. at + 1 \in DOMAIN items /\ at' = at + 1 /\ UNCHANGED <<step, items, up, calm>>
        /\ step = "namespaces" /\ nsNames' = nsNames \cup ({it.ns} \cap Namespaces)
    <3>1. at < Len(items)
      BY <1>2 DEF namespacePass
    <3>2. at + 1 \in DOMAIN items
      BY <1>0, <3>1
    <3> QED BY <1>2, <3>2 DEF namespacePass
  <2>2. /\ up /\ \A n \in Namespaces : space[n] # "terminating"
        /\ \A i \in DOMAIN items : Decides(i, at) => space[items[i].declares] = items[i].level
        /\ \A i \in 1 .. at : items[i].ns # NoNamespace =>
             space[items[i].ns] # "absent" \/ items[i].ns \in nsNames
    BY <2>1 DEF CalmInv, Passed
  <2>3. /\ it.declares # NoNamespace =>
             /\ it.declares \in Namespaces
             /\ \E level \in AppliedLevel(space[it.declares], it.level) :
                  space' = [space EXCEPT ![it.declares] = level]
        /\ it.declares = NoNamespace => space' = space
    BY <1>0, <1>2, <2>1, <2>2 DEF namespacePass, ApplyNamespace, Names
  <2>4. /\ \A n \in Namespaces : /\ space'[n] # "terminating"
                                 /\ space[n] # "absent" => space'[n] # "absent"
                                 /\ n # it.declares => space'[n] = space[n]
        /\ it.declares # NoNamespace /\ it.level # "unsaid" => space'[it.declares] = it.level
    <3>1. CASE it.declares = NoNamespace
      BY <1>0, <2>2, <2>3, <3>1
    <3>2. CASE it.declares # NoNamespace
      <4>1. PICK level \in AppliedLevel(space[it.declares], it.level) :
               space' = [space EXCEPT ![it.declares] = level]
        BY <2>3, <3>2
      <4>2. level \in Levels /\ (it.level # "unsaid" => level = it.level)
        BY <1>0, <2>1, <4>1 DEF AppliedLevel, Levels
      <4>3. it.declares \in Namespaces /\ space \in [Namespaces -> {"absent", "open", "restricted", "terminating"}]
        BY <2>3, <3>2 DEF ClusterInv
      <4> HIDE DEF it
      <4> QED BY <2>2, <4>1, <4>2, <4>3 DEF Levels
    <3> QED BY <3>1, <3>2
  <2>5. it.ns # NoNamespace => it.ns \in nsNames'
    BY <1>0, <2>1 DEF Names
  <2>6. ASSUME NEW i \in DOMAIN items, Decides(i, at + 1)
        PROVE  space'[items[i].declares] = items[i].level
    <3>1. /\ i <= at + 1 /\ items[i].declares \in Namespaces /\ items[i].level # "unsaid"
          /\ \A k \in i + 1 .. at + 1 : items[k].declares # items[i].declares
      BY <1>0, <2>6 DEF Decides, Names
    <3>2. CASE i = at + 1
      BY <1>0, <2>4, <3>1, <3>2
    <3>3. CASE i # at + 1
      <4>1. i <= at /\ at + 1 \in i + 1 .. at + 1 /\ \A k \in i + 1 .. at : k \in i + 1 .. at + 1
        BY <1>0, <3>1, <3>3
      <4>2. Decides(i, at)
        BY <2>6, <4>1 DEF Decides
      <4> QED BY <2>2, <2>4, <3>1, <4>1, <4>2
    <3> QED BY <3>2, <3>3
  <2>7. ASSUME NEW i \in 1 .. at + 1, items[i].ns # NoNamespace
        PROVE  space'[items[i].ns] # "absent" \/ items[i].ns \in nsNames'
    <3>1. CASE i = at + 1
      BY <2>5, <2>7, <3>1
    <3>2. CASE i # at + 1
      <4>1. i \in 1 .. at /\ i \in DOMAIN items
        BY <1>0, <2>1, <3>2
      <4> QED BY <1>0, <2>1, <2>2, <2>4, <2>7, <4>1 DEF Names
    <3> QED BY <3>1, <3>2
  <2>8. Passed' = at + 1
    BY <2>1 DEF Passed
  <2>9. \A i \in DOMAIN items : Decides(i, Passed)' <=> Decides(i, at + 1)
    BY <2>1, <2>8 DEF Decides
  <2> HIDE DEF it
  <2> QED BY <2>1, <2>2, <2>4, <2>6, <2>7, <2>8, <2>9 DEF CalmInv
<1>3. CASE \E n \in Namespaces : createNamespace(n)
  <2>1. PICK n \in Namespaces : createNamespace(n)
    BY <1>3
  <2>2. /\ at = Len(items) /\ UNCHANGED <<step, items, at, up, calm>> /\ step = "namespaces"
        /\ nsNames' = nsNames \ {n}
        /\ space' = IF up /\ space[n] = "absent" THEN [space EXCEPT ![n] = "open"] ELSE space
    BY <2>1 DEF createNamespace
  <2>3. /\ up /\ \A m \in Namespaces : space[m] # "terminating"
        /\ \A i \in DOMAIN items : Decides(i, at) => space[items[i].declares] = items[i].level
        /\ \A i \in 1 .. at : items[i].ns # NoNamespace =>
             space[items[i].ns] # "absent" \/ items[i].ns \in nsNames
    BY <2>2 DEF CalmInv, Passed
  <2>4. \A m \in Namespaces : /\ space'[m] # "terminating"
                              /\ space[m] \in Levels => space'[m] = space[m]
                              /\ space[m] # "absent" \/ m = n => space'[m] # "absent"
    BY <2>2, <2>3 DEF ClusterInv, Levels
  <2>5. ASSUME NEW i \in DOMAIN items, Decides(i, at)
        PROVE  space'[items[i].declares] = items[i].level
    <3>1. items[i].declares \in Namespaces /\ items[i].level \in Levels
      BY <1>0, <2>5 DEF Decides, Names
    <3> QED BY <2>3, <2>4, <2>5, <3>1
  <2>6. ASSUME NEW i \in 1 .. at, items[i].ns # NoNamespace
        PROVE  space'[items[i].ns] # "absent" \/ items[i].ns \in nsNames'
    <3>1. i \in DOMAIN items
      BY <1>0, <2>2
    <3> QED BY <1>0, <2>2, <2>3, <2>4, <2>6, <3>1 DEF Names
  <2>7. Passed' = at /\ \A i \in DOMAIN items : Decides(i, Passed)' <=> Decides(i, at)
    BY <2>2 DEF Passed, Decides
  <2> QED BY <2>2, <2>3, <2>4, <2>5, <2>6, <2>7 DEF CalmInv
<1>4. CASE allCreated
  <2>1. /\ step = "namespaces" /\ at = Len(items) /\ nsNames = {} /\ step' = "dry-run"
        /\ UNCHANGED <<items, up, calm, space>>
    BY <1>4 DEF allCreated
  <2>2. Passed = Len(items) /\ Passed' = Len(items)
    BY <2>1 DEF Passed
  <2>3. \A i \in DOMAIN items : Decides(i, Passed)' <=> Decides(i, Passed)
    BY <2>1, <2>2 DEF Decides
  <2>4. /\ up /\ \A n \in Namespaces : space[n] # "terminating"
        /\ \A i \in DOMAIN items : Decides(i, Passed) => space[items[i].declares] = items[i].level
        /\ \A i \in 1 .. Passed : items[i].ns # NoNamespace => space[items[i].ns] # "absent"
    BY <2>1 DEF CalmInv
  <2> QED BY <2>1, <2>2, <2>3, <2>4 DEF CalmInv
<1>5. CASE runServerDryRun
  <2>1. UNCHANGED <<step, items, up, space, calm, nsNames>> /\ step = "dry-run"
    BY <1>5 DEF runServerDryRun
  <2>2. Passed' = Passed /\ \A i \in DOMAIN items : Decides(i, Passed)' <=> Decides(i, Passed)
    BY <2>1 DEF Passed, Decides
  <2> QED BY <2>1, <2>2 DEF CalmInv
<1>6. CASE Recover
  BY <1>6 DEF Recover, CalmInv
<1>7. CASE \E n \in Namespaces : NamespaceGone(n)
  BY <1>7 DEF NamespaceGone, CalmInv
<1>8. ~(Start \/ gatherManifests \/ runKubeconform \/ recordDryRun \/ runPluto \/ runDockerfiles
        \/ runCompose \/ runHelm \/ runKustomize \/ Outage \/ \E n \in Namespaces : DeleteNamespace(n))
  BY AfterHolds DEF Start, gatherManifests, runKubeconform, recordDryRun, runPluto,
     runDockerfiles,
     runCompose, runHelm, runKustomize, Finish, Outage, DeleteNamespace, Trouble
<1> QED BY <1>1, <1>2, <1>3, <1>4, <1>5, <1>6, <1>7, <1>8 DEF HarnessNext, HarnessScript
-----------------------------------------------------------------------------
(* The verdicts of the dry run.                                            *)

(* One more place is one more manifest, or none.                           *)
LEMMA OneMorePlace ==
  ASSUME NEW set, NEW n \in Nat
  PROVE  /\ Cardinality(set \cap (1 .. n)) \in Nat
         /\ Cardinality(set \cap (1 .. n + 1)) =
              Cardinality(set \cap (1 .. n)) + (IF n + 1 \in set THEN 1 ELSE 0)
         /\ Cardinality(set \cap (1 .. 0)) = 0
<1>1. IsFiniteSet(set \cap (1 .. n))
  <2>1. IsFiniteSet(1 .. n)
    BY FS_Interval
  <2> QED BY <2>1, FS_Intersection
<1>2. Cardinality(set \cap (1 .. n)) \in Nat
  BY <1>1, FS_CardinalityType
<1>3. Cardinality(set \cap (1 .. 0)) = 0
  <2>1. set \cap (1 .. 0) = {}
    OBVIOUS
  <2> QED BY <2>1, FS_EmptySet
<1>4. CASE n + 1 \in set
  <2>1. set \cap (1 .. n + 1) = (set \cap (1 .. n)) \cup {n + 1}
    BY <1>4
  <2>2. n + 1 \notin set \cap (1 .. n)
    OBVIOUS
  <2>3. Cardinality((set \cap (1 .. n)) \cup {n + 1}) = Cardinality(set \cap (1 .. n)) + 1
    BY <1>1, <2>2, FS_AddElement
  <2> QED BY <1>2, <1>3, <1>4, <2>1, <2>3
<1>5. CASE n + 1 \notin set
  <2>1. set \cap (1 .. n + 1) = set \cap (1 .. n)
    BY <1>5
  <2> QED BY <1>2, <1>3, <1>5, <2>1
<1> QED BY <1>4, <1>5

(* In a calm cluster the API server answers what the documents allow.      *)
LEMMA CalmAnswer ==
  ASSUME ClusterInv, OrderInv, CalmInv, step = "dry-run", calm,
         NEW i \in DOMAIN items, NEW answer \in Answers(items[i])
  PROVE  answer \in Among(items[i].verdict, Declared(items[i]))
<1> DEFINE it == items[i]
<1>1. items = Manifests
  BY DEF OrderInv, Early, Dry, Late
<1>2. /\ it \in Document /\ NoNamespace \notin Namespaces
      /\ it.ns \in Names /\ it.global \in BOOLEAN /\ i \in 1 .. Len(items)
  <2>1. it \in Document /\ i \in 1 .. Len(items)
    BY <1>1, ManifestsHold
  <2> QED BY <2>1, HarnessAssumption DEF Document
<1>3. /\ up /\ \A n \in Namespaces : space[n] \in {"absent", "open", "restricted"}
      /\ it.ns # NoNamespace => space[it.ns] # "absent"
      /\ \A j \in DOMAIN items : Decides(j, Len(items)) => space[items[j].declares] = items[j].level
  BY <1>2 DEF CalmInv, ClusterInv, Passed
<1>4. States(it) \subseteq Declared(it)
  <2>1. CASE it.global
    BY <2>1 DEF States, Declared
  <2>2. CASE ~it.global /\ it.ns = NoNamespace
    <3>1. Declared(it) = Levels \cup {"absent"}
      BY <2>2 DEF Declared
    <3>2. context = NoNamespace \/ (context \in Namespaces /\ States(it) = {space[context]})
      BY <2>2 DEF ClusterInv, Names, States
    <3>3. context = NoNamespace => States(it) = Levels
      BY <2>2 DEF States
    <3> QED BY <1>3, <3>1, <3>2, <3>3 DEF Levels
  <2>3. CASE ~it.global /\ it.ns # NoNamespace
    <3>1. Declared(it) = {l \in Levels : \A j \in DOMAIN items :
                            Decides(j, Len(items)) /\ items[j].declares = it.ns => items[j].level = l}
      BY <2>3 DEF Declared
    <3>2. States(it) = {space[it.ns]}
      BY <2>3 DEF States
    <3>3. space[it.ns] \in Levels
      BY <1>2, <1>3, <2>3 DEF Names, Levels
    <3>4. \A j \in DOMAIN items :
            Decides(j, Len(items)) /\ items[j].declares = it.ns => items[j].level = space[it.ns]
      BY <1>3
    <3> QED BY <3>1, <3>2, <3>3, <3>4
  <2> QED BY <1>2, <2>1, <2>2, <2>3
<1>5. answer \in Among(it.verdict, States(it))
  BY <1>3 DEF Answers
<1> HIDE DEF it
<1>6. answer \in Among(it.verdict, Declared(it))
  BY <1>4, <1>5 DEF Among
<1> QED BY <1>6 DEF it

(* A verdict has one counter; only an accepted manifest may pass.          *)
LEMMA CounterHolds ==
  ASSUME NEW reject, NEW answer
  PROVE  /\ Counter(reject, answer) \in CounterNames
         /\ Counter(reject, answer) = "pass" => ~reject /\ answer = "accept"
<1>1. CASE reject
  BY <1>1 DEF Counter, CounterNames
<1>2. CASE ~reject
  <2>1. CASE answer \in {"accept", "nocrd", "nons", "webhook"}
    BY <1>2, <2>1 DEF Counter, CounterNames
  <2>2. CASE answer \notin {"accept", "nocrd", "nons", "webhook"}
    BY <1>2, <2>2 DEF Counter, CounterNames
  <2> QED BY <2>1, <2>2
<1> QED BY <1>1, <1>2

(* No answer but to a document that may be accepted is acceptance.         *)
LEMMA AcceptedVerdict ==
  ASSUME NEW it \in Document, ClusterInv, "accept" \in Answers(it)
  PROVE  it.verdict \notin {"refuse", "removed"}
<1> SUFFICES ASSUME it.verdict \in {"refuse", "removed"} PROVE FALSE
  OBVIOUS
<1>1. "accept" \in Among(it.verdict, States(it))
  BY DEF Answers
<1>2. CASE it.verdict = "removed"
  BY <1>1, <1>2 DEF Among
<1>3. CASE it.verdict = "refuse"
  <2>1. PICK state \in States(it) : "accept" \in InState("refuse", state)
    BY <1>1, <1>3 DEF Among
  <2>2. state \in Levels \cup {"absent", "terminating"}
    <3>1. it.ns \in Names /\ it.global \in BOOLEAN
      BY DEF Document
    <3> QED BY <2>1, <3>1 DEF States, ClusterInv, Names, Levels
  <2>3. CASE state \in Levels
    BY <2>1, <2>3 DEF InState, Levels
  <2>4. CASE state \in {"absent", "terminating"}
    BY <2>1, <2>4 DEF InState, Levels
  <2> QED BY <2>2, <2>3, <2>4
<1> QED BY <1>2, <1>3

(* Where documents may be counted only depends on the documents.           *)
LEMMA OutcomesSame ==
  ASSUME UNCHANGED items
  PROVE  \A c : Sure(c)' = Sure(c) /\ May(c)' = May(c)
<1>1. \A j : Decides(j, Len(items))' <=> Decides(j, Len(items))
  BY DEF Decides
<1>2. \A it : Declared(it)' = Declared(it)
  BY <1>1 DEF Declared
<1>3. \A it : Outcomes(it)' = Outcomes(it)
  BY <1>2 DEF Outcomes, Among
<1> QED BY <1>3 DEF Sure, May

(* One more verdict in one counter.                                        *)
LEMMA OneMoreVerdict ==
  ASSUME NEW tally \in [CounterNames -> Nat], NEW next \in [CounterNames -> Nat],
         NEW key \in CounterNames, next[key] = tally[key] + 1,
         \A c \in CounterNames \ {key} : next[c] = tally[c]
  PROVE  next["pass"] + next["realFail"] + next["rejectedAsExpected"]
           + next["wronglyAccepted"] + next["skipCrd"] + next["skipNs"] + next["skipOther"]
         = tally["pass"] + tally["realFail"] + tally["rejectedAsExpected"]
             + tally["wronglyAccepted"] + tally["skipCrd"] + tally["skipNs"]
             + tally["skipOther"] + 1
<1>1. \A c \in CounterNames : tally[c] \in Nat /\ next[c] \in Nat
  OBVIOUS
<1> QED BY <1>1 DEF CounterNames

(* The counters start at zero.                                             *)
LEMMA NoCountsHold ==
  /\ NoCounts \in [CounterNames -> Nat] /\ \A c \in CounterNames : NoCounts[c] = 0
BY DEF NoCounts, CounterNames

(* The dry run counts every manifest once.                                 *)
LEMMA CountNext ==
  ClusterInv /\ OrderInv /\ CountInv /\ CalmInv /\ HarnessNext => CountInv'
<1> SUFFICES ASSUME ClusterInv, OrderInv, CountInv, CalmInv, HarnessNext PROVE CountInv'
  OBVIOUS
<1> USE DEF setup, cluster
<1>0. /\ counts \in [CounterNames -> Nat]
      /\ ~(step = "dry-run" \/ Recorded) => counts = NoCounts
      /\ step = "dry-run" => ~Recorded
  BY DEF CountInv, OrderInv, Early, Dry, Late, Recorded
<1>1. ASSUME ~Recorded', step' # "dry-run", counts' = NoCounts
      PROVE  CountInv'
  BY <1>1, NoCountsHold DEF CountInv
<1>2. ASSUME UNCHANGED <<items, at, counts>>, calm' => calm, Recorded' = Recorded,
             step' = "dry-run" <=> step = "dry-run"
      PROVE  CountInv'
  <2>1. \A c : Sure(c)' = Sure(c) /\ May(c)' = May(c)
    BY <1>2, OutcomesSame
  <2> QED BY <1>0, <1>2, <2>1 DEF CountInv, Total, Passable
<1>3. CASE Start \/ gatherManifests \/ runKubeconform \/ clusterInfo \/ namespacePass
           \/ \E n \in Namespaces : createNamespace(n)
  <2>1. step \in {"start", "manifests", "kubeconform", "cluster-info", "namespaces"}
    BY <1>3 DEF Start, gatherManifests, runKubeconform, clusterInfo, namespacePass,
       createNamespace
  <2>2. "kubectl-dry-run" \notin DOMAIN summary
    BY <2>1 DEF OrderInv, Early, Dry, Late
  <2>3. counts = NoCounts
    BY <1>0, <2>1, <2>2 DEF Recorded
  <2>4. counts' = NoCounts
    BY <1>3, <2>3 DEF Start, gatherManifests, runKubeconform, clusterInfo, namespacePass,
       createNamespace
  <2>5. step' # "dry-run" /\ ~Recorded'
    <3>1. CASE Start
      BY <2>2, <3>1, AfterHolds DEF Start, Late, Recorded
    <3>2. CASE gatherManifests
      BY <2>2, <3>2 DEF gatherManifests, Record, Recorded
    <3>3. CASE runKubeconform
      <4>1. PICK verdict, recorded :
              /\ recorded = Record(summary, "kubeconform", verdict)
              /\ IF withCluster
                 THEN step' = "cluster-info" /\ summary' = recorded
                 ELSE /\ step' = After("manifests", want)
                      /\ summary' = Record(Record(recorded, "kubectl-dry-run", "not-run"),
                                           "pluto", "not-run")
        BY <3>3 DEF runKubeconform
      <4>2. After("manifests", want) # "dry-run"
        BY AfterHolds DEF Late
      <4>3. CASE withCluster
        BY <2>2, <4>1, <4>3 DEF Record, Recorded
      <4>4. CASE ~withCluster
        BY <4>1, <4>2, <4>4 DEF Record, Recorded
      <4> QED BY <4>3, <4>4
    <3>4. CASE clusterInfo
      BY <2>2, <3>4 DEF clusterInfo, Record, Recorded
    <3>5. CASE namespacePass \/ \E n \in Namespaces : createNamespace(n)
      BY <2>2, <3>5 DEF namespacePass, createNamespace, Recorded
    <3> QED BY <1>3, <3>1, <3>2, <3>3, <3>4, <3>5
  <2> QED BY <1>1, <2>4, <2>5
<1>4. CASE allCreated
  <2>1. /\ step = "namespaces" /\ step' = "dry-run" /\ at' = 0 /\ UNCHANGED <<counts, summary>>
    BY <1>4 DEF allCreated
  <2>2. ~Recorded /\ ~Recorded'
    BY <2>1 DEF OrderInv, Early, Dry, Late, Recorded
  <2>3. counts' = NoCounts
    BY <1>0, <2>1, <2>2
  <2>4. \A set : Cardinality(set \cap (1 .. 0)) = 0
    BY OneMorePlace
  <2>5. counts' \in [CounterNames -> Nat] /\ \A c \in CounterNames : counts'[c] = 0
    BY <2>3, NoCountsHold
  <2>6. Total' = 0 /\ counts'["pass"] = 0
    BY <2>5 DEF Total, CounterNames
  <2> QED BY <2>1, <2>2, <2>4, <2>5, <2>6 DEF CountInv
<1>5. CASE runServerDryRun
  <2> DEFINE it == items[at + 1]
  <2>1. /\ step = "dry-run" /\ at < Len(items) /\ at' = at + 1
        /\ UNCHANGED <<step, items, summary, calm>>
    BY <1>5 DEF runServerDryRun
  <2>2. PICK answer \in Answers(it) :
          counts' = [counts EXCEPT ![Counter(Rejected(it), answer)] = @ + 1]
    BY <1>5 DEF runServerDryRun
  <2>3. at + 1 \in DOMAIN items /\ at \in Nat
    <3>1. items \in Seq(Document)
      BY <2>1, ManifestsHold DEF OrderInv, Early, Dry, Late
    <3>2. at \in 0 .. Len(items)
      BY DEF OrderInv
    <3> QED BY <2>1, <3>1, <3>2
  <2> DEFINE key == Counter(Rejected(it), answer)
  <2>4. key \in CounterNames /\ (key = "pass" => ~Rejected(it) /\ answer = "accept")
    BY CounterHolds
  <2>5. ~Recorded /\ ~Recorded'
    BY <1>0, <2>1 DEF Recorded
  <2>6. /\ Total = at /\ counts["pass"] <= Cardinality(Passable \cap (1 .. at))
        /\ calm => \A c \in CounterNames :
                     /\ Cardinality(Sure(c) \cap (1 .. at)) <= counts[c]
                     /\ counts[c] <= Cardinality(May(c) \cap (1 .. at))
    BY <2>1 DEF CountInv
  <2>7. Passable' = Passable /\ \A c : Sure(c)' = Sure(c) /\ May(c)' = May(c)
    BY <2>1, OutcomesSame DEF Passable
  <2>8. /\ counts' \in [CounterNames -> Nat]
        /\ counts'[key] = counts[key] + 1 /\ \A c \in CounterNames \ {key} : counts'[c] = counts[c]
        /\ Total' = Total + 1
    <3> HIDE DEF key
    <3>1. counts' = [counts EXCEPT ![key] = @ + 1]
      BY <2>2 DEF key
    <3>2. /\ counts' \in [CounterNames -> Nat]
          /\ counts'[key] = counts[key] + 1
          /\ \A c \in CounterNames \ {key} : counts'[c] = counts[c]
      BY <1>0, <2>4, <3>1
    <3>3. Total' = Total + 1
      <4> DEFINE next == counts'
      <4>1. /\ counts \in [CounterNames -> Nat] /\ next \in [CounterNames -> Nat]
            /\ key \in CounterNames /\ next[key] = counts[key] + 1
            /\ \A c \in CounterNames \ {key} : next[c] = counts[c]
        BY <1>0, <2>4, <3>2
      <4>2. Total' = next["pass"] + next["realFail"] + next["rejectedAsExpected"]
              + next["wronglyAccepted"] + next["skipCrd"] + next["skipNs"] + next["skipOther"]
        BY DEF Total
      <4> HIDE DEF next
      <4>3. next["pass"] + next["realFail"] + next["rejectedAsExpected"]
              + next["wronglyAccepted"] + next["skipCrd"] + next["skipNs"] + next["skipOther"]
            = counts["pass"] + counts["realFail"] + counts["rejectedAsExpected"]
                + counts["wronglyAccepted"] + counts["skipCrd"] + counts["skipNs"]
                + counts["skipOther"] + 1
        BY <4>1, OneMoreVerdict
      <4>4. Total = counts["pass"] + counts["realFail"] + counts["rejectedAsExpected"]
              + counts["wronglyAccepted"] + counts["skipCrd"] + counts["skipNs"]
              + counts["skipOther"]
        BY DEF Total
      <4>5. /\ counts["pass"] \in Nat /\ counts["realFail"] \in Nat
            /\ counts["rejectedAsExpected"] \in Nat /\ counts["wronglyAccepted"] \in Nat
            /\ counts["skipCrd"] \in Nat /\ counts["skipNs"] \in Nat
            /\ counts["skipOther"] \in Nat
        BY <4>1 DEF CounterNames
      <4> QED BY <4>2, <4>3, <4>4, <4>5
    <3> QED BY <3>2, <3>3
  <2>9. key = "pass" => at + 1 \in Passable
    <3>1. answer = "accept" => it.verdict \notin {"refuse", "removed"}
      <4>1. it \in Document
        BY <2>1, <2>3, ManifestsHold DEF OrderInv, Early, Dry, Late
      <4> QED BY <4>1, AcceptedVerdict
    <3> QED BY <2>3, <2>4, <3>1 DEF Passable
  <2>10. calm => \A c : /\ at + 1 \in Sure(c) => c = key
                        /\ c = key => at + 1 \in May(c)
    <3>1. calm => answer \in Among(it.verdict, Declared(it))
      BY <2>1, <2>3, CalmAnswer
    <3>2. calm => key \in Outcomes(it)
      BY <3>1 DEF Outcomes
    <3> HIDE DEF key
    <3> QED BY <2>3, <3>2 DEF Sure, May
  <2> HIDE DEF key, it
  <2>11. \A set : /\ Cardinality(set \cap (1 .. at)) \in Nat
                  /\ Cardinality(set \cap (1 .. at + 1)) =
                       Cardinality(set \cap (1 .. at)) + (IF at + 1 \in set THEN 1 ELSE 0)
    BY <2>3, OneMorePlace
  <2>12. counts'["pass"] <= Cardinality(Passable \cap (1 .. at + 1))
    <3>1. counts["pass"] \in Nat
      BY <1>0 DEF CounterNames
    <3>2. counts'["pass"] = counts["pass"] + (IF key = "pass" THEN 1 ELSE 0)
      <4>1. "pass" \in CounterNames
        BY DEF CounterNames
      <4> QED BY <2>8, <3>1, <4>1
    <3>3. /\ Cardinality(Passable \cap (1 .. at)) \in Nat
          /\ Cardinality(Passable \cap (1 .. at + 1)) =
               Cardinality(Passable \cap (1 .. at)) + (IF at + 1 \in Passable THEN 1 ELSE 0)
      BY <2>11
    <3> QED BY <2>6, <2>9, <3>1, <3>2, <3>3
  <2>13. ASSUME calm, NEW c \in CounterNames
         PROVE  /\ Cardinality(Sure(c) \cap (1 .. at + 1)) <= counts'[c]
                /\ counts'[c] <= Cardinality(May(c) \cap (1 .. at + 1))
    <3>1. /\ Cardinality(Sure(c) \cap (1 .. at)) \in Nat
          /\ Cardinality(Sure(c) \cap (1 .. at + 1)) =
               Cardinality(Sure(c) \cap (1 .. at)) + (IF at + 1 \in Sure(c) THEN 1 ELSE 0)
          /\ Cardinality(May(c) \cap (1 .. at)) \in Nat
          /\ Cardinality(May(c) \cap (1 .. at + 1)) =
               Cardinality(May(c) \cap (1 .. at)) + (IF at + 1 \in May(c) THEN 1 ELSE 0)
      BY <2>11
    <3>2. counts[c] \in Nat /\ counts'[c] = counts[c] + (IF c = key THEN 1 ELSE 0)
      <4>1. counts[c] \in Nat
        BY <1>0
      <4> QED BY <2>8, <4>1
    <3>3. /\ Cardinality(Sure(c) \cap (1 .. at)) <= counts[c]
          /\ counts[c] <= Cardinality(May(c) \cap (1 .. at))
      BY <2>6, <2>13
    <3>4. (at + 1 \in Sure(c) => c = key) /\ (c = key => at + 1 \in May(c))
      BY <2>10, <2>13
    <3> QED BY <3>1, <3>2, <3>3, <3>4
  <2> QED BY <2>1, <2>5, <2>6, <2>7, <2>8, <2>12, <2>13 DEF CountInv
<1>6. CASE recordDryRun
  <2>1. /\ step = "dry-run" /\ at = Len(items) /\ step' = "pluto"
        /\ UNCHANGED <<items, at, counts, calm>>
    BY <1>6 DEF recordDryRun
  <2>2. Recorded'
    BY <1>6 DEF recordDryRun, Record, Recorded
  <2>3. \A c : Sure(c)' = Sure(c) /\ May(c)' = May(c)
    BY <2>1, OutcomesSame
  <2> QED BY <2>1, <2>2, <2>3 DEF CountInv, Total, Passable
<1>7. CASE runPluto \/ runDockerfiles \/ runCompose \/ runHelm \/ runKustomize
  <2>1. PICK phase, key, verdict :
          /\ phase \in {"pluto", "dockerfiles", "compose", "helm", "kustomize"}
          /\ key \in {"pluto", "hadolint", "compose", "helm", "kustomize"}
          /\ step = phase /\ step' = After(IF phase = "pluto" THEN "manifests" ELSE phase, want)
          /\ summary' = Record(summary, key, verdict)
          /\ UNCHANGED <<items, at, counts, calm>>
    <3>1. CASE runPluto
      BY <3>1 DEF runPluto
    <3>2. CASE runDockerfiles
      BY <3>2 DEF runDockerfiles, Finish
    <3>3. CASE runCompose
      BY <3>3 DEF runCompose, Finish
    <3>4. CASE runHelm
      BY <3>4 DEF runHelm, Finish
    <3>5. CASE runKustomize
      BY <3>5 DEF runKustomize, Finish
    <3> QED BY <1>7, <3>1, <3>2, <3>3, <3>4, <3>5
  <2>2. step # "dry-run" /\ step' # "dry-run"
    BY <2>1, AfterHolds DEF Late
  <2>3. Recorded' <=> Recorded
    BY <2>1 DEF Record, Recorded
  <2> QED BY <1>2, <2>1, <2>2, <2>3 DEF Recorded
<1>8. CASE Outage \/ Recover \/ \E n \in Namespaces : DeleteNamespace(n) \/ NamespaceGone(n)
  BY <1>2, <1>8 DEF Outage, Recover, DeleteNamespace, NamespaceGone, Trouble, Recorded
<1> QED BY <1>3, <1>4, <1>5, <1>6, <1>7, <1>8 DEF HarnessNext, HarnessScript

(* The script starts with nothing gathered and nothing counted.            *)
LEMMA HarnessInitHolds == HarnessInit => HarnessInv
<1> SUFFICES ASSUME HarnessInit PROVE HarnessInv
  OBVIOUS
<1>1. ClusterInv
  <2>1. troubles \in 0 .. MaxTroubles
    BY HarnessAssumption DEF HarnessInit
  <2>2. space \in [Namespaces -> {"absent", "open", "restricted", "terminating"}]
    BY DEF HarnessInit
  <2>3. context \in Names
    BY DEF HarnessInit, Names
  <2> QED BY <2>1, <2>2, <2>3 DEF HarnessInit, ClusterInv
<1>2. OrderInv
  BY DEF HarnessInit, OrderInv, Early, Dry, Late
<1>3. CountInv
  BY NoCountsHold DEF HarnessInit, CountInv, Recorded
<1>4. CalmInv
  BY DEF HarnessInit, CalmInv
<1> QED BY <1>1, <1>2, <1>3, <1>4 DEF HarnessInv

(* The whole invariant of the harness.                                     *)
LEMMA HarnessInvHolds == HarnessSpec => []HarnessInv
<1>1. HarnessInv /\ [HarnessNext]_harnessVars => HarnessInv'
  <2> SUFFICES ASSUME HarnessInv, [HarnessNext]_harnessVars PROVE HarnessInv'
    OBVIOUS
  <2>1. CASE HarnessNext
    BY <2>1, OrderNext, ClusterNext, CountNext, CalmNext DEF HarnessInv
  <2>2. CASE UNCHANGED harnessVars
    <3>1. UNCHANGED <<step, setup, items, at, nsNames, counts, summary, cluster>>
      BY <2>2 DEF harnessVars
    <3>2. \A c : Sure(c)' = Sure(c) /\ May(c)' = May(c)
      BY <3>1, OutcomesSame
    <3>3. Passed' = Passed /\ \A i : Decides(i, Passed)' <=> Decides(i, Passed)
      BY <3>1 DEF Passed, Decides
    <3>4. CalmInv'
      BY <3>1, <3>3 DEF HarnessInv, CalmInv, cluster
    <3>5. CountInv'
      BY <3>1, <3>2 DEF HarnessInv, CountInv, Recorded, Total, Passable, cluster
    <3> QED BY <3>1, <3>4, <3>5 DEF setup, cluster, HarnessInv, ClusterInv, OrderInv, Recorded, Removed
  <2> QED BY <2>1, <2>2
<1> QED BY <1>1, HarnessInitHolds, PTL DEF HarnessSpec

(* No counter passes the number of manifests, and the state is what the    *)
(* script can hold, at every step of scripts/harness.mjs.                  *)
THEOREM HarnessTypeCorrect == HarnessSpec => []HarnessTypeOK
<1>1. HarnessInv => HarnessTypeOK
  <2> SUFFICES ASSUME HarnessInv PROVE HarnessTypeOK
    OBVIOUS
  <2>1. ClusterInv /\ items \in {<<>>, Manifests} /\ at \in 0 .. Len(items)
    BY DEF HarnessInv, OrderInv
  <2>2. Len(items) \in Nat
    BY <2>1, ManifestsHold
  <2>3. counts \in [CounterNames -> Nat] /\ DOMAIN counts = CounterNames
    BY DEF HarnessInv, CountInv
  <2>4. ASSUME NEW c \in CounterNames
        PROVE  counts[c] \in 0 .. Len(items)
    <3>1. CASE step = "dry-run" \/ Recorded
      <4>1. Total = at
        BY <3>1 DEF HarnessInv, CountInv
      <4>2. /\ counts["pass"] \in Nat /\ counts["realFail"] \in Nat
            /\ counts["rejectedAsExpected"] \in Nat /\ counts["wronglyAccepted"] \in Nat
            /\ counts["skipCrd"] \in Nat /\ counts["skipNs"] \in Nat /\ counts["skipOther"] \in Nat
        BY <2>3 DEF CounterNames
      <4>3. counts[c] <= Total
        BY <4>2 DEF Total, CounterNames
      <4> QED BY <2>1, <2>2, <2>3, <4>1, <4>3
    <3>2. CASE ~(step = "dry-run" \/ Recorded)
      <4>1. counts = NoCounts
        BY <3>2 DEF HarnessInv, CountInv
      <4> QED BY <2>2, <4>1, NoCountsHold
    <3> QED BY <3>1, <3>2
  <2> QED BY <2>1, <2>3, <2>4 DEF ClusterInv, HarnessTypeOK
<1> QED BY <1>1, HarnessInvHolds, PTL

(* If nothing disturbs the cluster, the dry run of scripts/harness.mjs     *)
(* counts every document where the documents alone allow it, whatever      *)
(* namespaces, levels, policies and add-ons earlier labs left and wherever *)
(* the context points; if something does, every document is still counted  *)
(* once, none passes that the API server refuses everywhere or that should *)
(* have been rejected, and pluto finds the removed APIs.                   *)
THEOREM VerdictsAreTrueHolds == HarnessSpec => []VerdictsAreTrue
<1>1. HarnessInv => VerdictsAreTrue
  <2> SUFFICES ASSUME HarnessInv, Recorded PROVE VerdictsAreTrue
    BY DEF VerdictsAreTrue, Recorded, DryRunDone
  <2>1. /\ counts \in [CounterNames -> Nat] /\ DOMAIN counts = CounterNames
        /\ at = Len(items) /\ Total = at
        /\ counts["pass"] <= Cardinality(Passable \cap (1 .. at))
        /\ calm => \A c \in CounterNames :
                     /\ Cardinality(Sure(c) \cap (1 .. at)) <= counts[c]
                     /\ counts[c] <= Cardinality(May(c) \cap (1 .. at))
    BY DEF HarnessInv, CountInv
  <2>2. DOMAIN items = 1 .. Len(items)
    <3>1. <<>> \in Seq(Document) /\ Manifests \in Seq(Document)
      BY ManifestsHold
    <3>2. items = <<>> \/ items = Manifests
      BY DEF HarnessInv, OrderInv
    <3> QED BY <3>1, <3>2
  <2>3. /\ Passable \cap (1 .. at) = Passable
        /\ \A c : Sure(c) \cap (1 .. at) = Sure(c) /\ May(c) \cap (1 .. at) = May(c)
    BY <2>1, <2>2 DEF Passable, Sure, May
  <2>4. calm => \A c \in DOMAIN counts :
                  Cardinality(Sure(c)) <= counts[c] /\ counts[c] <= Cardinality(May(c))
    BY <2>1, <2>3
  <2>5. \A i \in DOMAIN items : items[i].verdict = "removed" /\ ~items[i].old =>
          ("pluto" \in DOMAIN summary => summary["pluto"] \in {"found", "not-run"})
    BY DEF HarnessInv, OrderInv, Removed
  <2>6. counts["pass"] <= Cardinality(Passable)
    BY <2>1, <2>3
  <2>7. Total = Len(items)
    BY <2>1
  <2> QED BY <2>4, <2>5, <2>6, <2>7 DEF VerdictsAreTrue, Passable, Total
<1> QED BY <1>1, HarnessInvHolds, PTL

-----------------------------------------------------------------------------
(* The handbook as a whole.                                                *)

(* HandbookTypeOK for every value of the constants: the machines share     *)
(* nothing, so that a behaviour of the handbook is one of each of them,    *)
(* and the types hold that each keeps by itself.                           *)
THEOREM HandbookTypeCorrect == HandbookSpec => []HandbookTypeOK
<1> DEFINE known == machine \in {"site", "scan", "page", "harness"}
<1>1. HandbookInit => known /\ Init /\ ScanInit /\ PageInit /\ HarnessInit
  BY DEF HandbookInit
<1>2. [HandbookNext]_handbookVars =>
        [Next]_vars /\ [ScanNext]_scanVars /\ [PageNext]_pageVars /\ [HarnessNext]_harnessVars
  BY DEF HandbookNext, handbookVars, vars, scanVars, pageVars, harnessVars
<1>3. known /\ [HandbookNext]_handbookVars => known'
  BY DEF HandbookNext, handbookVars
<1>4. known /\ TypeOK /\ ScanTypeOK /\ PageTypeOK /\ HarnessTypeOK => HandbookTypeOK
  BY DEF HandbookTypeOK
<1>5. HandbookSpec => Spec /\ ScanSpec /\ PageSpec /\ HarnessSpec /\ []known
  BY <1>1, <1>2, <1>3, PTL DEF HandbookSpec, Spec, ScanSpec, PageSpec, HarnessSpec
<1> QED
  BY <1>4, <1>5, SiteTypeCorrect, ScanTypeCorrect, PageTypeCorrect, HarnessTypeCorrect, PTL
=============================================================================
