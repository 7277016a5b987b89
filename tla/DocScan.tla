------------------------------ MODULE DocScan ------------------------------
(***************************************************************************)
(* A handbook page, read line by line by every tool of the repository at   *)
(* once.  The renderer, the checker and the harness each find the code     *)
(* fences, headings and callouts of a page with a scanner of their own;    *)
(* the author means one thing.                                             *)
(*                                                                         *)
(* A line is what the scanners tell apart: its kind, for a fence its       *)
(* character, for a fence, a container or a list item a length, how far it *)
(* is indented, and what it says; a row stands for a table's line, a       *)
(* header and its separator for one.  The recursion of renderBlocks is a   *)
(* stack: the outermost block sees a line first.                           *)
(***************************************************************************)
EXTENDS Integers, Sequences, SequencesExt, FiniteSets

CONSTANTS
  Lines,     (* the lines an author writes                                  *)
  MaxHeads   (* bound: headings of one page                                 *)

(* What an opening fence says.  Of the blocks in YAML some have no title   *)
(* ("yaml", "yml"), a title that ends in .yaml ("titled") or another one   *)
(* ("named"), or include a YAML file ("include") or another file ("part"); *)
(* two are flagged.  "docker" is a Dockerfile with a title, "other" a      *)
(* block in any other language, and "none" says nothing.                   *)
Flagged == {"fragment", "legacy"}
Yaml == {"yaml", "yml", "titled", "named", "include", "part"}
Infos == Yaml \cup Flagged \cup {"docker", "other", "none"}

(* The bans of validateBans, by where they hold: removed APIs everywhere,  *)
(* docker-compose, dockershim and installing ingress-nginx in prose only,  *)
(* and :latest in manifests and Dockerfiles that have a title or include.  *)
Bans == {"removed", "prose", "latest"}

(* The patterns of the scanners: three or more characters make a fence or  *)
(* a container, four or more colons make tabs, and an item's text is       *)
(* indented.                                                               *)
ASSUME ScanAssumption ==
  /\ Lines \subseteq [k : {"blank", "text", "head", "fence", "item", "html",
                           "quote", "row", "rule", "open", "close", "tab"},
                      c : STRING, n : Nat, ind : Nat, w : STRING]
  /\ \A line \in Lines :
       /\ line.k = "fence" => line.c \in {"tick", "tilde"} /\ line.n >= 3 /\ line.w \in Infos
       /\ line.k \in {"open", "close"} => line.n >= 3
       /\ line.k = "open" /\ line.w = "tabs" => line.n >= 4
       /\ line.k = "item" => line.n > 0
  /\ MaxHeads \in Nat

VARIABLES
  page,      (* what the author means: the code block, containers and item  *)
             (* the next line is in, and what the line before it was        *)
  rendered,  (* renderBlocks: open blocks, innermost block, headings        *)
  anchors,   (* getHeadings: fence and headings                             *)
  linkFence, (* validateLinks: the fence, "none" outside code               *)
  block,     (* extractBlocks: the code block                               *)
  banFence,  (* validateBans: "none" outside code, in it what the fence     *)
             (* makes of the bans: "skip", "titled" or "scan"               *)
  skipping,  (* skipRanges: colons of the legacy callout, 0 for none        *)
  extracted  (* extractFromMarkdown: the code block                         *)

scanVars == <<page, rendered, anchors, linkFence, block, banFence, skipping, extracted>>

NoBlock == [c |-> "none", n |-> 0, w |-> "none", manifest |-> FALSE]

CutAt(s, i) == SubSeq(s, 1, i)

-----------------------------------------------------------------------------
(* Headings                                                                *)

(* A slug is a base and the numbers put after it: the heading "A-2" has    *)
(* the slug that the second heading "A" would get.                         *)
Slug(text) == IF text = "A-2" THEN <<"A", 2>> ELSE <<text>>

UniqueSlug(base, seen) ==
  IF base \notin seen THEN base
  ELSE LET free == {n \in 2 .. Cardinality(seen) + 2 : Append(base, n) \notin seen}
       IN Append(base, CHOOSE n \in free : \A m \in free : n <= m)

AddHeading(heads, text) ==
  Append(heads, UniqueSlug(Slug(text), {heads[i] : i \in DOMAIN heads}))

-----------------------------------------------------------------------------
(* Fences                                                                  *)

(* The line that closes the block b: its character, as long or longer,     *)
(* nothing after it, indented in any way.                                  *)
Closes(line, b) ==
  line.k = "fence" /\ line.c = b.c /\ line.n >= b.n /\ line.w = "none"

OpenBlock(line) == [c |-> line.c, n |-> line.n, w |-> line.w, manifest |-> FALSE]

InBlock(b, line) ==
  IF line.w = "manifest" THEN [b EXCEPT !.manifest = TRUE] ELSE b

ExtractBlocks(b, line) ==
  CASE b.c = "none" /\ line.k = "fence" -> OpenBlock(line)
    [] b.c # "none" /\ Closes(line, b)  -> NoBlock
    [] b.c # "none" /\ ~Closes(line, b) -> InBlock(b, line)
    [] OTHER -> b

(* The harness knows fences of backticks at the margin only.               *)
ExtractFromMarkdown(b, line) ==
  CASE b.c = "none" /\ line.k = "fence" /\ line.c = "tick" /\ line.ind = 0 -> OpenBlock(line)
    [] b.c # "none" /\ Closes(line, b) /\ line.ind = 0 -> NoBlock
    [] b.c # "none" /\ ~(Closes(line, b) /\ line.ind = 0) -> InBlock(b, line)
    [] OTHER -> b

(* Mutant: headings are found in code as well.                             *)
GetHeadingsInCode(s, line) ==
  IF line.k = "head" THEN [s EXCEPT !.heads = AddHeading(@, line.w)] ELSE s

(* A fence is closed by any fence of its character.                        *)
GetHeadings(s, line) ==
  CASE line.k = "fence" /\ s.fence = "none"      -> [s EXCEPT !.fence = line.c]
    [] line.k = "fence" /\ s.fence = line.c  -> [s EXCEPT !.fence = "none"]
    [] line.k = "head" /\ s.fence = "none"       -> [s EXCEPT !.heads = AddHeading(@, line.w)]
    [] OTHER -> s

(* A fence is closed by any fence at all.                                  *)
LinkFence(f, line) ==
  IF line.k # "fence" THEN f ELSE IF f = "none" THEN line.c ELSE "none"

BanMode(w) ==
  CASE w \in Flagged -> "skip"
    [] w \in {"titled", "named", "include", "part", "docker"} -> "titled"
    [] OTHER -> "scan"

(* A fence is closed by any fence with nothing after it.                   *)
BanFence(f, line) ==
  CASE line.k = "fence" /\ f # "none" /\ line.w = "none" -> "none"
    [] line.k = "fence" /\ f = "none" -> BanMode(line.w)
    [] OTHER -> f

(* Mutant: any bare line of colons closes a legacy callout.                *)
SkipRangesAny(n, line) ==
  CASE n = 0 /\ line.k = "open" /\ line.w = "legacy" -> line.n
    [] n > 0 /\ line.k = "close" -> 0
    [] OTHER -> n

(* A legacy callout is closed by the first bare line of as many colons,    *)
(* in code or not.                                                         *)
SkipRanges(n, line) ==
  CASE n = 0 /\ line.k = "open" /\ line.w = "legacy" -> line.n
    [] n > 0 /\ line.k = "close" /\ line.n = n       -> 0
    [] OTHER -> n

-----------------------------------------------------------------------------
(* renderBlocks.  Open blocks: callouts and tabs ("box") wait for a bare   *)
(* line of n colons, a list item ("item") ends where a line is indented    *)
(* less than n.  HouseStyle puts no box into an item, so an item is last.  *)

NoLeaf == [k |-> "none", c |-> "none", n |-> 0, w |-> "none"]
Leaf(line) == [k |-> line.k, c |-> line.c, n |-> line.n, w |-> line.w]
Para == [NoLeaf EXCEPT !.k = "text"]

Frame(line) == [k |-> line.k, n |-> line.n, w |-> line.w, depth |-> 1, on |-> FALSE]
IsTabs(frame) == frame.k = "open" /\ frame.n >= 4 /\ frame.w = "tabs"

IsBlockStart(line) ==
  \/ line.k \in {"blank", "open", "head", "item", "quote", "rule"}
  \/ line.k = "fence" /\ line.ind = 0

(* A line where no block of renderBlocks is under way.                     *)
NewBlock(r, line) ==
  CASE line.k \in {"blank", "rule"}   -> [r EXCEPT !.leaf = NoLeaf]
    [] line.k \in {"fence", "html", "quote", "row"} -> [r EXCEPT !.leaf = Leaf(line)]
    [] line.k = "open" -> [r EXCEPT !.stack = Append(@, Frame(line)), !.leaf = NoLeaf]
    [] line.k = "item" -> [r EXCEPT !.stack = Append(@, Frame(line)), !.leaf = Para]
    [] line.k = "head" -> [r EXCEPT !.heads = AddHeading(@, line.w), !.leaf = NoLeaf]
    [] OTHER -> [r EXCEPT !.leaf = Para]

(* A line for the innermost block of renderBlocks.                         *)
renderBlocks(r, line) ==
  CASE r.leaf.k = "fence" -> IF Closes(line, r.leaf) THEN [r EXCEPT !.leaf = NoLeaf] ELSE r
    [] r.leaf.k = "html"  -> IF line.k = "blank" THEN [r EXCEPT !.leaf = NoLeaf] ELSE r
    [] r.leaf.k = "text" /\ ~IsBlockStart(line)         -> r
    [] r.leaf.k \in {"quote", "row"} /\ line.k = r.leaf.k -> r
    [] OTHER -> NewBlock(r, line)

(* A list item takes the lines indented to its text and the blank ones.    *)
parseList(r, line) ==
  LET top == Len(r.stack) IN
  IF top = 0 \/ r.stack[top].k # "item" THEN renderBlocks(r, line)
  ELSE IF line.k = "blank" THEN renderBlocks(r, line)
  ELSE IF line.ind >= r.stack[top].n
       THEN renderBlocks(r, [line EXCEPT !.ind = @ - r.stack[top].n])
  ELSE NewBlock([r EXCEPT !.stack = CutAt(@, top - 1)], line)

(* Tabs cut their lines at every @tab, in code or not, and drop the lines  *)
(* before the first one.                                                   *)
renderTabs(r, line) ==
  LET tabs == {i \in DOMAIN r.stack : IsTabs(r.stack[i])} IN
  IF tabs # {} /\ line.k = "tab"
  THEN LET i == CHOOSE t \in tabs : \A u \in tabs : t <= u
       IN [r EXCEPT !.stack = [CutAt(@, i) EXCEPT ![i].on = TRUE], !.leaf = NoLeaf]
  ELSE IF \E t \in tabs : ~r.stack[t].on THEN r ELSE parseList(r, line)

(* Mutant: a bare line of colons closes every box.                         *)
CountedAnyClose(frame, line) ==
  CASE frame.k = "item"   -> frame
    [] line.k = "open" /\ line.n = frame.n -> [frame EXCEPT !.depth = @ + 1]
    [] line.k = "close"  -> [frame EXCEPT !.depth = @ - 1]
    [] OTHER -> frame

(* A box counts the opening and closing lines of its own length, in code   *)
(* or not, and the outermost box counts first.                             *)
Counted(frame, line) ==
  IF frame.k = "item" \/ line.n # frame.n THEN frame
  ELSE CASE line.k = "open"  -> [frame EXCEPT !.depth = @ + 1]
         [] line.k = "close" -> [frame EXCEPT !.depth = @ - 1]
         [] OTHER -> frame

renderContainer(r, line) ==
  LET counted == [i \in DOMAIN r.stack |-> Counted(r.stack[i], line)]
      ended   == {i \in DOMAIN counted : counted[i].depth = 0}
  IN IF ended = {} THEN renderTabs([r EXCEPT !.stack = counted], line)
     ELSE LET i == CHOOSE e \in ended : \A f \in ended : e <= f
          IN [r EXCEPT !.stack = CutAt(counted, i - 1), !.leaf = NoLeaf]

-----------------------------------------------------------------------------
(* The author.  Lines are written the way the pages under content/ are (a  *)
(* few have a list or a callout in an item): three backticks around code,  *)
(* at the margin or under the text of an item after a blank line; no fence *)
(* or colons in code and none of its lines left of its fence; items,       *)
(* headings and containers at the margin, one container in another only    *)
(* with another number of colons and no tabs in tabs; tabs begin with a    *)
(* tab; a blank line after HTML.                                           *)

InCode == page.code >= 0
Inner == IF page.boxes = <<>> THEN NoBlock ELSE Last(page.boxes)

HouseStyle(line) ==
  /\ InCode => \/ line.k = "blank"
               \/ line.k \in {"text", "head"} /\ line.ind >= page.code
               \/ Closes(line, OpenBlock(page.fence)) /\ line.ind = page.code
  /\ page.html => line.k \in {"text", "blank"}
  /\ page.fresh => line.k \in {"tab", "blank"}
  /\ ~InCode =>
       /\ line.k \in {"item", "head", "open", "close", "tab"} => line.ind = 0
       /\ line.k = "fence" => /\ line.c = "tick" /\ line.n = 3
                              /\ line.ind > 0 => line.ind = page.item /\ page.blank
       /\ line.k = "open"  =>
            \A i \in DOMAIN page.boxes :
              /\ page.boxes[i].n # line.n
              /\ line.w = "tabs" => page.boxes[i].w # "tabs"
       /\ line.k = "close" => line.n = Inner.n
       /\ line.k = "tab"   => Inner.w = "tabs"
       /\ line.k = "text"  => line.ind \in {0, page.item}
       /\ line.k = "head"  => Len(anchors.heads) < MaxHeads

Meaning(p, line) ==
  LET q == [p EXCEPT !.blank = line.k = "blank",
                     !.html = ~InCode /\ (line.k = "html" \/ (@ /\ line.k # "blank")),
                     !.item = IF InCode \/ line.k = "blank" \/ (line.ind >= @ /\ line.k # "item")
                              THEN @ ELSE 0]
  IN IF InCode THEN IF line.k = "fence" THEN [q EXCEPT !.code = -1] ELSE q
     ELSE CASE line.k = "fence" -> [q EXCEPT !.code = line.ind, !.fence = line]
            [] line.k = "open"  -> [q EXCEPT !.boxes = Append(@, [n |-> line.n, w |-> line.w]),
                                             !.fresh = line.w = "tabs"]
            [] line.k = "close" -> [q EXCEPT !.boxes = CutAt(@, Len(@) - 1)]
            [] line.k = "tab"   -> [q EXCEPT !.fresh = FALSE]
            [] line.k = "item"  -> [q EXCEPT !.item = line.n]
            [] OTHER -> q

-----------------------------------------------------------------------------
(* validateCodeBlocks: a manifest needs a title, an include or a flag.     *)
validateCodeBlocks(b) == b.manifest /\ b.w \in {"yaml", "legacy"}

(* What extractFromMarkdown gives the API server: the file an include      *)
(* names if it is YAML; else a block in YAML, if its title ends in .yaml   *)
(* or, without a title, if it looks like a manifest.                       *)
Taken(b) ==
  \/ b.w \in {"include", "titled"}
  \/ b.manifest /\ b.w \in {"yaml", "yml", "part"}

(* Whether a line here that breaks the ban is reported: not on a page that *)
(* is skipped as a whole (migration, or its status legacy or deprecated),  *)
(* in a legacy callout or a flagged block.                                 *)
validateBans(pageSkip, ban) ==
  /\ ~pageSkip /\ skipping = 0
  /\ \/ banFence = "none" /\ ban \in {"removed", "prose"}
     \/ banFence \in {"scan", "titled"} /\ ban = "removed"
     \/ banFence = "titled" /\ ban = "latest"

ScanInit ==
  /\ page = [code |-> -1, fence |-> [k |-> "blank", c |-> "none", n |-> 0, ind |-> 0, w |-> "none"],
             boxes |-> <<>>, item |-> 0, html |-> FALSE, fresh |-> FALSE, blank |-> TRUE]
  /\ rendered = [stack |-> <<>>, leaf |-> NoLeaf, heads |-> <<>>]
  /\ anchors = [fence |-> "none", heads |-> <<>>]
  /\ linkFence = "none" /\ block = NoBlock /\ banFence = "none" /\ skipping = 0
  /\ extracted = NoBlock

Read(line) ==
  /\ HouseStyle(line)
  /\ page' = Meaning(page, line)
  /\ rendered' = renderContainer(rendered, line)
  /\ anchors' = GetHeadings(anchors, line)
  /\ linkFence' = LinkFence(linkFence, line)
  /\ block' = ExtractBlocks(block, line)
  /\ banFence' = BanFence(banFence, line)
  /\ skipping' = SkipRanges(skipping, line)
  /\ extracted' = ExtractFromMarkdown(extracted, line)

ScanNext == \E line \in Lines : Read(line)

ScanSpec == ScanInit /\ [][ScanNext]_scanVars

-----------------------------------------------------------------------------
(* Properties                                                              *)

ScanTypeOK ==
  /\ page.code \in Nat \cup {-1} /\ page.item \in Nat
  /\ rendered.leaf.k \in {"none", "text", "fence", "html", "quote", "row"}
  /\ \A i \in DOMAIN rendered.stack : rendered.stack[i].depth > 0
  /\ {anchors.fence, linkFence, block.c, extracted.c} \subseteq {"none", "tick", "tilde"}
  /\ banFence \in {"none", "scan", "titled", "skip"} /\ skipping \in Nat

(* On a page in house style the six scanners see code where the author     *)
(* wrote code, whatever lists, callouts, tabs and HTML are around it; the  *)
(* harness sees the code that starts at the margin; and the containers and *)
(* items the renderer has open are the author's.                           *)
ScannersAgree ==
  /\ {rendered.leaf.k = "fence", anchors.fence # "none", linkFence # "none",
      block.c # "none", banFence # "none"} = {InCode}
  /\ extracted = IF page.code = 0 THEN block ELSE NoBlock
  /\ Len(rendered.stack) = Len(page.boxes) + IF page.item > 0 THEN 1 ELSE 0

(* The headings getHeadings finds for the checker are those the renderer   *)
(* gives an id, in the same order and with the same ids, and no id is      *)
(* given twice: a link the checker lets pass has a target.                 *)
AnchorsAgree ==
  /\ anchors.heads = rendered.heads
  /\ \A i, j \in DOMAIN rendered.heads :
       rendered.heads[i] = rendered.heads[j] => i = j

(* What the two checks reach.  The bans hold on a page that is not skipped *)
(* outside legacy callouts: in prose all but :latest; in code that is not  *)
(* flagged only removed APIs, and :latest if the author gave a manifest or *)
(* Dockerfile a title or an include.  A manifest in YAML at the margin is  *)
(* reported or given to the API server, unless it is flagged or its title  *)
(* does not end in .yaml: these escape both.                               *)
ChecksReach ==
  LET flagged == page.fence.w \in Flagged
      callout == \E i \in DOMAIN page.boxes : page.boxes[i].w = "legacy"
      shown   == page.fence.w \notin {"yaml", "yml", "other", "none"}
  IN /\ \A pageSkip \in BOOLEAN, ban \in Bans :
          validateBans(pageSkip, ban) <=>
            /\ ~pageSkip /\ ~callout
            /\ ~InCode => ban # "latest"
            /\ InCode  => ~flagged /\ (ban = "removed" \/ (ban = "latest" /\ shown))
     /\ page.code = 0 /\ block.manifest /\ page.fence.w \in Yaml \ {"named"}
          => validateCodeBlocks(block) \/ Taken(extracted)
=============================================================================
