---------------------------- MODULE DocScanProofs ----------------------------
(***************************************************************************)
(* What DocScan promises for every set of lines and any number of          *)
(* headings.                                                               *)
(*                                                                         *)
(* The argument: on a page in house style no scanner is ever a line ahead  *)
(* or behind.  The renderer's stack is the author's containers with at     *)
(* most one item on top, every box is counted to one, a fence is met by    *)
(* each scanner outside code and closed by the next one, and the legacy    *)
(* callout that the bans skip is the outermost one, the only box with its  *)
(* number of colons.                                                       *)
(***************************************************************************)
EXTENDS DocScan, SequenceTheorems, FiniteSetTheorems, WellFoundedInduction, TLAPS

LineKinds == {"blank", "text", "head", "fence", "item", "html", "quote", "row", "rule",
              "open", "close", "tab"}
Words == {line.w : line \in Lines} \cup {line.c : line \in Lines} \cup {"none", "tick", "A"}
AnyLine == [k : LineKinds, c : Words, n : Nat, ind : Nat, w : Words]
Box == [n : Nat, w : Words]
AnyFrame == [k : {"open", "item"}, n : Nat, w : Words, depth : Int, on : BOOLEAN]
Id == Seq(Words \cup Nat)

(* What is open, in the author's view.                                     *)
PageInv ==
  /\ page \in [code : Nat \cup {-1}, fence : AnyLine, boxes : Seq(Box), item : Nat,
               html : BOOLEAN, fresh : BOOLEAN, blank : BOOLEAN]
  /\ page.code > 0 => page.item = page.code
  /\ page.code = 0 => page.item = 0
  /\ InCode => /\ page.fence.c = "tick" /\ page.fence.n = 3 /\ page.fence.w \in Infos
               /\ ~page.html /\ ~page.fresh
  /\ page.fresh => page.boxes # <<>> /\ ~page.html

(* Containers have numbers of colons of their own.                         *)
BoxesInv ==
  /\ \A i \in DOMAIN page.boxes : page.boxes[i].n >= 3
  /\ \A i, j \in DOMAIN page.boxes : page.boxes[i].n = page.boxes[j].n => i = j
  /\ \A i \in DOMAIN page.boxes : page.boxes[i].w = "tabs" => page.boxes[i].n >= 4
  /\ \A i, j \in DOMAIN page.boxes :
       page.boxes[i].w = "tabs" /\ page.boxes[j].w = "tabs" => i = j
  /\ page.fresh => page.boxes[Len(page.boxes)].w = "tabs"

(* The frame of a box.                                                     *)
FrameOf(p, i) ==
  [k |-> "open", n |-> p.boxes[i].n, w |-> p.boxes[i].w, depth |-> 1,
   on |-> p.boxes[i].w = "tabs" /\ ~(p.fresh /\ i = Len(p.boxes))]

(* The author's containers, and an item of this width if there is one.     *)
Matches(p, stack, item) ==
  /\ stack \in Seq(AnyFrame)
  /\ item = 0 => Len(stack) = Len(p.boxes)
  /\ item > 0 => Len(stack) = Len(p.boxes) + 1
  /\ \A i \in DOMAIN p.boxes : stack[i] = FrameOf(p, i)
  /\ item > 0 => LET top == stack[Len(stack)]
                 IN top.k = "item" /\ top.n = item /\ top.depth = 1

AnyLeaf == [k : {"none", "text", "fence", "html", "quote", "row"},
            c : Words, n : Nat, w : Words]
Rendering == [stack : Seq(AnyFrame), leaf : AnyLeaf, heads : Seq(Id)]

(* The renderer's stack is the author's.                                   *)
StackInv ==
  /\ rendered \in Rendering
  /\ Matches(page, rendered.stack, page.item)
  /\ rendered.leaf.k = "fence" <=> InCode
  /\ InCode => rendered.leaf.c = "tick" /\ rendered.leaf.n = 3
  /\ rendered.leaf.k = "html" => page.html

(* Every scanner is in the author's fence, or in none.                     *)
FenceInv ==
  /\ anchors.fence = IF InCode THEN "tick" ELSE "none"
  /\ linkFence = IF InCode THEN "tick" ELSE "none"
  /\ block \in [c : Words, n : Nat, w : Words, manifest : BOOLEAN]
  /\ ~InCode => block = NoBlock
  /\ InCode => block.c = "tick" /\ block.n = 3 /\ block.w = page.fence.w
  /\ extracted = IF page.code = 0 THEN block ELSE NoBlock
  /\ banFence = IF ~InCode THEN "none"
                ELSE BanMode(page.fence.w)

(* The bans skip the outermost legacy callout.                             *)
SkipInv ==
  \/ skipping = 0 /\ \A i \in DOMAIN page.boxes : page.boxes[i].w # "legacy"
  \/ \E i \in DOMAIN page.boxes :
       /\ page.boxes[i].w = "legacy" /\ skipping = page.boxes[i].n
       /\ \A j \in 1 .. i - 1 : page.boxes[j].w # "legacy"

(* Both tables of headings are one, without a double.                      *)
HeadsInv ==
  /\ anchors \in [fence : Words, heads : Seq(Id)]
  /\ anchors.heads = rendered.heads
  /\ \A i, j \in DOMAIN anchors.heads : anchors.heads[i] = anchors.heads[j] => i = j

ScanInv == PageInv /\ BoxesInv /\ StackInv /\ FenceInv /\ SkipInv /\ HeadsInv

-----------------------------------------------------------------------------
(* Slugs.                                                                  *)

(* A set of numbers that is not empty has a least one.                     *)
LEMMA LeastOf ==
  ASSUME NEW set \in SUBSET Nat, set # {}
  PROVE  \E n \in set : \A m \in set : n <= m
<1>1. IsWellFoundedOn(OpToRel(<, Nat), Nat)
  BY NatLessThanWellFounded
<1>2. PICK n \in set : \A m \in set : ~(<<m, n>> \in OpToRel(<, Nat))
  BY <1>1, WFMin
<1>3. \A m \in set : ~(m < n)
  BY <1>2 DEF OpToRel
<1> QED BY <1>3

(* There is a number that makes a slug a new one.                          *)
LEMMA FreeNumber ==
  ASSUME NEW base \in Id, NEW seen, IsFiniteSet(seen)
  PROVE  \E n \in 2 .. Cardinality(seen) + 2 : Append(base, n) \notin seen
<1> DEFINE numbers == 2 .. Cardinality(seen) + 2
           with == [n \in numbers |-> Append(base, n)]
<1>1. Cardinality(seen) \in Nat
  BY FS_CardinalityType
<1>2. IsFiniteSet(numbers) /\ Cardinality(numbers) = Cardinality(seen) + 1
  BY <1>1, FS_Interval
<1>3. SUFFICES ASSUME \A n \in numbers : Append(base, n) \in seen PROVE FALSE
  OBVIOUS
<1>4. with \in [numbers -> seen]
  BY <1>3
<1>5. PICK m \in numbers, n \in numbers : m # n /\ with[m] = with[n]
  <2>1. Cardinality(seen) < Cardinality(numbers)
    BY <1>1, <1>2
  <2> HIDE DEF numbers, with
  <2> QED BY <1>2, <1>4, <2>1, FS_PigeonHole
<1>6. Append(base, m)[Len(base) + 1] = m /\ Append(base, n)[Len(base) + 1] = n
  BY DEF Id
<1> QED BY <1>5, <1>6

(* The slug a heading is given was not given before.                       *)
LEMMA UniqueSlugHolds ==
  ASSUME NEW base \in Id, NEW seen, IsFiniteSet(seen)
  PROVE  UniqueSlug(base, seen) \in Id /\ UniqueSlug(base, seen) \notin seen
<1> DEFINE free == {n \in 2 .. Cardinality(seen) + 2 : Append(base, n) \notin seen}
<1>1. CASE base \notin seen
  BY <1>1 DEF UniqueSlug
<1>2. CASE base \in seen
  <2>1. free # {} /\ free \in SUBSET Nat
    BY FreeNumber, FS_CardinalityType
  <2>2. (CHOOSE n \in free : \A m \in free : n <= m) \in free
    BY <2>1, LeastOf
  <2>3. PICK n \in free : UniqueSlug(base, seen) = Append(base, n)
    BY <1>2, <2>2 DEF UniqueSlug
  <2>4. n \in Nat /\ Append(base, n) \notin seen
    BY <2>1, <2>3
  <2>5. Append(base, n) \in Id
    BY <2>4 DEF Id
  <2> QED BY <2>3, <2>4, <2>5
<1> QED BY <1>1, <1>2

(* A heading is put at the end, with an id of its own.                     *)
LEMMA AddHeadingHolds ==
  ASSUME NEW heads \in Seq(Id), NEW text \in Words,
         \A i, j \in DOMAIN heads : heads[i] = heads[j] => i = j
  PROVE  /\ AddHeading(heads, text) \in Seq(Id)
         /\ LET more == AddHeading(heads, text)
            IN \A i, j \in DOMAIN more : more[i] = more[j] => i = j
<1> DEFINE seen == {heads[i] : i \in DOMAIN heads}
           slug == UniqueSlug(Slug(text), seen)
<1>1. Slug(text) \in Id
  <2> DEFINE letters == Words \cup Nat
  <2>1. text \in letters /\ "A" \in letters /\ 2 \in letters
    BY DEF Words
  <2> HIDE DEF letters
  <2>2. <<text>> \in Seq(letters) /\ <<"A", 2>> \in Seq(letters)
    BY <2>1
  <2>3. Slug(text) = <<"A", 2>> \/ Slug(text) = <<text>>
    BY DEF Slug
  <2> QED BY <2>2, <2>3 DEF Id, letters
<1>2. IsFiniteSet(seen)
  <2>1. IsFiniteSet(DOMAIN heads)
    BY FS_Interval
  <2>2. heads \in Surjection(DOMAIN heads, seen)
    BY DEF Surjection
  <2> HIDE DEF seen
  <2> QED BY <2>1, <2>2, FS_Surjection
<1>3. slug \in Id /\ slug \notin seen
  <2> HIDE DEF seen
  <2> QED BY <1>1, <1>2, UniqueSlugHolds
<1>4. AddHeading(heads, text) = Append(heads, slug)
  BY DEF AddHeading
<1>5. \A i \in DOMAIN heads : heads[i] # slug
  BY <1>3
<1> HIDE DEF slug, seen
<1> DEFINE more == Append(heads, slug)
<1>6. /\ more \in Seq(Id) /\ DOMAIN more = 1 .. Len(heads) + 1 /\ Len(heads) \in Nat
      /\ DOMAIN heads = 1 .. Len(heads) /\ more[Len(heads) + 1] = slug
      /\ \A i \in DOMAIN heads : more[i] = heads[i]
  BY <1>3
<1> HIDE DEF more
<1>7. \A i, j \in DOMAIN more : more[i] = more[j] => i = j
  <2> SUFFICES ASSUME NEW i \in DOMAIN more, NEW j \in DOMAIN more, more[i] = more[j]
               PROVE  i = j
    OBVIOUS
  <2>1. (i \in DOMAIN heads \/ i = Len(heads) + 1) /\ (j \in DOMAIN heads \/ j = Len(heads) + 1)
    BY <1>6
  <2> QED BY <1>5, <1>6, <2>1
<1> QED BY <1>4, <1>6, <1>7 DEF more

-----------------------------------------------------------------------------
(* The renderer.                                                           *)

(* The first elements of a sequence.                                       *)
LEMMA CutHolds ==
  ASSUME NEW X, NEW s \in Seq(X), NEW n \in 0 .. Len(s)
  PROVE  /\ CutAt(s, n) \in Seq(X) /\ Len(CutAt(s, n)) = n
         /\ \A i \in 1 .. n : CutAt(s, n)[i] = s[i]
<1>1. \A i \in 1 .. n : s[i] \in X
  OBVIOUS
<1>2. /\ SubSeq(s, 1, n) \in Seq(X)
      /\ Len(SubSeq(s, 1, n)) = IF 1 <= n THEN n - 1 + 1 ELSE 0
      /\ \A i \in 1 .. n - 1 + 1 : SubSeq(s, 1, n)[i] = s[1 + i - 1]
  BY <1>1, SubSeqProperties
<1> QED BY <1>2 DEF CutAt

(* A line that is no box's own leaves the counts alone.                    *)
LEMMA CountedSame ==
  ASSUME NEW r \in Rendering, NEW line \in AnyLine,
         \A i \in DOMAIN r.stack :
           /\ r.stack[i].depth = 1
           /\ r.stack[i].k = "item" \/ r.stack[i].n # line.n \/ line.k \notin {"open", "close"}
  PROVE  renderContainer(r, line) = renderTabs(r, line)
<1> DEFINE counted == [i \in DOMAIN r.stack |-> Counted(r.stack[i], line)]
<1>1. r.stack \in Seq(AnyFrame)
  BY DEF Rendering
<1>2. \A i \in DOMAIN r.stack : Counted(r.stack[i], line) = r.stack[i]
  BY DEF Counted
<1>3. counted = r.stack
  <2>1. DOMAIN counted = DOMAIN r.stack /\ \A i \in DOMAIN r.stack : counted[i] = r.stack[i]
    BY <1>2
  <2>2. r.stack = [i \in DOMAIN r.stack |-> r.stack[i]]
    BY <1>1
  <2> QED BY <1>2, <2>2
<1>4. {i \in DOMAIN r.stack : r.stack[i].depth = 0} = {}
  OBVIOUS
<1>5. [r EXCEPT !.stack = r.stack] = r
  BY DEF Rendering
<1> QED BY <1>3, <1>4, <1>5 DEF renderContainer

(* Where the tabs have begun, a line that is no tab goes to their content. *)
LEMMA TabsOn ==
  ASSUME NEW r, NEW line, line.k # "tab",
         \A i \in DOMAIN r.stack : IsTabs(r.stack[i]) => r.stack[i].on
  PROVE  renderTabs(r, line) = parseList(r, line)
BY DEF renderTabs

(* How long the stack is.                                                  *)
LEMMA StackLength ==
  ASSUME NEW p, p.boxes \in Seq(Box), NEW item \in Nat, NEW stack, Matches(p, stack, item)
  PROVE  /\ Len(p.boxes) \in Nat /\ DOMAIN p.boxes = 1 .. Len(p.boxes)
         /\ stack \in Seq(AnyFrame) /\ DOMAIN stack = 1 .. Len(stack) /\ Len(stack) \in Nat
         /\ item = 0 => Len(stack) = Len(p.boxes)
         /\ item > 0 => Len(stack) = Len(p.boxes) + 1
<1>1. /\ stack \in Seq(AnyFrame)
      /\ item = 0 => Len(stack) = Len(p.boxes)
      /\ item > 0 => Len(stack) = Len(p.boxes) + 1
  BY DEF Matches
<1>2. Len(p.boxes) \in Nat /\ DOMAIN p.boxes = 1 .. Len(p.boxes)
  OBVIOUS
<1>3. DOMAIN stack = 1 .. Len(stack) /\ Len(stack) \in Nat
  BY <1>1
<1> QED BY <1>1, <1>2, <1>3

(* The frames of the stack.                                                *)
LEMMA FramesOf ==
  ASSUME NEW p, p.boxes \in Seq(Box), NEW item \in Nat, NEW stack, Matches(p, stack, item),
         NEW i \in DOMAIN stack
  PROVE  \/ i \in DOMAIN p.boxes /\ stack[i] = FrameOf(p, i)
         \/ /\ item > 0 /\ i = Len(stack) /\ i = Len(p.boxes) + 1
            /\ stack[i].k = "item" /\ stack[i].n = item /\ stack[i].depth = 1
<1>1. /\ Len(p.boxes) \in Nat /\ DOMAIN p.boxes = 1 .. Len(p.boxes)
      /\ i \in 1 .. Len(stack) /\ Len(stack) \in Nat
      /\ item = 0 => Len(stack) = Len(p.boxes)
      /\ item > 0 => Len(stack) = Len(p.boxes) + 1
  BY StackLength
<1>2. CASE i \in 1 .. Len(p.boxes)
  BY <1>1, <1>2 DEF Matches
<1>3. CASE i \notin 1 .. Len(p.boxes)
  <2>1. item > 0 /\ i = Len(stack) /\ i = Len(p.boxes) + 1
    BY <1>1, <1>3
  <2> QED BY <2>1 DEF Matches
<1> QED BY <1>2, <1>3

(* Without the item the stack is that of the containers.                   *)
LEMMA ItemDropped ==
  ASSUME NEW p, p.boxes \in Seq(Box), NEW item \in Nat, NEW stack, Matches(p, stack, item)
  PROVE  Matches(p, CutAt(stack, Len(p.boxes)), 0)
<1>1. /\ Len(p.boxes) \in Nat /\ DOMAIN p.boxes = 1 .. Len(p.boxes)
      /\ stack \in Seq(AnyFrame) /\ Len(p.boxes) \in 0 .. Len(stack)
  BY StackLength
<1>2. /\ CutAt(stack, Len(p.boxes)) \in Seq(AnyFrame)
      /\ Len(CutAt(stack, Len(p.boxes))) = Len(p.boxes)
      /\ \A i \in 1 .. Len(p.boxes) : CutAt(stack, Len(p.boxes))[i] = stack[i]
  BY <1>1, CutHolds
<1> QED BY <1>1, <1>2 DEF Matches

(* What a line does where no code is under way, to the innermost block.    *)
Outcome(r, line, s) ==
  /\ line.k \in {"blank", "rule"} => s = [r EXCEPT !.leaf = NoLeaf]
  /\ line.k = "head" => s = [r EXCEPT !.heads = AddHeading(r.heads, line.w), !.leaf = NoLeaf]
  /\ line.k = "item" => s = [r EXCEPT !.stack = Append(r.stack, Frame(line)), !.leaf = Para]
  /\ line.k = "open" => s = [r EXCEPT !.stack = Append(r.stack, Frame(line)), !.leaf = NoLeaf]
  /\ line.k = "fence" => s = [r EXCEPT !.leaf = Leaf(line)]
  /\ line.k \in {"text", "html", "quote", "row"} =>
       \E leaf \in AnyLeaf :
         /\ s = [r EXCEPT !.leaf = leaf] /\ leaf.k # "fence"
         /\ leaf.k = "html" => line.k = "html" \/ r.leaf.k = "html"

(* A line that starts a block.                                             *)
LEMMA NewBlockHolds ==
  ASSUME NEW r \in Rendering, NEW line \in AnyLine, line.k \notin {"tab", "close"}
  PROVE  Outcome(r, line, NewBlock(r, line))
<1>1. Para \in AnyLeaf /\ Para.k = "text"
  BY DEF Para, NoLeaf, AnyLeaf, Words
<1>2. line.k \in {"html", "quote", "row"} =>
        Leaf(line) \in AnyLeaf /\ Leaf(line).k = line.k
  BY DEF Leaf, AnyLeaf, AnyLine
<1>3. line.k \in LineKinds
  BY DEF AnyLine
<1>4. CASE line.k = "text"
  <2>1. NewBlock(r, line) = [r EXCEPT !.leaf = Para]
    BY <1>4 DEF NewBlock
  <2> QED BY <1>1, <1>4, <2>1 DEF Outcome
<1>5. CASE line.k \in {"html", "quote", "row"}
  <2>1. NewBlock(r, line) = [r EXCEPT !.leaf = Leaf(line)]
    BY <1>5 DEF NewBlock
  <2> QED BY <1>2, <1>5, <2>1 DEF Outcome
<1>6. CASE line.k \notin {"text", "html", "quote", "row"}
  BY <1>3, <1>6 DEF Outcome, NewBlock, LineKinds
<1> QED BY <1>4, <1>5, <1>6

(* A line that may go on with the block before it.                         *)
LEMMA BlockLine ==
  ASSUME NEW r \in Rendering, NEW line \in AnyLine, line.k \notin {"tab", "close"},
         r.leaf.k # "fence",
         line.k = "fence" => line.ind = 0,
         r.leaf.k = "html" => line.k \in {"text", "blank"}
  PROVE  Outcome(r, line, renderBlocks(r, line))
<1>1. Outcome(r, line, NewBlock(r, line))
  BY NewBlockHolds
<1>2. r.leaf \in AnyLeaf /\ [r EXCEPT !.leaf = r.leaf] = r
  BY DEF Rendering
<1>3. line.k \in LineKinds
  BY DEF AnyLine
<1>4. CASE r.leaf.k = "html"
  <2>1. line.k = "blank" => renderBlocks(r, line) = [r EXCEPT !.leaf = NoLeaf]
    BY <1>4 DEF renderBlocks
  <2>2. line.k = "text" => renderBlocks(r, line) = r
    BY <1>4 DEF renderBlocks
  <2>3. CASE line.k = "blank"
    BY <2>1, <2>3 DEF Outcome
  <2>4. CASE line.k = "text"
    BY <1>2, <1>4, <2>2, <2>4 DEF Outcome
  <2> QED BY <1>4, <2>3, <2>4
<1>5. CASE r.leaf.k = "text" /\ ~IsBlockStart(line)
  <2>1. renderBlocks(r, line) = r
    BY <1>5 DEF renderBlocks
  <2>2. line.k \in {"text", "html", "row"}
    BY <1>3, <1>5 DEF IsBlockStart, LineKinds
  <2>3. \E leaf \in AnyLeaf : /\ r = [r EXCEPT !.leaf = leaf] /\ leaf.k # "fence"
                              /\ leaf.k = "html" => line.k = "html" \/ r.leaf.k = "html"
    BY <1>2, <1>5
  <2> QED BY <2>1, <2>2, <2>3 DEF Outcome
<1>6. CASE r.leaf.k \in {"quote", "row"} /\ line.k = r.leaf.k
  <2>1. renderBlocks(r, line) = r
    BY <1>6 DEF renderBlocks
  <2>2. line.k \in {"quote", "row"}
    BY <1>6
  <2>3. \E leaf \in AnyLeaf : /\ r = [r EXCEPT !.leaf = leaf] /\ leaf.k # "fence"
                              /\ leaf.k = "html" => line.k = "html" \/ r.leaf.k = "html"
    BY <1>2, <1>6
  <2> QED BY <2>1, <2>2, <2>3 DEF Outcome
<1>7. CASE /\ r.leaf.k # "html" /\ ~(r.leaf.k = "text" /\ ~IsBlockStart(line))
           /\ ~(r.leaf.k \in {"quote", "row"} /\ line.k = r.leaf.k)
  <2>1. renderBlocks(r, line) = NewBlock(r, line)
    BY <1>7 DEF renderBlocks
  <2> QED BY <1>1, <2>1
<1> QED BY <1>4, <1>5, <1>6, <1>7

(* How far a line is indented is nothing to a block that has begun.        *)
LEMMA Shifted ==
  ASSUME NEW r, NEW line \in AnyLine, NEW n \in 0 .. line.ind, NEW s,
         Outcome(r, [line EXCEPT !.ind = line.ind - n], s)
  PROVE  Outcome(r, line, s)
<1> DEFINE moved == [line EXCEPT !.ind = line.ind - n]
<1>1. moved.k = line.k /\ moved.w = line.w /\ moved.n = line.n /\ moved.c = line.c
  BY DEF AnyLine
<1>2. Frame(moved) = Frame(line) /\ Leaf(moved) = Leaf(line)
  BY <1>1 DEF Frame, Leaf
<1>3. Outcome(r, moved, s)
  OBVIOUS
<1> HIDE DEF moved
<1> QED BY <1>1, <1>2, <1>3 DEF Outcome

-----------------------------------------------------------------------------
(* A line as the author means it.                                          *)

(* A line has its type, and what ScanAssumption says of it.                *)
LEMMA LineTyped ==
  ASSUME NEW line \in Lines
  PROVE  /\ line \in AnyLine
         /\ line.k = "fence" => line.n >= 3 /\ line.w \in Infos
         /\ line.k \in {"open", "close"} => line.n >= 3
         /\ line.k = "open" /\ line.w = "tabs" => line.n >= 4
         /\ line.k = "item" => line.n > 0
<1>1. /\ line.k \in LineKinds /\ line.n \in Nat /\ line.ind \in Nat
      /\ line = [k |-> line.k, c |-> line.c, n |-> line.n, ind |-> line.ind, w |-> line.w]
  BY ScanAssumption DEF LineKinds
<1>2. line.c \in Words /\ line.w \in Words
  BY DEF Words
<1> QED BY <1>1, <1>2, ScanAssumption DEF AnyLine

(* The item a line leaves open, outside code.                              *)
Carried(line) ==
  IF line.k = "blank" \/ (line.ind >= page.item /\ line.k # "item") THEN page.item ELSE 0

(* What the author means, field by field.                                  *)
LEMMA PageMoves ==
  ASSUME NEW line \in Lines, PageInv, Read(line)
  PROVE  /\ page'.blank = (line.k = "blank")
         /\ page'.html = (~InCode /\ (line.k = "html" \/ (page.html /\ line.k # "blank")))
         /\ InCode => /\ page'.item = page.item /\ page'.boxes = page.boxes
                      /\ page'.fresh = page.fresh /\ page'.fence = page.fence
                      /\ line.k = "fence" => page'.code = -1
                      /\ line.k # "fence" => page'.code = page.code
         /\ ~InCode => /\ line.k = "item" => page'.item = line.n
                       /\ line.k # "item" => page'.item = Carried(line)
                       /\ line.k = "fence" => page'.code = line.ind /\ page'.fence = line
                       /\ line.k # "fence" => page'.code = page.code /\ page'.fence = page.fence
                       /\ line.k = "open" =>
                            /\ page'.boxes = Append(page.boxes, [n |-> line.n, w |-> line.w])
                            /\ page'.fresh = (line.w = "tabs")
                       /\ line.k = "close" => page'.boxes = CutAt(page.boxes, Len(page.boxes) - 1)
                       /\ line.k \notin {"open", "close"} => page'.boxes = page.boxes
                       /\ line.k = "tab" => page'.fresh = FALSE
                       /\ line.k \notin {"open", "tab"} => page'.fresh = page.fresh
<1>1. page \in [code : Nat \cup {-1}, fence : AnyLine, boxes : Seq(Box), item : Nat,
                html : BOOLEAN, fresh : BOOLEAN, blank : BOOLEAN]
  BY DEF PageInv
<1>2. page' = Meaning(page, line)
  BY DEF Read
<1>3. CASE InCode
  <2>1. CASE line.k = "fence"
    BY <1>1, <1>2, <1>3, <2>1 DEF Meaning
  <2>2. CASE line.k # "fence"
    BY <1>1, <1>2, <1>3, <2>2 DEF Meaning
  <2> QED BY <2>1, <2>2
<1>4. CASE ~InCode
  <2>1. CASE line.k = "fence"
    BY <1>1, <1>2, <1>4, <2>1 DEF Meaning, Carried
  <2>2. CASE line.k = "open"
    BY <1>1, <1>2, <1>4, <2>2 DEF Meaning, Carried
  <2>3. CASE line.k = "close"
    BY <1>1, <1>2, <1>4, <2>3 DEF Meaning, Carried
  <2>4. CASE line.k = "tab"
    BY <1>1, <1>2, <1>4, <2>4 DEF Meaning, Carried
  <2>5. CASE line.k = "item"
    BY <1>1, <1>2, <1>4, <2>5 DEF Meaning, Carried
  <2>6. CASE line.k \notin {"fence", "open", "close", "tab", "item"}
    BY <1>1, <1>2, <1>4, <2>6 DEF Meaning, Carried
  <2> QED BY <2>1, <2>2, <2>3, <2>4, <2>5, <2>6
<1> QED BY <1>3, <1>4

(* What the author means has its fields.                                   *)
LEMMA PageRecord ==
  ASSUME NEW line \in Lines, PageInv, Read(line)
  PROVE  page' = [code |-> page'.code, fence |-> page'.fence, boxes |-> page'.boxes,
                  item |-> page'.item, html |-> page'.html, fresh |-> page'.fresh,
                  blank |-> page'.blank]
<1>1. page \in [code : Nat \cup {-1}, fence : AnyLine, boxes : Seq(Box), item : Nat,
                html : BOOLEAN, fresh : BOOLEAN, blank : BOOLEAN]
  BY DEF PageInv
<1>2. page' = Meaning(page, line)
  BY DEF Read
<1> QED BY <1>1, <1>2 DEF Meaning

(* A container is closed only where one is open.                           *)
LEMMA Closing ==
  ASSUME NEW line \in Lines, PageInv, HouseStyle(line), ~InCode, line.k = "close"
  PROVE  /\ Len(page.boxes) \in Nat \ {0} /\ page.boxes[Len(page.boxes)].n = line.n
         /\ ~page.fresh
<1>1. page.boxes \in Seq(Box)
  BY DEF PageInv
<1>2. line.n = Inner.n /\ line.n >= 3 /\ ~page.fresh
  BY LineTyped DEF HouseStyle
<1>3. page.boxes # <<>>
  BY <1>2 DEF Inner, NoBlock
<1> QED BY <1>1, <1>2, <1>3 DEF Inner, Last

(* Tabs are begun in the innermost container.                              *)
LEMMA TabOpens ==
  ASSUME NEW line \in Lines, PageInv, HouseStyle(line), ~InCode, line.k = "tab"
  PROVE  Len(page.boxes) \in Nat \ {0} /\ page.boxes[Len(page.boxes)].w = "tabs"
<1>1. page.boxes \in Seq(Box)
  BY DEF PageInv
<1>2. Inner.w = "tabs"
  BY DEF HouseStyle
<1>3. page.boxes # <<>>
  BY <1>2 DEF Inner, NoBlock
<1> QED BY <1>1, <1>2, <1>3 DEF Inner, Last

(* A line keeps what the author has open as it should be.                  *)
LEMMA AuthorNext ==
  ASSUME NEW line \in Lines, PageInv, Read(line)
  PROVE  PageInv'
<1>1. /\ page.code \in Nat \cup {-1} /\ page.fence \in AnyLine /\ page.boxes \in Seq(Box)
      /\ page.item \in Nat /\ page.html \in BOOLEAN /\ page.fresh \in BOOLEAN
  BY DEF PageInv
<1>2. /\ line \in AnyLine /\ line.k \in LineKinds /\ line.n \in Nat /\ line.ind \in Nat
      /\ line.w \in Words
  BY LineTyped DEF AnyLine
<1>3. HouseStyle(line)
  BY DEF Read
<1>4. CASE InCode
  <2>1. /\ page'.item = page.item /\ page'.boxes = page.boxes /\ page'.fresh = page.fresh
        /\ page'.fence = page.fence /\ page'.html = FALSE /\ page'.blank \in BOOLEAN
        /\ page'.code = page.code \/ page'.code = -1
    BY <1>4, PageMoves
  <2>2. page' \in [code : Nat \cup {-1}, fence : AnyLine, boxes : Seq(Box), item : Nat,
                   html : BOOLEAN, fresh : BOOLEAN, blank : BOOLEAN]
    <3>1. /\ page'.code \in Nat \cup {-1} /\ page'.fence \in AnyLine /\ page'.boxes \in Seq(Box)
          /\ page'.item \in Nat /\ page'.html \in BOOLEAN /\ page'.fresh \in BOOLEAN
      BY <1>1, <2>1
    <3> QED BY <2>1, <3>1, PageRecord
  <2>3. /\ page.fence.c = "tick" /\ page.fence.n = 3 /\ page.fence.w \in Infos /\ ~page.fresh
        /\ page.code > 0 => page.item = page.code
        /\ page.code = 0 => page.item = 0
    BY <1>4 DEF PageInv
  <2>4. /\ page'.code > 0 => page'.item = page'.code
        /\ page'.code = 0 => page'.item = 0
    BY <2>1, <2>3
  <2>5. page'.fence.c = "tick" /\ page'.fence.n = 3 /\ page'.fence.w \in Infos /\ ~page'.fresh
    BY <2>1, <2>3
  <2> QED BY <2>1, <2>2, <2>4, <2>5 DEF PageInv
<1>5. CASE ~InCode
  <2>1. page'.item \in Nat
    <3>1. Carried(line) = page.item \/ Carried(line) = 0
      BY DEF Carried
    <3>2. page'.item = line.n \/ page'.item = page.item \/ page'.item = 0
      BY <1>5, <3>1, PageMoves
    <3> QED BY <1>1, <1>2, <3>2
  <2>2. page'.boxes \in Seq(Box)
    <3>1. CASE line.k = "open"
      <4>1. [n |-> line.n, w |-> line.w] \in Box
        BY <1>2 DEF Box
      <4>2. page'.boxes = Append(page.boxes, [n |-> line.n, w |-> line.w])
        BY <1>5, <3>1, PageMoves
      <4> QED BY <1>1, <4>1, <4>2
    <3>2. CASE line.k = "close"
      <4>1. Len(page.boxes) \in Nat \ {0} /\ page'.boxes = CutAt(page.boxes, Len(page.boxes) - 1)
        BY <1>3, <1>5, <3>2, Closing, PageMoves
      <4> QED BY <1>1, <4>1, CutHolds
    <3>3. CASE line.k \notin {"open", "close"}
      BY <1>1, <1>5, <3>3, PageMoves
    <3> QED BY <3>1, <3>2, <3>3
  <2>3. page'.code \in Nat \cup {-1} /\ page'.fence \in AnyLine
    BY <1>1, <1>2, <1>5, PageMoves
  <2>4. page'.fresh \in BOOLEAN /\ page'.html \in BOOLEAN /\ page'.blank \in BOOLEAN
    BY <1>1, <1>5, PageMoves
  <2>5. page' \in [code : Nat \cup {-1}, fence : AnyLine, boxes : Seq(Box), item : Nat,
                   html : BOOLEAN, fresh : BOOLEAN, blank : BOOLEAN]
    BY <2>1, <2>2, <2>3, <2>4, PageRecord
  <2>6. CASE line.k = "fence"
    <3>1. /\ page'.code = line.ind /\ page'.fence = line /\ page'.item = Carried(line)
          /\ page'.fresh = page.fresh /\ page'.html = page.html
      BY <1>1, <1>5, <2>6, PageMoves
    <3>2. /\ ~page.html /\ ~page.fresh /\ line.c = "tick" /\ line.n = 3 /\ line.w \in Infos
          /\ line.ind > 0 => line.ind = page.item
      BY <1>3, <1>5, <2>6, LineTyped DEF HouseStyle
    <3>3. /\ line.ind > 0 => Carried(line) = line.ind
          /\ line.ind = 0 => Carried(line) = 0
      BY <1>1, <1>2, <2>6, <3>2 DEF Carried
    <3> QED BY <2>5, <3>1, <3>2, <3>3 DEF PageInv, InCode
  <2>7. CASE line.k # "fence"
    <3>1. page'.code = -1
      <4>1. page'.code = page.code
        BY <1>5, <2>7, PageMoves
      <4> QED BY <1>1, <1>5, <4>1 DEF InCode
    <3>2. page'.fresh => page'.boxes # <<>> /\ ~page'.html
      <4>1. CASE line.k = "open"
        <5>1. page'.boxes # <<>>
          <6>1. page'.boxes = Append(page.boxes, [n |-> line.n, w |-> line.w])
            BY <1>5, <4>1, PageMoves
          <6> QED BY <1>1, <6>1
        <5>2. ~page'.html
          BY <1>3, <4>1, PageMoves DEF HouseStyle
        <5> QED BY <5>1, <5>2
      <4>2. CASE line.k = "tab"
        BY <1>5, <4>2, PageMoves
      <4>3. CASE line.k \notin {"open", "tab"}
        <5>1. SUFFICES ASSUME page'.fresh PROVE page'.boxes # <<>> /\ ~page'.html
          OBVIOUS
        <5>2. page.fresh
          BY <1>5, <4>3, <5>1, PageMoves
        <5>3. line.k = "blank"
          BY <1>3, <4>3, <5>2 DEF HouseStyle
        <5>4. page.boxes # <<>> /\ ~page.html
          BY <5>2 DEF PageInv
        <5> QED BY <1>5, <5>3, <5>4, PageMoves
      <4> QED BY <4>1, <4>2, <4>3
    <3> QED BY <2>5, <3>1, <3>2 DEF PageInv, InCode
  <2> QED BY <2>6, <2>7
<1> QED BY <1>4, <1>5

(* The containers keep numbers of colons of their own.                     *)
LEMMA BoxesNext ==
  ASSUME NEW line \in Lines, PageInv, BoxesInv, Read(line)
  PROVE  BoxesInv'
<1>1. page.boxes \in Seq(Box) /\ Len(page.boxes) \in Nat /\ DOMAIN page.boxes = 1 .. Len(page.boxes)
  BY DEF PageInv
<1>2. HouseStyle(line)
  BY DEF Read
<1>3. CASE InCode \/ line.k \notin {"open", "close", "tab"}
  <2>1. page'.boxes = page.boxes /\ page'.fresh = page.fresh
    BY <1>3, PageMoves
  <2> QED BY <2>1 DEF BoxesInv
<1>4. CASE ~InCode /\ line.k = "tab"
  <2>1. page'.boxes = page.boxes /\ page'.fresh = FALSE
    BY <1>4, PageMoves
  <2> QED BY <2>1 DEF BoxesInv
<1>5. CASE ~InCode /\ line.k = "close"
  <2>1. /\ Len(page.boxes) \in Nat \ {0} /\ page'.fresh = FALSE
        /\ page'.boxes = CutAt(page.boxes, Len(page.boxes) - 1)
    <3>1. /\ page'.fresh = page.fresh
          /\ page'.boxes = CutAt(page.boxes, Len(page.boxes) - 1)
      BY <1>5, PageMoves
    <3>2. Len(page.boxes) \in Nat \ {0} /\ ~page.fresh
      BY <1>2, <1>5, Closing
    <3>3. page.fresh \in BOOLEAN
      BY DEF PageInv
    <3> QED BY <3>1, <3>2, <3>3
  <2>2. /\ DOMAIN page'.boxes = 1 .. Len(page.boxes) - 1
        /\ \A i \in DOMAIN page'.boxes : i \in DOMAIN page.boxes /\ page'.boxes[i] = page.boxes[i]
    <3>1. page'.boxes \in Seq(Box) /\ Len(page'.boxes) = Len(page.boxes) - 1
      BY <1>1, <2>1, CutHolds
    <3>2. \A i \in 1 .. Len(page.boxes) - 1 : page'.boxes[i] = page.boxes[i]
      <4>1. page.boxes \in Seq(Box) /\ Len(page.boxes) - 1 \in 0 .. Len(page.boxes)
        BY <1>1, <2>1
      <4> QED BY <2>1, <4>1, CutHolds
    <3> QED BY <1>1, <3>1, <3>2
  <2> QED BY <2>1, <2>2 DEF BoxesInv
<1>6. CASE ~InCode /\ line.k = "open"
  <2> DEFINE box == [n |-> line.n, w |-> line.w]
  <2>1. page'.boxes = Append(page.boxes, box) /\ page'.fresh = (line.w = "tabs")
    BY <1>6, PageMoves
  <2>2. /\ \A i \in DOMAIN page.boxes : page.boxes[i].n # line.n
        /\ line.w = "tabs" => \A i \in DOMAIN page.boxes : page.boxes[i].w # "tabs"
        /\ line.n >= 3 /\ line.w = "tabs" => line.n >= 4
        /\ line.n >= 3
    BY <1>2, <1>6, LineTyped DEF HouseStyle
  <2>3. /\ DOMAIN page'.boxes = 1 .. Len(page.boxes) + 1 /\ Len(page'.boxes) = Len(page.boxes) + 1
        /\ page'.boxes[Len(page.boxes) + 1] = box
        /\ \A i \in DOMAIN page.boxes : page'.boxes[i] = page.boxes[i]
    BY <1>1, <2>1
  <2>4. box.n = line.n /\ box.w = line.w
    OBVIOUS
  <2> HIDE DEF box
  <2>5. \A i \in DOMAIN page'.boxes : i \in DOMAIN page.boxes \/ i = Len(page.boxes) + 1
    BY <1>1, <2>3
  <2>6. /\ \A i \in DOMAIN page'.boxes : page'.boxes[i].n >= 3
        /\ \A i \in DOMAIN page'.boxes : page'.boxes[i].w = "tabs" => page'.boxes[i].n >= 4
        /\ page'.fresh => page'.boxes[Len(page'.boxes)].w = "tabs"
    BY <2>1, <2>2, <2>3, <2>4, <2>5 DEF BoxesInv
  <2>7. \A i, j \in DOMAIN page'.boxes : page'.boxes[i].n = page'.boxes[j].n => i = j
    BY <2>2, <2>3, <2>4, <2>5 DEF BoxesInv
  <2>8. \A i, j \in DOMAIN page'.boxes :
          page'.boxes[i].w = "tabs" /\ page'.boxes[j].w = "tabs" => i = j
    BY <2>2, <2>3, <2>4, <2>5 DEF BoxesInv
  <2> QED BY <2>6, <2>7, <2>8 DEF BoxesInv
<1> QED BY <1>3, <1>4, <1>5, <1>6

-----------------------------------------------------------------------------
(* The renderer's stack.                                                   *)

(* The stack belongs to the containers and whether tabs are new.           *)
LEMMA MatchesSame ==
  ASSUME NEW p, NEW q, NEW stack, NEW item,
         Matches(p, stack, item), q.boxes = p.boxes, q.fresh = p.fresh
  PROVE  Matches(q, stack, item)
<1>1. \A i \in DOMAIN p.boxes : FrameOf(q, i) = FrameOf(p, i)
  BY DEF FrameOf
<1> QED BY <1>1 DEF Matches

(* An item is put on the containers.                                       *)
LEMMA MatchesItem ==
  ASSUME NEW p, p.boxes \in Seq(Box), NEW stack, Matches(p, stack, 0),
         NEW line \in AnyLine, line.k = "item", line.n > 0
  PROVE  Matches(p, Append(stack, Frame(line)), line.n)
<1>1. /\ stack \in Seq(AnyFrame) /\ Len(stack) = Len(p.boxes) /\ Len(p.boxes) \in Nat
      /\ DOMAIN p.boxes = 1 .. Len(p.boxes)
      /\ \A i \in DOMAIN p.boxes : stack[i] = FrameOf(p, i)
  BY StackLength DEF Matches
<1>2. /\ Frame(line) \in AnyFrame /\ Frame(line).k = "item" /\ Frame(line).n = line.n
      /\ Frame(line).depth = 1 /\ line.n \in Nat
  BY DEF Frame, AnyFrame, AnyLine
<1> DEFINE more == Append(stack, Frame(line))
<1>3. /\ more \in Seq(AnyFrame) /\ Len(more) = Len(p.boxes) + 1
      /\ more[Len(more)] = Frame(line)
      /\ \A i \in DOMAIN p.boxes : more[i] = stack[i]
  BY <1>1, <1>2
<1> HIDE DEF more
<1> QED
  <2>1. Matches(p, more, line.n)
    BY <1>1, <1>2, <1>3 DEF Matches
  <2> QED BY <2>1 DEF more

(* A box is put on the containers.                                         *)
LEMMA MatchesBox ==
  ASSUME NEW p, p.boxes \in Seq(Box), NEW q, NEW stack, Matches(p, stack, 0), ~p.fresh,
         NEW line \in AnyLine, line.k = "open",
         q.boxes = Append(p.boxes, [n |-> line.n, w |-> line.w]), q.fresh = (line.w = "tabs")
  PROVE  Matches(q, Append(stack, Frame(line)), 0)
<1>1. /\ stack \in Seq(AnyFrame) /\ Len(stack) = Len(p.boxes) /\ Len(p.boxes) \in Nat
      /\ DOMAIN p.boxes = 1 .. Len(p.boxes)
      /\ \A i \in DOMAIN p.boxes : stack[i] = FrameOf(p, i)
  BY StackLength DEF Matches
<1>2. Frame(line) \in AnyFrame
  BY DEF Frame, AnyFrame, AnyLine
<1> DEFINE more == Append(stack, Frame(line))
           last == Len(p.boxes) + 1
<1>3. /\ more \in Seq(AnyFrame) /\ Len(more) = last /\ more[last] = Frame(line)
      /\ \A i \in DOMAIN p.boxes : more[i] = stack[i]
  BY <1>1, <1>2
<1>4. /\ Len(q.boxes) = last /\ DOMAIN q.boxes = 1 .. last
      /\ q.boxes[last] = [n |-> line.n, w |-> line.w]
      /\ \A i \in DOMAIN p.boxes : q.boxes[i] = p.boxes[i]
  BY <1>1
<1>5. FrameOf(q, last) = Frame(line)
  <2>1. q.boxes[last].n = line.n /\ q.boxes[last].w = line.w
    BY <1>4
  <2>2. (q.boxes[last].w = "tabs" /\ ~(q.fresh /\ last = Len(q.boxes))) = FALSE
    BY <1>4, <2>1
  <2> HIDE DEF last
  <2> QED BY <2>1, <2>2 DEF FrameOf, Frame
<1>6. \A i \in DOMAIN p.boxes : FrameOf(q, i) = FrameOf(p, i)
  BY <1>1, <1>4 DEF FrameOf
<1>7. \A i \in 1 .. last : more[i] = FrameOf(q, i)
  <2> HIDE DEF more
  <2>1. \A i \in 1 .. last : i \in DOMAIN p.boxes \/ i = last
    BY <1>1
  <2> QED BY <1>1, <1>3, <1>5, <1>6, <2>1
<1> HIDE DEF more
<1>8. Matches(q, more, 0)
  BY <1>1, <1>3, <1>4, <1>7 DEF Matches
<1> QED BY <1>8 DEF more

(* What the frames of the renderer are.                                    *)
LEMMA OpenFrames ==
  ASSUME PageInv, StackInv
  PROVE  /\ page.boxes \in Seq(Box) /\ page.item \in Nat /\ rendered \in Rendering
         /\ \A i \in DOMAIN rendered.stack :
              /\ rendered.stack[i].depth = 1
              /\ \/ i \in DOMAIN page.boxes /\ rendered.stack[i] = FrameOf(page, i)
                 \/ rendered.stack[i].k = "item" /\ i = Len(page.boxes) + 1
<1>1. /\ page.boxes \in Seq(Box) /\ page.item \in Nat /\ rendered \in Rendering
      /\ Matches(page, rendered.stack, page.item)
  BY DEF PageInv, StackInv
<1> SUFFICES ASSUME NEW i \in DOMAIN rendered.stack
             PROVE  /\ rendered.stack[i].depth = 1
                    /\ \/ i \in DOMAIN page.boxes /\ rendered.stack[i] = FrameOf(page, i)
                       \/ rendered.stack[i].k = "item" /\ i = Len(page.boxes) + 1
  BY <1>1
<1>2. \/ i \in DOMAIN page.boxes /\ rendered.stack[i] = FrameOf(page, i)
      \/ /\ rendered.stack[i].k = "item" /\ rendered.stack[i].depth = 1
         /\ i = Len(page.boxes) + 1
  BY <1>1, FramesOf
<1> QED BY <1>2 DEF FrameOf

(* Tabs that have begun are on.                                            *)
LEMMA TabsAreOn ==
  ASSUME PageInv, StackInv, ~page.fresh, NEW i \in DOMAIN rendered.stack,
         IsTabs(rendered.stack[i])
  PROVE  rendered.stack[i].on
<1>1. i \in DOMAIN page.boxes /\ rendered.stack[i] = FrameOf(page, i)
  <2>1. \/ i \in DOMAIN page.boxes /\ rendered.stack[i] = FrameOf(page, i)
        \/ rendered.stack[i].k = "item"
    BY OpenFrames
  <2> QED BY <2>1 DEF IsTabs
<1>2. page.boxes[i].w = "tabs"
  BY <1>1 DEF IsTabs, FrameOf
<1>3. (page.boxes[i].w = "tabs" /\ ~(page.fresh /\ i = Len(page.boxes))) = TRUE
  BY <1>2
<1>4. FrameOf(page, i).on = TRUE
  BY <1>3 DEF FrameOf
<1> QED BY <1>1, <1>4

(* What a line of a list does: it belongs to the item, or ends it.         *)
LEMMA ListLine ==
  ASSUME NEW line \in AnyLine, PageInv, StackInv
  PROVE  /\ page.item = 0 \/ line.k = "blank" =>
              parseList(rendered, line) = renderBlocks(rendered, line)
         /\ page.item > 0 /\ line.k # "blank" /\ line.ind >= page.item =>
              parseList(rendered, line) =
                renderBlocks(rendered, [line EXCEPT !.ind = line.ind - page.item])
         /\ page.item > 0 /\ line.k # "blank" /\ ~(line.ind >= page.item) =>
              parseList(rendered, line) =
                NewBlock([rendered EXCEPT !.stack = CutAt(rendered.stack, Len(page.boxes))], line)
<1> DEFINE top == Len(rendered.stack)
<1>1. /\ page.boxes \in Seq(Box) /\ page.item \in Nat
      /\ Matches(page, rendered.stack, page.item)
  BY DEF PageInv, StackInv
<1>2. /\ Len(page.boxes) \in Nat /\ DOMAIN page.boxes = 1 .. Len(page.boxes)
      /\ top \in Nat /\ DOMAIN rendered.stack = 1 .. top
      /\ page.item = 0 => top = Len(page.boxes)
      /\ page.item > 0 => top = Len(page.boxes) + 1
  BY <1>1, StackLength
<1>3. CASE page.item = 0
  <2>1. top = 0 \/ rendered.stack[top].k = "open"
    <3>1. top # 0 => top \in DOMAIN page.boxes
      BY <1>2, <1>3
    <3>2. top # 0 => rendered.stack[top] = FrameOf(page, top)
      BY <1>1, <3>1 DEF Matches
    <3> QED BY <3>2 DEF FrameOf
  <2> QED BY <1>3, <2>1 DEF parseList
<1>4. CASE page.item > 0
  <2>1. /\ top # 0 /\ top - 1 = Len(page.boxes)
        /\ rendered.stack[top].k = "item" /\ rendered.stack[top].n = page.item
    BY <1>1, <1>2, <1>4 DEF Matches
  <2> QED BY <1>4, <2>1 DEF parseList
<1> QED BY <1>1, <1>3, <1>4

(* A line that closes nothing reaches the list.                            *)
LEMMA ReachesList ==
  ASSUME NEW line \in Lines, PageInv, StackInv, Read(line), ~page.fresh,
         line.k \notin {"close", "tab"},
         InCode => line.k # "open"
  PROVE  rendered' = parseList(rendered, line)
<1>1. HouseStyle(line) /\ rendered' = renderContainer(rendered, line)
  BY DEF Read
<1>2. line \in AnyLine
  BY LineTyped
<1>3. line.k = "open" => \A i \in DOMAIN page.boxes : page.boxes[i].n # line.n
  BY <1>1 DEF HouseStyle
<1>4. \A i \in DOMAIN rendered.stack :
        /\ rendered.stack[i].depth = 1
        /\ \/ rendered.stack[i].k = "item" \/ rendered.stack[i].n # line.n
           \/ line.k \notin {"open", "close"}
  <2> SUFFICES ASSUME NEW i \in DOMAIN rendered.stack
               PROVE  /\ rendered.stack[i].depth = 1
                      /\ \/ rendered.stack[i].k = "item" \/ rendered.stack[i].n # line.n
                         \/ line.k \notin {"open", "close"}
    OBVIOUS
  <2>1. \/ i \in DOMAIN page.boxes /\ rendered.stack[i] = FrameOf(page, i)
        \/ rendered.stack[i].k = "item"
    BY OpenFrames
  <2>2. rendered.stack[i].depth = 1
    BY OpenFrames
  <2> QED BY <1>3, <2>1, <2>2 DEF FrameOf
<1>5. renderContainer(rendered, line) = renderTabs(rendered, line)
  <2>1. rendered \in Rendering
    BY OpenFrames
  <2> QED BY <1>2, <1>4, <2>1, CountedSame
<1>6. renderTabs(rendered, line) = parseList(rendered, line)
  <2>1. \A i \in DOMAIN rendered.stack : IsTabs(rendered.stack[i]) => rendered.stack[i].on
    BY TabsAreOn
  <2> QED BY <2>1, TabsOn
<1> QED BY <1>1, <1>5, <1>6

(* In code the renderer waits for the end of the block.                    *)
LEMMA CodeLine ==
  ASSUME NEW line \in Lines, PageInv, StackInv, Read(line), InCode
  PROVE  /\ line.k = "fence" => rendered' = [rendered EXCEPT !.leaf = NoLeaf]
         /\ line.k # "fence" => rendered' = rendered
<1>1. line \in AnyLine /\ line.ind \in Nat
  BY LineTyped DEF AnyLine
<1>2. /\ ~page.fresh /\ page.fence.c = "tick" /\ page.fence.n = 3
      /\ page.code > 0 => page.item = page.code
      /\ page.code = 0 => page.item = 0
      /\ page.boxes \in Seq(Box) /\ page.item \in Nat /\ page.code \in Nat
      /\ rendered \in Rendering /\ Matches(page, rendered.stack, page.item)
      /\ rendered.leaf.k = "fence" /\ rendered.leaf.c = "tick" /\ rendered.leaf.n = 3
  BY DEF PageInv, StackInv, InCode
<1>3. \/ line.k = "blank"
      \/ line.k \in {"text", "head"} /\ line.ind >= page.code
      \/ /\ line.k = "fence" /\ line.c = "tick" /\ line.n >= 3 /\ line.w = "none"
         /\ line.ind = page.code
  BY <1>2 DEF Read, HouseStyle, Closes, OpenBlock
<1>4. rendered' = parseList(rendered, line)
  BY <1>2, <1>3, ReachesList
<1> DEFINE moved == [line EXCEPT !.ind = line.ind - page.item]
<1>5. page.item = page.code
  BY <1>2
<1>6. \/ rendered' = renderBlocks(rendered, line)
      \/ page.item > 0 /\ rendered' = renderBlocks(rendered, moved)
  <2>1. page.item = 0 \/ page.item > 0
    BY <1>2
  <2>2. line.k = "blank" \/ line.ind >= page.item
    <3>1. line.ind = page.code => line.ind >= page.code
      BY <1>2
    <3> QED BY <1>3, <1>5, <3>1
  <2>3. CASE page.item = 0 \/ line.k = "blank"
    BY <1>1, <1>4, <2>3, ListLine
  <2>4. CASE page.item > 0 /\ line.k # "blank"
    BY <1>1, <1>4, <2>2, <2>4, ListLine
  <2> QED BY <2>1, <2>3, <2>4
<1>7. moved.k = line.k /\ moved.c = line.c /\ moved.n = line.n /\ moved.w = line.w
  BY <1>1 DEF AnyLine
<1>8. \A some : some.k = line.k /\ some.c = line.c /\ some.n = line.n /\ some.w = line.w =>
        renderBlocks(rendered, some) =
          IF line.k = "fence" THEN [rendered EXCEPT !.leaf = NoLeaf] ELSE rendered
  BY <1>2, <1>3 DEF renderBlocks, Closes
<1> HIDE DEF moved
<1> QED BY <1>6, <1>7, <1>8

(* Outside code the renderer drops the item that has ended, and then takes *)
(* the line.                                                               *)
LEMMA OutsideLine ==
  ASSUME NEW line \in Lines, PageInv, StackInv, Read(line), ~InCode, ~page.fresh,
         line.k \notin {"close", "tab"}
  PROVE  \E stack \in Seq(AnyFrame) :
           /\ Matches(page, stack, Carried(line))
           /\ Outcome([rendered EXCEPT !.stack = stack], line, rendered')
<1>1. line \in AnyLine /\ line.ind \in Nat
  BY LineTyped DEF AnyLine
<1>2. /\ page.boxes \in Seq(Box) /\ page.item \in Nat
      /\ rendered \in Rendering /\ Matches(page, rendered.stack, page.item)
      /\ rendered.leaf.k # "fence"
      /\ rendered.leaf.k = "html" => page.html
      /\ rendered.stack \in Seq(AnyFrame) /\ [rendered EXCEPT !.stack = rendered.stack] = rendered
  BY DEF PageInv, StackInv, Rendering
<1>3. /\ page.html => line.k \in {"text", "blank"}
      /\ line.k = "fence" /\ line.ind > 0 => line.ind = page.item
      /\ line.k = "item" => line.ind = 0
  BY DEF Read, HouseStyle
<1>4. rendered' = parseList(rendered, line)
  BY ReachesList
<1>5. CASE line.k # "blank" /\ page.item > 0 /\ ~(line.ind >= page.item)
  <2> DEFINE stack == CutAt(rendered.stack, Len(page.boxes))
             r == [rendered EXCEPT !.stack = stack]
  <2>1. rendered' = NewBlock(r, line)
    BY <1>1, <1>2, <1>4, <1>5, ListLine
  <2>2. Matches(page, stack, 0) /\ Carried(line) = 0
    BY <1>2, <1>5, ItemDropped DEF Carried
  <2>3. stack \in Seq(AnyFrame)
    BY <2>2 DEF Matches
  <2>4. r \in Rendering
    BY <1>2, <2>3 DEF Rendering
  <2> HIDE DEF stack
  <2>5. Outcome(r, line, rendered')
    BY <1>1, <2>1, <2>4, NewBlockHolds
  <2> QED BY <2>2, <2>3, <2>5
<1>6. CASE line.k = "blank" \/ page.item = 0
  <2>1. rendered' = renderBlocks(rendered, line)
    BY <1>1, <1>2, <1>4, <1>6, ListLine
  <2>2. Carried(line) = page.item
    BY <1>1, <1>2, <1>6 DEF Carried
  <2>3. line.k = "fence" => line.ind = 0
    BY <1>1, <1>3, <1>6
  <2>4. Outcome(rendered, line, rendered')
    BY <1>1, <1>2, <1>3, <2>1, <2>3, BlockLine
  <2> QED BY <1>2, <2>2, <2>4
<1>7. CASE line.k # "blank" /\ page.item > 0 /\ line.ind >= page.item
  <2> DEFINE moved == [line EXCEPT !.ind = line.ind - page.item]
  <2>1. rendered' = renderBlocks(rendered, moved)
    BY <1>1, <1>2, <1>4, <1>7, ListLine
  <2>2. line.k # "item" /\ Carried(line) = page.item
    BY <1>1, <1>2, <1>3, <1>7 DEF Carried
  <2>3. /\ moved \in AnyLine /\ moved.k = line.k
        /\ line.k = "fence" => moved.ind = 0
    BY <1>1, <1>2, <1>3, <1>7 DEF AnyLine
  <2> HIDE DEF moved
  <2>4. Outcome(rendered, moved, rendered')
    BY <1>2, <1>3, <2>1, <2>3, BlockLine
  <2>5. Outcome(rendered, line, rendered')
    <3>1. page.item \in 0 .. line.ind
      BY <1>1, <1>2, <1>7
    <3> QED BY <1>1, <2>4, <3>1, Shifted DEF moved
  <2> QED BY <1>2, <2>2, <2>5
<1>8. page.item = 0 \/ page.item > 0
  BY <1>2
<1> QED BY <1>5, <1>6, <1>7, <1>8

(* New tabs wait for their first tab.                                      *)
LEMMA FreshLine ==
  ASSUME NEW line \in Lines, PageInv, BoxesInv, StackInv, Read(line), page.fresh, line.k = "blank"
  PROVE  rendered' = rendered
<1> DEFINE last == Len(page.boxes)
<1>1. rendered' = renderContainer(rendered, line)
  BY DEF Read
<1>2. renderContainer(rendered, line) = renderTabs(rendered, line)
  <2>1. line \in AnyLine /\ rendered \in Rendering
    BY LineTyped, OpenFrames
  <2>2. \A i \in DOMAIN rendered.stack : rendered.stack[i].depth = 1
    BY OpenFrames
  <2> QED BY <2>1, <2>2, CountedSame
<1>3. /\ last \in DOMAIN page.boxes /\ last \in DOMAIN rendered.stack
      /\ rendered.stack[last] = FrameOf(page, last)
  <2>1. page.boxes # <<>> /\ page.boxes \in Seq(Box) /\ page.item \in Nat
    BY DEF PageInv
  <2>2. Matches(page, rendered.stack, page.item)
    BY DEF StackInv
  <2>3. last \in DOMAIN page.boxes
    BY <2>1
  <2>4. last \in DOMAIN rendered.stack
    BY <2>1, <2>2, <2>3, StackLength
  <2> QED BY <2>2, <2>3, <2>4 DEF Matches
<1>4. page.boxes[last].w = "tabs" /\ page.boxes[last].n >= 4
  BY <1>3 DEF BoxesInv
<1>5. (page.boxes[last].w = "tabs" /\ ~(page.fresh /\ last = Len(page.boxes))) = FALSE
  OBVIOUS
<1>6. FrameOf(page, last).on = FALSE /\ IsTabs(FrameOf(page, last))
  BY <1>4, <1>5 DEF FrameOf, IsTabs
<1> HIDE DEF last
<1>7. renderTabs(rendered, line) = rendered
  BY <1>3, <1>6 DEF renderTabs
<1> QED BY <1>1, <1>2, <1>7

(* A tab cuts the stack at the tabs, and starts their content.             *)
LEMMA TabLine ==
  ASSUME NEW line \in Lines, PageInv, BoxesInv, StackInv, Read(line), ~InCode, line.k = "tab"
  PROVE  \E stack : /\ rendered' = [rendered EXCEPT !.stack = stack, !.leaf = NoLeaf]
                    /\ stack \in Seq(AnyFrame) /\ Matches(page', stack, 0)
<1> DEFINE last  == Len(page.boxes)
           stack == [CutAt(rendered.stack, last) EXCEPT ![last].on = TRUE]
<1>1. /\ last \in Nat \ {0} /\ page.boxes \in Seq(Box) /\ page.item \in Nat
      /\ DOMAIN page.boxes = 1 .. last /\ page.boxes[last].w = "tabs"
  BY TabOpens DEF Read, PageInv
<1>2. /\ rendered \in Rendering /\ rendered.stack \in Seq(AnyFrame)
      /\ Matches(page, rendered.stack, page.item)
  BY DEF StackInv, Rendering
<1>3. last \in 0 .. Len(rendered.stack) /\ DOMAIN rendered.stack = 1 .. Len(rendered.stack)
  BY <1>1, <1>2, StackLength
<1>4. rendered' = renderTabs(rendered, line)
  <2>1. renderContainer(rendered, line) = renderTabs(rendered, line)
    <3>1. line \in AnyLine
      BY LineTyped
    <3>2. \A i \in DOMAIN rendered.stack : rendered.stack[i].depth = 1
      BY OpenFrames
    <3> QED BY <1>2, <3>1, <3>2, CountedSame
  <2> QED BY <2>1 DEF Read
<1>5. \A i \in DOMAIN page.boxes : page.boxes[i].w = "tabs" => i = last
  BY <1>1 DEF BoxesInv
<1>6. \A i \in DOMAIN page.boxes : rendered.stack[i] = FrameOf(page, i)
  BY <1>2 DEF Matches
<1>7. {i \in DOMAIN rendered.stack : IsTabs(rendered.stack[i])} = {last}
  <2>1. IsTabs(rendered.stack[last]) /\ last \in DOMAIN rendered.stack
    <3>1. page.boxes[last].n >= 4
      BY <1>1 DEF BoxesInv
    <3>2. IsTabs(FrameOf(page, last))
      BY <1>1, <3>1 DEF IsTabs, FrameOf
    <3> QED BY <1>1, <1>3, <1>6, <3>2
  <2>2. ASSUME NEW i \in DOMAIN rendered.stack, IsTabs(rendered.stack[i]) PROVE i = last
    <3>1. \/ i \in DOMAIN page.boxes /\ rendered.stack[i] = FrameOf(page, i)
          \/ rendered.stack[i].k = "item"
      BY OpenFrames
    <3>2. i \in DOMAIN page.boxes /\ page.boxes[i].w = "tabs"
      BY <2>2, <3>1 DEF IsTabs, FrameOf
    <3> QED BY <1>5, <3>2
  <2> QED BY <2>1, <2>2
<1>8. rendered' = [rendered EXCEPT !.stack = stack, !.leaf = NoLeaf]
  <2> DEFINE tabs  == {i \in DOMAIN rendered.stack : IsTabs(rendered.stack[i])}
             first == CHOOSE t \in tabs : \A u \in tabs : t <= u
  <2>1. tabs = {last}
    BY <1>7
  <2>2. \A u \in tabs : last <= u
    BY <1>1, <2>1
  <2>3. first = last
    <3> HIDE DEF tabs
    <3> QED BY <2>1, <2>2
  <2>4. tabs # {}
    BY <2>1
  <2> HIDE DEF last
  <2>5. renderTabs(rendered, line) =
          [rendered EXCEPT !.stack = [CutAt(rendered.stack, first) EXCEPT ![first].on = TRUE],
                           !.leaf = NoLeaf]
    BY <2>4 DEF renderTabs
  <2> QED BY <1>4, <2>3, <2>5
<1>9. /\ page'.boxes = page.boxes /\ page'.fresh = FALSE
  BY PageMoves
<1> DEFINE cut == CutAt(rendered.stack, last)
<1>10. /\ cut \in Seq(AnyFrame) /\ Len(cut) = last
       /\ \A i \in 1 .. last : cut[i] = rendered.stack[i]
  BY <1>2, <1>3, CutHolds
<1>11. /\ stack \in Seq(AnyFrame) /\ Len(stack) = last
       /\ \A i \in 1 .. last : i # last => stack[i] = cut[i]
       /\ stack[last] = [cut[last] EXCEPT !.on = TRUE]
  <2> HIDE DEF cut, last
  <2> DEFINE on == [cut[last] EXCEPT !.on = TRUE]
  <2>1. cut[last] \in AnyFrame
    BY <1>1, <1>10
  <2>2. on \in AnyFrame
    BY <2>1 DEF AnyFrame
  <2>3. stack = [cut EXCEPT ![last] = on]
    BY DEF cut
  <2> HIDE DEF on, stack
  <2>4. /\ stack \in Seq(AnyFrame) /\ Len(stack) = last /\ stack[last] = on
        /\ \A i \in 1 .. last : i # last => stack[i] = cut[i]
    BY <1>1, <1>10, <2>2, <2>3
  <2> QED BY <2>4 DEF on
<1>12. \A i \in 1 .. last : stack[i] = FrameOf(page', i)
  <2> HIDE DEF stack, cut
  <2>1. ASSUME NEW i \in 1 .. last, i # last PROVE stack[i] = FrameOf(page', i)
    <3>1. page.boxes[i].w # "tabs"
      BY <1>1, <1>5, <2>1
    <3>2. stack[i] = FrameOf(page, i)
      BY <1>1, <1>6, <1>10, <1>11, <2>1
    <3>3. (page.boxes[i].w = "tabs" /\ ~(page.fresh /\ i = last))
            = (page'.boxes[i].w = "tabs" /\ ~(page'.fresh /\ i = last))
      BY <1>9, <3>1
    <3> QED BY <1>9, <3>2, <3>3 DEF FrameOf
  <2>2. stack[last] = FrameOf(page', last)
    <3>1. (page'.boxes[last].w = "tabs" /\ ~(page'.fresh /\ last = Len(page'.boxes))) = TRUE
      BY <1>1, <1>9
    <3>2. FrameOf(page', last) = [FrameOf(page, last) EXCEPT !.on = TRUE]
      <4> HIDE DEF last
      <4>1. FrameOf(page', last) = [k |-> "open", n |-> page.boxes[last].n,
                                    w |-> page.boxes[last].w, depth |-> 1, on |-> TRUE]
        BY <1>9, <3>1 DEF FrameOf
      <4> DEFINE frame == FrameOf(page, last)
      <4>2. frame.k = "open" /\ frame.n = page.boxes[last].n /\ frame.w = page.boxes[last].w
            /\ frame.depth = 1
        BY DEF FrameOf
      <4>3. frame \in AnyFrame
        <5>1. rendered.stack[last] \in AnyFrame
          BY <1>1, <1>2, <1>3
        <5>2. rendered.stack[last] = FrameOf(page, last)
          BY <1>1, <1>6
        <5> QED BY <5>1, <5>2
      <4> HIDE DEF frame
      <4> DEFINE begun == [frame EXCEPT !.on = TRUE]
      <4>4. begun \in AnyFrame
        BY <4>3 DEF AnyFrame
      <4>5. /\ begun.k = frame.k /\ begun.n = frame.n /\ begun.w = frame.w
            /\ begun.depth = frame.depth /\ begun.on = TRUE
        BY <4>3 DEF AnyFrame
      <4> HIDE DEF begun
      <4>6. begun = [k |-> begun.k, n |-> begun.n, w |-> begun.w, depth |-> begun.depth,
                     on |-> begun.on]
        BY <4>4 DEF AnyFrame
      <4>7. FrameOf(page', last) = begun
        BY <4>1, <4>2, <4>5, <4>6
      <4> QED BY <4>7 DEF frame, begun
    <3>3. cut[last] = FrameOf(page, last)
      BY <1>1, <1>6, <1>10
    <3> QED BY <1>11, <3>2, <3>3
  <2> QED BY <2>1, <2>2
<1> HIDE DEF stack
<1>13. Matches(page', stack, 0)
  BY <1>1, <1>9, <1>11, <1>12 DEF Matches
<1> QED BY <1>8, <1>11, <1>13

(* A closing line ends the innermost container, and what is in it.         *)
LEMMA CloseLine ==
  ASSUME NEW line \in Lines, PageInv, BoxesInv, StackInv, Read(line), ~InCode, line.k = "close"
  PROVE  \E stack : /\ rendered' = [rendered EXCEPT !.stack = stack, !.leaf = NoLeaf]
                    /\ stack \in Seq(AnyFrame) /\ Matches(page', stack, 0)
<1> DEFINE last    == Len(page.boxes)
           counted == [i \in DOMAIN rendered.stack |-> Counted(rendered.stack[i], line)]
           stack   == CutAt(counted, last - 1)
<1>1. /\ last \in Nat \ {0} /\ page.boxes \in Seq(Box) /\ page.item \in Nat
      /\ DOMAIN page.boxes = 1 .. last /\ page.boxes[last].n = line.n /\ ~page.fresh
  BY Closing DEF Read, PageInv
<1>2. /\ rendered \in Rendering /\ rendered.stack \in Seq(AnyFrame)
      /\ Matches(page, rendered.stack, page.item)
  BY DEF StackInv, Rendering
<1>3. last \in 0 .. Len(rendered.stack) /\ DOMAIN rendered.stack = 1 .. Len(rendered.stack)
  BY <1>1, <1>2, StackLength
<1>4. \A i \in DOMAIN page.boxes : rendered.stack[i] = FrameOf(page, i)
  BY <1>2 DEF Matches
<1>5. \A i \in DOMAIN page.boxes : page.boxes[i].n = line.n => i = last
  BY <1>1 DEF BoxesInv
<1>6. ASSUME NEW i \in DOMAIN rendered.stack, i # last
      PROVE  counted[i] = rendered.stack[i] /\ rendered.stack[i].depth = 1
  <2>1. \/ i \in DOMAIN page.boxes /\ rendered.stack[i] = FrameOf(page, i)
        \/ rendered.stack[i].k = "item"
    BY OpenFrames
  <2>2. rendered.stack[i].k = "item" \/ rendered.stack[i].n # line.n
    BY <1>5, <1>6, <2>1 DEF FrameOf
  <2>3. rendered.stack[i].depth = 1
    BY OpenFrames
  <2> QED BY <2>2, <2>3 DEF Counted
<1>7. last \in DOMAIN rendered.stack /\ counted[last] = [FrameOf(page, last) EXCEPT !.depth = 0]
  <2>1. last \in DOMAIN rendered.stack /\ rendered.stack[last] = FrameOf(page, last)
    BY <1>1, <1>3, <1>4
  <2>2. /\ FrameOf(page, last).k = "open" /\ FrameOf(page, last).n = line.n
        /\ FrameOf(page, last).depth = 1
    BY <1>1 DEF FrameOf
  <2>3. Counted(FrameOf(page, last), line) = [FrameOf(page, last) EXCEPT !.depth = 0]
    BY <2>2 DEF Counted
  <2> QED BY <2>1, <2>3
<1>8. {i \in DOMAIN counted : counted[i].depth = 0} = {last}
  <2>1. DOMAIN counted = DOMAIN rendered.stack
    OBVIOUS
  <2> HIDE DEF counted, last
  <2>2. counted[last].depth = 0
    BY <1>7 DEF FrameOf
  <2>3. \A i \in DOMAIN rendered.stack : i # last => counted[i].depth = 1
    BY <1>6
  <2>4. last \in DOMAIN counted
    BY <1>7, <2>1
  <2>5. \A i \in DOMAIN counted : counted[i].depth = 0 => i = last
    BY <2>1, <2>3
  <2> QED BY <2>2, <2>4, <2>5
<1>9. rendered' = [rendered EXCEPT !.stack = stack, !.leaf = NoLeaf]
  <2> DEFINE ended == {i \in DOMAIN counted : counted[i].depth = 0}
             outermost == CHOOSE e \in ended : \A f \in ended : e <= f
  <2>1. rendered' = renderContainer(rendered, line)
    BY DEF Read
  <2>2. ended = {last}
    BY <1>8
  <2>3. \A f \in ended : last <= f
    <3> HIDE DEF ended
    <3> QED BY <1>1, <2>2
  <2>4. outermost = last
    <3> HIDE DEF ended
    <3> QED BY <2>2, <2>3
  <2>5. ended # {}
    BY <2>2
  <2> HIDE DEF last
  <2>6. renderContainer(rendered, line) =
          [rendered EXCEPT !.stack = CutAt(counted, outermost - 1), !.leaf = NoLeaf]
    BY <2>5 DEF renderContainer
  <2> QED BY <2>1, <2>4, <2>6
<1>10. counted \in Seq(AnyFrame) /\ Len(counted) = Len(rendered.stack)
  <2>1. \A i \in DOMAIN rendered.stack : counted[i] \in AnyFrame
    <3>1. [FrameOf(page, last) EXCEPT !.depth = 0] \in AnyFrame
      <4>1. FrameOf(page, last) \in AnyFrame
        BY <1>1, <1>2, <1>3, <1>4
      <4> QED BY <4>1 DEF AnyFrame
    <3>2. \A i \in DOMAIN rendered.stack : rendered.stack[i] \in AnyFrame
      BY <1>2
    <3> HIDE DEF counted, last
    <3> QED BY <1>6, <1>7, <3>1, <3>2
  <2>2. counted \in [1 .. Len(rendered.stack) -> AnyFrame]
    BY <1>3, <2>1
  <2> QED BY <1>2, <2>2
<1>11. /\ stack \in Seq(AnyFrame) /\ Len(stack) = last - 1
       /\ \A i \in 1 .. last - 1 : stack[i] = counted[i]
  <2>1. last - 1 \in 0 .. Len(counted)
    BY <1>1, <1>3, <1>10
  <2> HIDE DEF counted
  <2> QED BY <1>10, <2>1, CutHolds
<1>12. \A i \in 1 .. last - 1 : stack[i] = FrameOf(page, i)
  <2> HIDE DEF stack, counted
  <2> QED BY <1>1, <1>3, <1>4, <1>6, <1>11
<1>13. /\ page'.boxes = CutAt(page.boxes, last - 1) /\ page'.fresh = page.fresh
  BY PageMoves
<1>14. /\ Len(page'.boxes) = last - 1 /\ DOMAIN page'.boxes = 1 .. last - 1
       /\ \A i \in 1 .. last - 1 : page'.boxes[i] = page.boxes[i]
  <2>1. last - 1 \in 0 .. Len(page.boxes)
    BY <1>1
  <2>2. /\ page'.boxes \in Seq(Box) /\ Len(page'.boxes) = last - 1
        /\ \A i \in 1 .. last - 1 : page'.boxes[i] = page.boxes[i]
    BY <1>1, <1>13, <2>1, CutHolds
  <2> QED BY <2>2
<1>15. \A i \in 1 .. last - 1 : FrameOf(page', i) = FrameOf(page, i)
  <2>1. ~page'.fresh
    BY <1>1, <1>13
  <2>2. ASSUME NEW i \in 1 .. last - 1 PROVE FrameOf(page', i) = FrameOf(page, i)
    <3>1. page'.boxes[i] = page.boxes[i]
      BY <1>14
    <3>2. (page'.boxes[i].w = "tabs" /\ ~(page'.fresh /\ i = Len(page'.boxes)))
            = (page.boxes[i].w = "tabs" /\ ~(page.fresh /\ i = Len(page.boxes)))
      BY <1>1, <2>1, <3>1
    <3> QED BY <3>1, <3>2 DEF FrameOf
  <2> QED BY <2>2
<1> HIDE DEF stack
<1>16. Matches(page', stack, 0)
  BY <1>11, <1>12, <1>14, <1>15 DEF Matches
<1> QED BY <1>9, <1>11, <1>16

(* After a line that opens no code the renderer has the author's stack.    *)
LEMMA StackOutside ==
  ASSUME NEW line \in Lines, PageInv, BoxesInv, StackInv, HeadsInv, Read(line), ~InCode,
         ~page.fresh, line.k \notin {"close", "tab"}
  PROVE  StackInv' /\ (line.k # "head" => rendered'.heads = rendered.heads)
                   /\ (line.k = "head" => rendered'.heads = AddHeading(rendered.heads, line.w))
<1>1. /\ line \in AnyLine /\ line.k \in LineKinds /\ line.n \in Nat /\ line.w \in Words
      /\ line.k = "item" => line.n > 0
  BY LineTyped DEF AnyLine
<1>2. /\ page.boxes \in Seq(Box) /\ page.item \in Nat /\ page.code = -1
      /\ rendered.stack \in Seq(AnyFrame) /\ rendered.leaf \in AnyLeaf
      /\ rendered.heads \in Seq(Id)
      /\ rendered = [stack |-> rendered.stack, leaf |-> rendered.leaf, heads |-> rendered.heads]
      /\ rendered.leaf.k = "html" => page.html
  <2>1. page.code \in Nat \cup {-1} /\ page.boxes \in Seq(Box) /\ page.item \in Nat
    BY DEF PageInv
  <2>2. page.code = -1
    BY <2>1 DEF InCode
  <2>3. rendered \in Rendering /\ (rendered.leaf.k = "html" => page.html)
    BY DEF StackInv
  <2> QED BY <2>1, <2>2, <2>3 DEF Rendering
<1>3. PICK stack \in Seq(AnyFrame) :
        /\ Matches(page, stack, Carried(line))
        /\ Outcome([rendered EXCEPT !.stack = stack], line, rendered')
  BY OutsideLine
<1> DEFINE r == [stack |-> stack, leaf |-> rendered.leaf, heads |-> rendered.heads]
<1>4. Outcome(r, line, rendered')
  <2>1. [rendered EXCEPT !.stack = stack] = r
    BY <1>2
  <2> HIDE DEF r
  <2> QED BY <1>3, <2>1
<1>5. NoLeaf \in AnyLeaf /\ NoLeaf.k = "none" /\ Para \in AnyLeaf /\ Para.k = "text"
  BY DEF Para, NoLeaf, AnyLeaf, Words
<1>6. HouseStyle(line)
  BY DEF Read
<1>7. CASE line.k \notin {"item", "open", "fence"}
  <2>1. PICK leaf \in AnyLeaf, heads \in Seq(Id) :
          /\ rendered' = [stack |-> stack, leaf |-> leaf, heads |-> heads]
          /\ leaf.k # "fence" /\ (leaf.k = "html" => line.k = "html" \/ rendered.leaf.k = "html")
          /\ leaf.k = "html" => line.k # "blank"
          /\ line.k # "head" => heads = rendered.heads
          /\ line.k = "head" => heads = AddHeading(rendered.heads, line.w)
    <3>1. CASE line.k \in {"blank", "rule"}
      <4>1. rendered' = [stack |-> stack, leaf |-> NoLeaf, heads |-> rendered.heads]
        BY <1>4, <3>1 DEF Outcome
      <4> QED BY <1>2, <1>5, <3>1, <4>1
    <3>2. CASE line.k = "head"
      <4>1. rendered' = [stack |-> stack, leaf |-> NoLeaf,
                         heads |-> AddHeading(rendered.heads, line.w)]
        BY <1>4, <3>2 DEF Outcome
      <4>2. AddHeading(rendered.heads, line.w) \in Seq(Id)
        BY <1>1, <1>2, AddHeadingHolds DEF HeadsInv
      <4> QED BY <1>5, <3>2, <4>1, <4>2
    <3>3. CASE line.k \in {"text", "html", "quote", "row"}
      <4>1. PICK leaf \in AnyLeaf : /\ rendered' = [r EXCEPT !.leaf = leaf] /\ leaf.k # "fence"
                                    /\ leaf.k = "html" => line.k = "html" \/ r.leaf.k = "html"
        BY <1>4, <3>3 DEF Outcome
      <4>2. rendered' = [stack |-> stack, leaf |-> leaf, heads |-> rendered.heads]
        BY <4>1
      <4> QED BY <1>2, <3>3, <4>1, <4>2
    <3> QED BY <1>1, <1>7, <3>1, <3>2, <3>3 DEF LineKinds
  <2>2. /\ page'.boxes = page.boxes /\ page'.fresh = page.fresh /\ page'.item = Carried(line)
        /\ page'.code = -1
        /\ page'.html = (line.k = "html" \/ (page.html /\ line.k # "blank"))
    BY <1>2, <1>7, PageMoves
  <2>3. Matches(page', stack, page'.item)
    BY <1>3, <2>2, MatchesSame
  <2>4. leaf.k = "html" => page'.html
    BY <1>2, <2>1, <2>2
  <2>5. rendered' \in Rendering
    BY <2>1 DEF Rendering
  <2>6. StackInv'
    BY <2>1, <2>2, <2>3, <2>4, <2>5 DEF StackInv, InCode
  <2> QED BY <2>1, <2>6
<1>8. CASE line.k = "fence"
  <2>1. rendered' = [stack |-> stack, leaf |-> Leaf(line), heads |-> rendered.heads]
    BY <1>4, <1>8 DEF Outcome
  <2>2. /\ page'.boxes = page.boxes /\ page'.fresh = page.fresh /\ page'.item = Carried(line)
        /\ page'.code = line.ind /\ line.ind \in Nat
    BY <1>1, <1>8, PageMoves DEF AnyLine
  <2>3. Matches(page', stack, page'.item)
    BY <1>3, <2>2, MatchesSame
  <2>4. /\ Leaf(line) \in AnyLeaf /\ Leaf(line).k = "fence"
        /\ Leaf(line).c = "tick" /\ Leaf(line).n = 3
    BY <1>1, <1>6, <1>8 DEF HouseStyle, Leaf, AnyLeaf, AnyLine
  <2>5. rendered' \in Rendering
    BY <1>2, <2>1, <2>4 DEF Rendering
  <2>6. StackInv'
    BY <2>1, <2>2, <2>3, <2>4, <2>5 DEF StackInv, InCode
  <2> QED BY <1>8, <2>1, <2>6
<1>9. CASE line.k \in {"item", "open"}
  <2>1. Carried(line) = 0
    <3>1. line.ind = 0
      BY <1>6, <1>9 DEF HouseStyle
    <3> QED BY <1>2, <1>9, <3>1 DEF Carried
  <2>2. PICK leaf \in AnyLeaf :
          /\ rendered' = [stack |-> Append(stack, Frame(line)), leaf |-> leaf,
                          heads |-> rendered.heads]
          /\ leaf.k \in {"none", "text"}
    <3>1. CASE line.k = "item"
      <4>1. rendered' = [stack |-> Append(stack, Frame(line)), leaf |-> Para,
                         heads |-> rendered.heads]
        BY <1>4, <3>1 DEF Outcome
      <4> QED BY <1>5, <4>1
    <3>2. CASE line.k = "open"
      <4>1. rendered' = [stack |-> Append(stack, Frame(line)), leaf |-> NoLeaf,
                         heads |-> rendered.heads]
        BY <1>4, <3>2 DEF Outcome
      <4> QED BY <1>5, <4>1
    <3> QED BY <1>9, <3>1, <3>2
  <2>3. page'.code = -1
    BY <1>2, <1>9, PageMoves
  <2>4. Matches(page', Append(stack, Frame(line)), page'.item)
    <3>1. Matches(page, stack, 0)
      BY <1>3, <2>1
    <3>2. CASE line.k = "item"
      <4>1. /\ page'.boxes = page.boxes /\ page'.fresh = page.fresh
            /\ page'.item = line.n
        BY <3>2, PageMoves
      <4>2. Matches(page, Append(stack, Frame(line)), line.n)
        BY <1>1, <1>2, <3>1, <3>2, MatchesItem
      <4> QED BY <4>1, <4>2, MatchesSame
    <3>3. CASE line.k = "open"
      <4>1. /\ page'.boxes = Append(page.boxes, [n |-> line.n, w |-> line.w])
            /\ page'.fresh = (line.w = "tabs") /\ page'.item = 0
        BY <2>1, <3>3, PageMoves
      <4> QED BY <1>1, <1>2, <3>1, <3>3, <4>1, MatchesBox
    <3> QED BY <1>9, <3>2, <3>3
  <2>5. Append(stack, Frame(line)) \in Seq(AnyFrame)
    BY <2>4 DEF Matches
  <2>6. rendered' \in Rendering
    BY <1>2, <2>2, <2>5 DEF Rendering
  <2>7. StackInv'
    BY <2>2, <2>3, <2>4, <2>6 DEF StackInv, InCode
  <2> QED BY <1>9, <2>2, <2>7
<1> QED BY <1>7, <1>8, <1>9

(* After every line the renderer has the author's stack, and it has added  *)
(* a heading if the line is one outside code.                              *)
LEMMA StackNext ==
  ASSUME NEW line \in Lines, PageInv, BoxesInv, StackInv, HeadsInv, Read(line)
  PROVE  /\ StackInv'
         /\ line.k # "head" \/ InCode => rendered'.heads = rendered.heads
         /\ line.k = "head" /\ ~InCode => rendered'.heads = AddHeading(rendered.heads, line.w)
<1>1. /\ page.boxes \in Seq(Box) /\ page.item \in Nat /\ page.code \in Nat \cup {-1}
      /\ rendered.stack \in Seq(AnyFrame) /\ rendered.leaf \in AnyLeaf
      /\ rendered.heads \in Seq(Id)
      /\ rendered = [stack |-> rendered.stack, leaf |-> rendered.leaf, heads |-> rendered.heads]
      /\ Matches(page, rendered.stack, page.item)
  BY DEF PageInv, StackInv, Rendering
<1>2. NoLeaf \in AnyLeaf /\ NoLeaf.k = "none"
  BY DEF NoLeaf, AnyLeaf, Words
<1>3. HouseStyle(line)
  BY DEF Read
<1>4. CASE InCode
  <2>1. /\ page'.boxes = page.boxes /\ page'.fresh = page.fresh /\ page'.item = page.item
        /\ line.k = "fence" => page'.code = -1
        /\ line.k # "fence" => page'.code = page.code
    BY <1>4, PageMoves
  <2>2. Matches(page', rendered.stack, page'.item)
    BY <1>1, <2>1, MatchesSame
  <2>3. CASE line.k = "fence"
    <3>1. rendered' = [stack |-> rendered.stack, leaf |-> NoLeaf, heads |-> rendered.heads]
      BY <1>1, <1>4, <2>3, CodeLine
    <3>2. rendered' \in Rendering
      BY <1>1, <1>2, <3>1 DEF Rendering
    <3>3. StackInv'
      BY <1>2, <2>1, <2>2, <2>3, <3>1, <3>2 DEF StackInv, InCode
    <3> QED BY <2>3, <3>1, <3>3
  <2>4. CASE line.k # "fence"
    <3>1. rendered' = rendered
      BY <1>4, <2>4, CodeLine
    <3>2. rendered.leaf.k = "fence" /\ rendered.leaf.c = "tick" /\ rendered.leaf.n = 3
      BY <1>4 DEF StackInv
    <3>3. rendered' \in Rendering /\ page'.code >= 0
      BY <1>4, <2>1, <2>4, <3>1 DEF StackInv, InCode
    <3>4. StackInv'
      BY <2>2, <3>1, <3>2, <3>3 DEF StackInv, InCode
    <3> QED BY <1>4, <3>1, <3>4
  <2> QED BY <2>3, <2>4
<1>5. CASE ~InCode /\ line.k \in {"tab", "close"}
  <2>1. PICK stack : /\ rendered' = [rendered EXCEPT !.stack = stack, !.leaf = NoLeaf]
                     /\ stack \in Seq(AnyFrame) /\ Matches(page', stack, 0)
    <3>1. CASE line.k = "tab"
      BY <1>5, <3>1, TabLine
    <3>2. CASE line.k = "close"
      BY <1>5, <3>2, CloseLine
    <3> QED BY <1>5, <3>1, <3>2
  <2>2. rendered' = [stack |-> stack, leaf |-> NoLeaf, heads |-> rendered.heads]
    BY <1>1, <2>1
  <2>3. line.ind = 0
    BY <1>3, <1>5 DEF HouseStyle
  <2>4. Carried(line) = 0
    BY <1>1, <1>5, <2>3 DEF Carried
  <2>5. page'.item = 0 /\ page'.code = -1
    <3>1. page'.item = Carried(line) /\ page'.code = page.code
      BY <1>5, PageMoves
    <3>2. page.code = -1
      BY <1>1, <1>5 DEF InCode
    <3> QED BY <2>4, <3>1, <3>2
  <2>6. rendered' \in Rendering
    BY <1>1, <1>2, <2>1, <2>2 DEF Rendering
  <2>7. StackInv'
    BY <1>2, <2>1, <2>2, <2>5, <2>6 DEF StackInv, InCode
  <2> QED BY <1>5, <2>2, <2>7
<1>6. CASE ~InCode /\ page.fresh /\ line.k = "blank"
  <2>1. rendered' = rendered
    BY <1>6, FreshLine
  <2>2. /\ page'.boxes = page.boxes /\ page'.fresh = page.fresh /\ page'.item = page.item
        /\ page'.code = page.code
    <3>1. Carried(line) = page.item
      BY <1>6 DEF Carried
    <3> QED BY <1>6, <3>1, PageMoves
  <2>3. Matches(page', rendered.stack, page'.item)
    BY <1>1, <2>2, MatchesSame
  <2>4. rendered.leaf.k # "html" /\ rendered.leaf.k # "fence" /\ rendered \in Rendering
    BY <1>6 DEF StackInv, PageInv
  <2>5. StackInv'
    BY <1>6, <2>1, <2>2, <2>3, <2>4 DEF StackInv, InCode
  <2> QED BY <1>6, <2>1, <2>5
<1>7. CASE ~InCode /\ ~page.fresh /\ line.k \notin {"tab", "close"}
  BY <1>7, StackOutside
<1>8. page.fresh => line.k \in {"tab", "blank"}
  BY <1>3 DEF HouseStyle
<1> QED BY <1>4, <1>5, <1>6, <1>7, <1>8

-----------------------------------------------------------------------------
(* The other scanners.                                                     *)

(* What a line may be in code.                                             *)
LEMMA LineInCode ==
  ASSUME NEW line \in Lines, PageInv, Read(line), InCode
  PROVE  \/ line.k \in {"blank", "text", "head"} /\ page'.code = page.code
         \/ /\ line.k = "fence" /\ line.c = "tick" /\ line.n >= 3 /\ line.w = "none"
            /\ line.ind = page.code /\ page'.code = -1
<1>1. page.fence.c = "tick" /\ page.fence.n = 3
  BY DEF PageInv
<1>2. \/ line.k = "blank"
      \/ line.k \in {"text", "head"} /\ line.ind >= page.code
      \/ /\ line.k = "fence" /\ line.c = "tick" /\ line.n >= 3 /\ line.w = "none"
         /\ line.ind = page.code
  BY <1>1 DEF Read, HouseStyle, Closes, OpenBlock
<1> QED BY <1>2, PageMoves

(* Every scanner opens and closes the author's fence, and no other.        *)
LEMMA FenceNext ==
  ASSUME NEW line \in Lines, PageInv, FenceInv, HeadsInv, Read(line)
  PROVE  FenceInv'
<1>1. /\ line \in AnyLine /\ line.k \in LineKinds /\ line.n \in Nat /\ line.ind \in Nat
      /\ line.w \in Words /\ line.c \in Words
  BY LineTyped DEF AnyLine
<1>2. page.code \in Nat \cup {-1} /\ (InCode <=> page.code # -1) /\ (InCode <=> page.code \in Nat)
  BY DEF PageInv, InCode
<1>3. /\ anchors' = GetHeadings(anchors, line) /\ linkFence' = LinkFence(linkFence, line)
      /\ block' = ExtractBlocks(block, line) /\ banFence' = BanFence(banFence, line)
      /\ extracted' = ExtractFromMarkdown(extracted, line) /\ HouseStyle(line)
  BY DEF Read
<1>4. block \in [c : Words, n : Nat, w : Words, manifest : BOOLEAN]
  BY DEF FenceInv
<1>5. NoBlock \in [c : Words, n : Nat, w : Words, manifest : BOOLEAN] /\ NoBlock.c = "none"
  BY DEF NoBlock, Words
<1>6. CASE InCode /\ line.k # "fence"
  <2>1. page'.code = page.code /\ page'.fence = page.fence /\ line.k \in {"blank", "text", "head"}
    BY <1>6, LineInCode, PageMoves
  <2>2. /\ anchors.fence = "tick" /\ linkFence = "tick" /\ block.c = "tick" /\ block.n = 3
        /\ block.w = page.fence.w /\ banFence # "none"
        /\ banFence = BanMode(page.fence.w)
        /\ extracted = IF page.code = 0 THEN block ELSE NoBlock
    BY <1>6 DEF FenceInv, BanMode
  <2>3. anchors' = anchors
    BY <1>3, <1>6, <2>2 DEF GetHeadings
  <2>4. linkFence' = linkFence /\ banFence' = banFence
    BY <1>3, <1>6 DEF LinkFence, BanFence
  <2>5. ~Closes(line, block) /\ ~Closes(line, extracted)
    BY <1>6 DEF Closes
  <2>6. block' = InBlock(block, line)
    BY <1>3, <1>6, <2>2, <2>5 DEF ExtractBlocks
  <2>7. /\ block' \in [c : Words, n : Nat, w : Words, manifest : BOOLEAN]
        /\ block'.c = "tick" /\ block'.n = 3 /\ block'.w = page.fence.w
    BY <1>4, <2>2, <2>6 DEF InBlock
  <2>8. extracted' = IF page.code = 0 THEN block' ELSE NoBlock
    <3>1. CASE page.code = 0
      BY <1>3, <1>6, <2>2, <2>5, <2>6, <3>1 DEF ExtractFromMarkdown
    <3>2. CASE page.code # 0
      BY <1>3, <1>5, <1>6, <2>2, <3>2 DEF ExtractFromMarkdown
    <3> QED BY <3>1, <3>2
  <2>9. InCode'
    BY <1>6, <2>1 DEF InCode
  <2> QED BY <2>1, <2>2, <2>3, <2>4, <2>7, <2>8, <2>9 DEF FenceInv
<1>7. CASE InCode /\ line.k = "fence"
  <2>1. /\ line.c = "tick" /\ line.n >= 3 /\ line.w = "none" /\ line.ind = page.code
        /\ page'.code = -1
    BY <1>7, LineInCode
  <2>2. /\ anchors.fence = "tick" /\ linkFence = "tick" /\ block.c = "tick" /\ block.n = 3
        /\ banFence # "none" /\ extracted = IF page.code = 0 THEN block ELSE NoBlock
    BY <1>7 DEF FenceInv, BanMode
  <2>3. anchors'.fence = "none"
    <3>1. anchors' = [anchors EXCEPT !.fence = "none"]
      BY <1>3, <1>7, <2>1, <2>2 DEF GetHeadings
    <3>2. anchors \in [fence : Words, heads : Seq(Id)]
      BY DEF HeadsInv
    <3> QED BY <3>1, <3>2
  <2>4. linkFence' = "none" /\ banFence' = "none"
    BY <1>3, <1>7, <2>1, <2>2 DEF LinkFence, BanFence
  <2>5. Closes(line, block)
    BY <1>7, <2>1, <2>2 DEF Closes
  <2>6. block' = NoBlock
    BY <1>3, <2>2, <2>5 DEF ExtractBlocks
  <2>7. extracted' = NoBlock
    <3>1. CASE page.code = 0
      BY <1>3, <2>1, <2>2, <2>5, <3>1 DEF ExtractFromMarkdown
    <3>2. CASE page.code # 0
      BY <1>3, <1>5, <2>1, <2>2, <3>2 DEF ExtractFromMarkdown
    <3> QED BY <3>1, <3>2
  <2>8. ~InCode' /\ page'.code # 0
    BY <2>1 DEF InCode
  <2> QED BY <1>5, <2>3, <2>4, <2>6, <2>7, <2>8 DEF FenceInv
<1>8. CASE ~InCode /\ line.k = "fence"
  <2>1. /\ line.c = "tick" /\ line.n = 3 /\ page'.code = line.ind /\ page'.fence = line
    BY <1>3, <1>8, PageMoves DEF HouseStyle
  <2>2. /\ anchors.fence = "none" /\ linkFence = "none" /\ block = NoBlock /\ banFence = "none"
        /\ extracted = NoBlock
    BY <1>8 DEF FenceInv
  <2>3. anchors'.fence = "tick"
    <3>1. anchors' = [anchors EXCEPT !.fence = "tick"]
      BY <1>3, <1>8, <2>1, <2>2 DEF GetHeadings
    <3>2. anchors \in [fence : Words, heads : Seq(Id)]
      BY DEF HeadsInv
    <3> QED BY <3>1, <3>2
  <2>4. /\ linkFence' = "tick"
        /\ banFence' = BanMode(line.w)
    BY <1>3, <1>8, <2>1, <2>2 DEF LinkFence, BanFence
  <2>5. block' = OpenBlock(line)
    BY <1>3, <1>5, <1>8, <2>2 DEF ExtractBlocks
  <2>6. extracted' = IF line.ind = 0 THEN block' ELSE NoBlock
    <3>1. CASE line.ind = 0
      BY <1>3, <1>5, <1>8, <2>1, <2>2, <2>5, <3>1 DEF ExtractFromMarkdown
    <3>2. CASE line.ind # 0
      BY <1>3, <1>5, <1>8, <2>2, <3>2 DEF ExtractFromMarkdown
    <3> QED BY <3>1, <3>2
  <2>7. /\ block' \in [c : Words, n : Nat, w : Words, manifest : BOOLEAN]
        /\ block'.c = "tick" /\ block'.n = 3 /\ block'.w = line.w
    BY <1>1, <2>1, <2>5 DEF OpenBlock
  <2>8. InCode' /\ page'.fence.w = line.w
    BY <1>1, <2>1 DEF InCode
  <2>9. extracted' = IF page'.code = 0 THEN block' ELSE NoBlock
    BY <2>1, <2>6
  <2> QED BY <2>3, <2>4, <2>7, <2>8, <2>9 DEF FenceInv
<1>9. CASE ~InCode /\ line.k # "fence"
  <2>1. page'.code = page.code
    BY <1>9, PageMoves
  <2>2. /\ anchors.fence = "none" /\ linkFence = "none" /\ block = NoBlock /\ banFence = "none"
        /\ extracted = NoBlock
    BY <1>9 DEF FenceInv
  <2>3. anchors'.fence = "none"
    <3>1. anchors' = anchors \/ anchors' = [anchors EXCEPT !.heads = AddHeading(@, line.w)]
      BY <1>3, <1>9 DEF GetHeadings
    <3>2. anchors \in [fence : Words, heads : Seq(Id)]
      BY DEF HeadsInv
    <3> QED BY <2>2, <3>1, <3>2
  <2>4. linkFence' = "none" /\ banFence' = "none" /\ block' = NoBlock /\ extracted' = NoBlock
    BY <1>3, <1>5, <1>9, <2>2 DEF LinkFence, BanFence, ExtractBlocks, ExtractFromMarkdown
  <2> QED BY <1>5, <1>9, <2>1, <2>3, <2>4 DEF FenceInv, InCode
<1> QED BY <1>6, <1>7, <1>8, <1>9

(* The bans skip the outermost legacy callout after every line.            *)
LEMMA SkipNext ==
  ASSUME NEW line \in Lines, PageInv, BoxesInv, SkipInv, Read(line)
  PROVE  SkipInv'
<1>1. /\ page.boxes \in Seq(Box) /\ Len(page.boxes) \in Nat
      /\ DOMAIN page.boxes = 1 .. Len(page.boxes)
  BY DEF PageInv
<1>2. skipping' = SkipRanges(skipping, line) /\ HouseStyle(line)
  BY DEF Read
<1>3. line \in AnyLine /\ (line.k \in {"open", "close"} => line.n >= 3) /\ line.n \in Nat
  BY LineTyped DEF AnyLine
<1>4. skipping \in Nat
  <2>1. \A i \in DOMAIN page.boxes : page.boxes[i].n \in Nat
    <3>1. \A i \in DOMAIN page.boxes : page.boxes[i] \in Box
      BY <1>1
    <3>2. \A box \in Box : box.n \in Nat
      BY DEF Box
    <3> QED BY <3>1, <3>2
  <2> QED BY <2>1 DEF SkipInv
<1>5. CASE line.k \notin {"open", "close"}
  <2>1. page'.boxes = page.boxes
    BY <1>5, PageMoves
  <2>2. skipping' = skipping
    BY <1>2, <1>5 DEF SkipRanges
  <2> QED BY <2>1, <2>2 DEF SkipInv
<1>6. ~InCode \/ line.k \notin {"open", "close"}
  BY LineInCode
<1>7. CASE ~InCode /\ line.k = "open"
  <2> DEFINE last == Len(page.boxes) + 1
  <2>1. page'.boxes = Append(page.boxes, [n |-> line.n, w |-> line.w])
    BY <1>7, PageMoves
  <2>2. /\ DOMAIN page'.boxes = 1 .. last
        /\ page'.boxes[last].n = line.n /\ page'.boxes[last].w = line.w
        /\ \A i \in DOMAIN page.boxes : page'.boxes[i] = page.boxes[i]
    BY <1>1, <2>1
  <2>3. CASE skipping = 0
    <3>1. \A i \in DOMAIN page.boxes : page.boxes[i].w # "legacy"
      <4>1. \A i \in DOMAIN page.boxes : page.boxes[i].n >= 3
        BY DEF BoxesInv
      <4> QED BY <2>3, <4>1 DEF SkipInv
    <3>2. CASE line.w = "legacy"
      <4>1. skipping' = line.n
        BY <1>2, <1>7, <2>3, <3>2 DEF SkipRanges
      <4>2. last \in DOMAIN page'.boxes /\ \A j \in 1 .. last - 1 : page'.boxes[j].w # "legacy"
        BY <1>1, <2>2, <3>1
      <4> QED BY <2>2, <3>2, <4>1, <4>2 DEF SkipInv
    <3>3. CASE line.w # "legacy"
      <4>1. skipping' = 0
        BY <1>2, <1>7, <2>3, <3>3 DEF SkipRanges
      <4>2. \A i \in DOMAIN page'.boxes : page'.boxes[i].w # "legacy"
        <5>1. \A i \in DOMAIN page'.boxes : i \in DOMAIN page.boxes \/ i = last
          BY <1>1, <2>2
        <5> QED BY <2>2, <3>1, <3>3, <5>1
      <4> QED BY <4>1, <4>2 DEF SkipInv
    <3> QED BY <3>2, <3>3
  <2>4. CASE skipping # 0
    <3>1. skipping' = skipping
      BY <1>2, <1>7, <2>4 DEF SkipRanges
    <3>2. PICK i \in DOMAIN page.boxes :
            /\ page.boxes[i].w = "legacy" /\ skipping = page.boxes[i].n
            /\ \A j \in 1 .. i - 1 : page.boxes[j].w # "legacy"
      BY <2>4 DEF SkipInv
    <3>3. \A j \in 1 .. i - 1 : j \in DOMAIN page.boxes
      BY <1>1, <3>2
    <3>4. i \in DOMAIN page'.boxes
      BY <1>1, <2>2, <3>2
    <3>5. /\ page'.boxes[i].w = "legacy" /\ skipping' = page'.boxes[i].n
          /\ \A j \in 1 .. i - 1 : page'.boxes[j].w # "legacy"
      BY <2>2, <3>1, <3>2, <3>3
    <3> QED BY <3>4, <3>5 DEF SkipInv
  <2> QED BY <2>3, <2>4
<1>8. CASE ~InCode /\ line.k = "close"
  <2> DEFINE last == Len(page.boxes)
  <2>1. last \in Nat \ {0} /\ page.boxes[last].n = line.n
    BY <1>2, <1>8, Closing
  <2>2. page'.boxes = CutAt(page.boxes, last - 1)
    BY <1>8, PageMoves
  <2>3. /\ DOMAIN page'.boxes = 1 .. last - 1
        /\ \A i \in 1 .. last - 1 : page'.boxes[i] = page.boxes[i]
    <3>1. last - 1 \in 0 .. Len(page.boxes)
      BY <2>1
    <3>2. /\ page'.boxes \in Seq(Box) /\ Len(page'.boxes) = last - 1
          /\ \A i \in 1 .. last - 1 : page'.boxes[i] = page.boxes[i]
      BY <1>1, <2>2, <3>1, CutHolds
    <3> QED BY <3>2
  <2>4. CASE skipping = 0
    <3>1. \A i \in DOMAIN page.boxes : page.boxes[i].w # "legacy"
      <4>1. \A i \in DOMAIN page.boxes : page.boxes[i].n >= 3
        BY DEF BoxesInv
      <4> QED BY <2>4, <4>1 DEF SkipInv
    <3>2. skipping' = 0
      BY <1>2, <1>8, <2>4 DEF SkipRanges
    <3>3. \A i \in DOMAIN page'.boxes : page'.boxes[i].w # "legacy"
      BY <1>1, <2>3, <3>1
    <3> QED BY <3>2, <3>3 DEF SkipInv
  <2>5. CASE skipping # 0
    <3>1. PICK i \in DOMAIN page.boxes :
            /\ page.boxes[i].w = "legacy" /\ skipping = page.boxes[i].n
            /\ \A j \in 1 .. i - 1 : page.boxes[j].w # "legacy"
      BY <2>5 DEF SkipInv
    <3>2. CASE i = last
      <4>1. skipping' = 0
        BY <1>2, <1>4, <1>8, <2>1, <2>5, <3>1, <3>2 DEF SkipRanges
      <4>2. \A j \in DOMAIN page'.boxes : page'.boxes[j].w # "legacy"
        BY <2>3, <3>1, <3>2
      <4> QED BY <4>1, <4>2 DEF SkipInv
    <3>3. CASE i # last
      <4>1. line.n # skipping
        <5>1. last \in DOMAIN page.boxes
          BY <1>1, <2>1
        <5> QED BY <2>1, <3>1, <3>3, <5>1 DEF BoxesInv
      <4>2. skipping' = skipping
        BY <1>2, <1>8, <2>5, <4>1 DEF SkipRanges
      <4>3. i \in DOMAIN page'.boxes /\ \A j \in 1 .. i - 1 : j \in 1 .. last - 1
        BY <1>1, <2>1, <2>3, <3>1, <3>3
      <4>4. /\ page'.boxes[i].w = "legacy" /\ skipping' = page'.boxes[i].n
            /\ \A j \in 1 .. i - 1 : page'.boxes[j].w # "legacy"
        BY <2>3, <3>1, <4>2, <4>3
      <4> QED BY <4>3, <4>4 DEF SkipInv
    <3> QED BY <3>2, <3>3
  <2> QED BY <2>4, <2>5
<1> QED BY <1>5, <1>6, <1>7, <1>8

(* The checker's headings are the renderer's after every line.             *)
LEMMA HeadsNext ==
  ASSUME NEW line \in Lines, PageInv, BoxesInv, StackInv, FenceInv, HeadsInv, Read(line)
  PROVE  HeadsInv'
<1>1. /\ anchors \in [fence : Words, heads : Seq(Id)] /\ anchors.heads = rendered.heads
      /\ \A i, j \in DOMAIN anchors.heads : anchors.heads[i] = anchors.heads[j] => i = j
  BY DEF HeadsInv
<1>2. line.w \in Words /\ line.c \in Words /\ "none" \in Words
  BY LineTyped DEF AnyLine, Words
<1>3. anchors' = GetHeadings(anchors, line) /\ HouseStyle(line)
  BY DEF Read
<1>4. CASE line.k = "head" /\ ~InCode
  <2> DEFINE more == AddHeading(anchors.heads, line.w)
  <2>1. /\ more \in Seq(Id)
        /\ \A i, j \in DOMAIN more : more[i] = more[j] => i = j
    BY <1>1, <1>2, AddHeadingHolds
  <2>2. anchors' = [anchors EXCEPT !.heads = more]
    BY <1>3, <1>4 DEF GetHeadings, FenceInv
  <2>3. rendered'.heads = more
    BY <1>1, <1>4, StackNext
  <2> HIDE DEF more
  <2>4. anchors'.heads = more /\ anchors' \in [fence : Words, heads : Seq(Id)]
    BY <1>1, <2>1, <2>2
  <2> QED BY <2>1, <2>3, <2>4 DEF HeadsInv
<1>5. CASE line.k # "head" \/ InCode
  <2>1. rendered'.heads = rendered.heads
    BY <1>5, StackNext
  <2>2. \/ anchors' = anchors \/ anchors' = [anchors EXCEPT !.fence = line.c]
        \/ anchors' = [anchors EXCEPT !.fence = "none"]
    BY <1>3, <1>5 DEF GetHeadings, FenceInv
  <2>3. anchors'.heads = anchors.heads /\ anchors' \in [fence : Words, heads : Seq(Id)]
    BY <1>1, <1>2, <2>2
  <2> QED BY <1>1, <2>1, <2>3 DEF HeadsInv
<1> QED BY <1>4, <1>5

-----------------------------------------------------------------------------
(* The theorems.                                                           *)

(* At the head of a page nothing is open.                                  *)
LEMMA InitHolds == ScanInit => ScanInv
<1> SUFFICES ASSUME ScanInit PROVE ScanInv
  OBVIOUS
<1>0. /\ page.code = -1 /\ page.boxes = <<>> /\ page.item = 0 /\ page.html = FALSE
      /\ page.fresh = FALSE /\ page.blank = TRUE
      /\ page.fence = [k |-> "blank", c |-> "none", n |-> 0, ind |-> 0, w |-> "none"]
  BY DEF ScanInit
<1>1. page = [code |-> page.code, fence |-> page.fence, boxes |-> page.boxes,
              item |-> page.item, html |-> page.html, fresh |-> page.fresh,
              blank |-> page.blank]
  BY DEF ScanInit
<1>2. page.fence \in AnyLine
  BY <1>0 DEF AnyLine, Words, LineKinds
<1>3. PageInv
  <2>1. /\ page.code \in Nat \cup {-1} /\ page.boxes \in Seq(Box) /\ page.item \in Nat
        /\ page.html \in BOOLEAN /\ page.fresh \in BOOLEAN /\ page.blank \in BOOLEAN
    <3>1. page.boxes \in Seq(Box)
      BY <1>0
    <3>2. page.code \in Nat \cup {-1} /\ page.item \in Nat
      BY <1>0
    <3>3. page.html \in BOOLEAN /\ page.fresh \in BOOLEAN /\ page.blank \in BOOLEAN
      BY <1>0
    <3> QED BY <3>1, <3>2, <3>3
  <2>2. page \in [code : Nat \cup {-1}, fence : AnyLine, boxes : Seq(Box), item : Nat,
                  html : BOOLEAN, fresh : BOOLEAN, blank : BOOLEAN]
    BY <1>1, <1>2, <2>1
  <2>3. ~InCode /\ ~page.fresh /\ ~(page.code > 0) /\ page.code # 0
    BY <1>0 DEF InCode
  <2> QED BY <2>2, <2>3 DEF PageInv
<1>4. BoxesInv
  BY <1>0 DEF BoxesInv
<1>5. /\ rendered.stack = <<>> /\ rendered.leaf = NoLeaf /\ rendered.heads = <<>>
      /\ rendered = [stack |-> <<>>, leaf |-> NoLeaf, heads |-> <<>>]
  BY DEF ScanInit
<1>6. NoLeaf \in AnyLeaf /\ NoLeaf.k = "none"
  BY DEF NoLeaf, AnyLeaf, Words
<1>7. Matches(page, rendered.stack, page.item)
  BY <1>0, <1>5 DEF Matches
<1>8. rendered \in Rendering
  BY <1>5, <1>6 DEF Rendering
<1>9. StackInv
  BY <1>0, <1>5, <1>6, <1>7, <1>8 DEF StackInv, InCode
<1>10. NoBlock \in [c : Words, n : Nat, w : Words, manifest : BOOLEAN]
  BY DEF NoBlock, Words
<1>11. /\ anchors = [fence |-> "none", heads |-> <<>>]
       /\ anchors.fence = "none" /\ anchors.heads = <<>>
  BY DEF ScanInit
<1>12. FenceInv
  <2>1. ~InCode /\ page.code # 0
    BY <1>0 DEF InCode
  <2>2. linkFence = "none" /\ block = NoBlock /\ banFence = "none" /\ extracted = NoBlock
    BY DEF ScanInit
  <2> QED BY <1>10, <1>11, <2>1, <2>2 DEF FenceInv
<1>13. SkipInv
  BY <1>0 DEF ScanInit, SkipInv
<1>14. HeadsInv
  BY <1>5, <1>11 DEF HeadsInv, Words
<1> QED BY <1>3, <1>4, <1>9, <1>12, <1>13, <1>14 DEF ScanInv

(* ScanInv holds after every line an author may write.                     *)
THEOREM ScanInvHolds == ScanSpec => []ScanInv
<1>1. ScanInv /\ [ScanNext]_scanVars => ScanInv'
  <2> SUFFICES ASSUME ScanInv, [ScanNext]_scanVars PROVE ScanInv'
    OBVIOUS
  <2>1. ASSUME NEW line \in Lines, Read(line) PROVE ScanInv'
    BY <2>1, AuthorNext, BoxesNext, StackNext, FenceNext, SkipNext, HeadsNext DEF ScanInv
  <2>2. CASE UNCHANGED scanVars
    <3>1. PageInv' /\ BoxesInv'
      BY <2>2 DEF scanVars, ScanInv, PageInv, BoxesInv, InCode
    <3>2. StackInv'
      <4>1. Matches(page', rendered'.stack, page'.item) = Matches(page, rendered.stack, page.item)
        BY <2>2 DEF scanVars
      <4> QED BY <2>2, <4>1 DEF scanVars, ScanInv, StackInv, InCode
    <3>3. FenceInv'
      BY <2>2 DEF scanVars, ScanInv, FenceInv, InCode
    <3>4. SkipInv' /\ HeadsInv'
      BY <2>2 DEF scanVars, ScanInv, SkipInv, HeadsInv
    <3> QED BY <3>1, <3>2, <3>3, <3>4 DEF ScanInv
  <2> QED BY <2>1, <2>2 DEF ScanNext
<1> QED BY <1>1, InitHolds, PTL DEF ScanSpec

(* The skipped callout has a number of colons.                             *)
LEMMA SkipTyped == ScanInv => skipping \in Nat
<1>1. \A box \in Box : box.n \in Nat
  BY DEF Box
<1>2. ScanInv => \A i \in DOMAIN page.boxes : page.boxes[i] \in Box
  BY DEF ScanInv, PageInv
<1> QED BY <1>1, <1>2 DEF ScanInv, SkipInv

(* The scanners' state has its types, and no box of the renderer is left   *)
(* open with its count at zero.                                            *)
THEOREM ScanTypeCorrect == ScanSpec => []ScanTypeOK
<1>1. ScanInv => ScanTypeOK
  <2> SUFFICES ASSUME ScanInv PROVE ScanTypeOK
    OBVIOUS
  <2>1. page.code \in Nat \cup {-1} /\ page.item \in Nat
    BY DEF ScanInv, PageInv
  <2>2. rendered.leaf.k \in {"none", "text", "fence", "html", "quote", "row"}
    <3>1. rendered.leaf \in AnyLeaf
      BY DEF ScanInv, StackInv, Rendering
    <3> QED BY <3>1 DEF AnyLeaf
  <2>3. \A i \in DOMAIN rendered.stack : rendered.stack[i].depth > 0
    <3>1. \A i \in DOMAIN rendered.stack : rendered.stack[i].depth = 1
      BY OpenFrames DEF ScanInv
    <3> QED BY <3>1
  <2>4. {anchors.fence, linkFence, block.c, extracted.c} \subseteq {"none", "tick", "tilde"}
    BY DEF ScanInv, FenceInv, NoBlock
  <2>5. banFence \in {"none", "scan", "titled", "skip"}
    BY DEF ScanInv, FenceInv, BanMode
  <2>6. skipping \in Nat
    BY SkipTyped
  <2> QED BY <2>1, <2>2, <2>3, <2>4, <2>5, <2>6 DEF ScanTypeOK
<1> QED BY <1>1, ScanInvHolds, PTL

(* ScannersAgree for every set of lines: on a page in house style the      *)
(* renderer, the checker and the harness see code where the author wrote   *)
(* it, and the renderer has the author's containers open.                  *)
THEOREM ScannersAgreeHolds == ScanSpec => []ScannersAgree
<1>1. ScanInv => ScannersAgree
  <2> SUFFICES ASSUME ScanInv PROVE ScannersAgree
    OBVIOUS
  <2>1. /\ (rendered.leaf.k = "fence") = InCode /\ (anchors.fence # "none") = InCode
        /\ (linkFence # "none") = InCode /\ (block.c # "none") = InCode
        /\ (banFence # "none") = InCode
    <3>1. InCode \in BOOLEAN
      BY DEF InCode
    <3>2. (rendered.leaf.k = "fence") = InCode
      BY <3>1 DEF ScanInv, StackInv
    <3>3. (anchors.fence # "none") = InCode /\ (linkFence # "none") = InCode
      BY <3>1 DEF ScanInv, FenceInv
    <3>4. (block.c # "none") = InCode
      BY <3>1 DEF ScanInv, FenceInv, NoBlock
    <3>5. (banFence # "none") = InCode
      BY <3>1 DEF ScanInv, FenceInv, BanMode
    <3> QED BY <3>2, <3>3, <3>4, <3>5
  <2>2. extracted = IF page.code = 0 THEN block ELSE NoBlock
    BY DEF ScanInv, FenceInv
  <2>3. Len(rendered.stack) = Len(page.boxes) + IF page.item > 0 THEN 1 ELSE 0
    <3>1. /\ page.boxes \in Seq(Box) /\ page.item \in Nat
          /\ Matches(page, rendered.stack, page.item)
      BY DEF ScanInv, PageInv, StackInv
    <3>2. /\ page.item = 0 => Len(rendered.stack) = Len(page.boxes)
          /\ page.item > 0 => Len(rendered.stack) = Len(page.boxes) + 1
          /\ Len(page.boxes) \in Nat
      BY <3>1, StackLength
    <3>3. CASE page.item = 0
      BY <3>2, <3>3
    <3>4. CASE page.item > 0
      BY <3>2, <3>4
    <3>5. page.item = 0 \/ page.item > 0
      BY <3>1
    <3> QED BY <3>3, <3>4, <3>5
  <2> QED BY <2>1, <2>2, <2>3 DEF ScannersAgree
<1> QED BY <1>1, ScanInvHolds, PTL

(* AnchorsAgree for every set of lines: the headings the checker resolves  *)
(* links against are the ones the renderer gives an id, and every id is    *)
(* given once, a heading that looks like a numbered slug included.         *)
THEOREM AnchorsAgreeHolds == ScanSpec => []AnchorsAgree
<1>1. ScanInv => AnchorsAgree
  BY DEF ScanInv, HeadsInv, AnchorsAgree
<1> QED BY <1>1, ScanInvHolds, PTL

(* ChecksReach for every set of lines: which bans hold where, and which    *)
(* manifests at the margin can escape both the report and the API server.  *)
THEOREM ChecksReachHolds == ScanSpec => []ChecksReach
<1> DEFINE callout == \E i \in DOMAIN page.boxes : page.boxes[i].w = "legacy"
<1>1. ASSUME ScanInv PROVE (skipping > 0) = callout
  <2>1. \A i \in DOMAIN page.boxes : page.boxes[i].n >= 3 /\ page.boxes[i].n \in Nat
    <3>1. \A box \in Box : box.n \in Nat
      BY DEF Box
    <3>2. \A i \in DOMAIN page.boxes : page.boxes[i] \in Box
      BY <1>1 DEF ScanInv, PageInv
    <3> QED BY <1>1, <3>1, <3>2 DEF ScanInv, BoxesInv
  <2>2. CASE skipping = 0 /\ \A i \in DOMAIN page.boxes : page.boxes[i].w # "legacy"
    <3>1. ~callout /\ ~(skipping > 0)
      BY <2>2
    <3>2. callout \in BOOLEAN /\ (skipping > 0) \in BOOLEAN
      OBVIOUS
    <3> HIDE DEF callout
    <3> QED BY <3>1, <3>2
  <2>3. CASE \E i \in DOMAIN page.boxes : page.boxes[i].w = "legacy" /\ skipping = page.boxes[i].n
    <3>1. callout /\ skipping > 0
      BY <2>1, <2>3
    <3>2. callout \in BOOLEAN /\ (skipping > 0) \in BOOLEAN
      OBVIOUS
    <3> HIDE DEF callout
    <3> QED BY <3>1, <3>2
  <2> QED BY <1>1, <2>2, <2>3 DEF ScanInv, SkipInv
<1>2. ASSUME ScanInv, NEW pageSkip \in BOOLEAN, NEW ban \in Bans
      PROVE  validateBans(pageSkip, ban) <=>
               /\ ~pageSkip /\ ~callout
               /\ ~InCode => ban # "latest"
               /\ InCode  => /\ page.fence.w \notin Flagged
                             /\ \/ ban = "removed"
                                \/ /\ ban = "latest"
                                   /\ page.fence.w \notin {"yaml", "yml", "other", "none"}
  <2>1. (skipping = 0) <=> ~callout
    <3>1. skipping \in Nat
      BY <1>2, SkipTyped
    <3>2. (skipping > 0) = callout /\ callout \in BOOLEAN
      BY <1>1, <1>2
    <3> HIDE DEF callout
    <3> QED BY <3>1, <3>2
  <2>2. CASE ~InCode
    <3>1. banFence = "none"
      BY <1>2, <2>2 DEF ScanInv, FenceInv
    <3> HIDE DEF callout
    <3> QED BY <2>1, <2>2, <3>1 DEF validateBans, Bans
  <2>3. CASE InCode
    <3>1. banFence = BanMode(page.fence.w) /\ page.fence.w \in Infos
      BY <1>2, <2>3 DEF ScanInv, PageInv, FenceInv
    <3> HIDE DEF callout
    <3> QED BY <2>1, <2>3, <3>1 DEF validateBans, Bans, BanMode, Infos, Flagged, Yaml
  <2> QED BY <2>2, <2>3
<1>3. ASSUME ScanInv, page.code = 0, block.manifest, page.fence.w \in Yaml \ {"named"}
      PROVE  validateCodeBlocks(block) \/ Taken(extracted)
  <2>1. InCode
    BY <1>3 DEF InCode
  <2>2. extracted = block /\ block.w = page.fence.w
    BY <1>3, <2>1 DEF ScanInv, FenceInv
  <2>3. block.w \in {"yaml", "titled", "yml", "include", "part"}
    BY <1>3, <2>2 DEF Yaml
  <2> QED BY <1>3, <2>2, <2>3 DEF Taken
<1>4. ScanInv => ChecksReach
  BY <1>2, <1>3 DEF ChecksReach
<1> QED BY <1>4, ScanInvHolds, PTL
=============================================================================
