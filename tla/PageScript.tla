----------------------------- MODULE PageScript -----------------------------
(***************************************************************************)
(* The script that every page of the handbook runs in the browser          *)
(* (docs/assets/app.js, written by build.mjs from template.mjs): the       *)
(* section menus, the drawer and the search box.                           *)
(*                                                                         *)
(* The reader's clicks and keys interleave with what the browser runs      *)
(* later: toggle events, hover timers and the replies to fetch.  Of the    *)
(* search index only the number of results of a query is kept.             *)
(***************************************************************************)
EXTENDS Integers

CONSTANTS
  Menus,        (* the section dropdowns                                    *)
  Nowhere,      (* no menu: where the pointer is, or the one to keep open   *)
  FinePointer,  (* whether the device hovers                                *)
  Queries,      (* what a reader types that has words in it                 *)
  Empty,        (* the empty input                                          *)
  Spaces,       (* an input of white space only                             *)
  Hits,         (* the pages the whole index finds for a query, 12 at most  *)
  MaxFetches    (* bound: fetches of the index under way at once            *)

Values == Queries \cup {Empty, Spaces}
Callbacks == {"input", "focus"}

ASSUME PageAssumption ==
  /\ Nowhere \notin Menus /\ FinePointer \in BOOLEAN
  /\ Empty \notin Queries /\ Spaces \notin Queries
  /\ Hits \in [Queries -> 0 .. 12] /\ MaxFetches \in Nat

VARIABLES
  open, expanded,  (* menus with the open attribute, and with aria-expanded *)
  toggles,         (* menus whose toggle event the browser has queued       *)
  timers,          (* menus that a hover timer will close                   *)
  pointer,         (* the menu under the pointer                            *)
  drawer,          (* whether the drawer is shown                           *)
  value,           (* the text in the search input                          *)
  index,           (* "none" until fetched, then "pages" or "nothing"       *)
  fetches,         (* fetches under way, by the callback that waits         *)
  shown,           (* whether the result list is visible                    *)
  list,            (* what it was rendered from: query, index, results      *)
  selected         (* the highlighted result, -1 for none                   *)

menuVars == <<open, expanded, toggles, timers, pointer>>
resultVars == <<shown, list, selected>>
pageVars == <<menuVars, drawer, value, index, fetches, resultVars>>

NoList == [q |-> Empty, from |-> "none", n |-> 0]

PageInit ==
  /\ open = {} /\ expanded = {} /\ toggles = {} /\ timers = {}
  /\ pointer = Nowhere /\ drawer = FALSE
  /\ value = Empty /\ index = "none" /\ fetches = [c \in Callbacks |-> 0]
  /\ shown = FALSE /\ list = NoList /\ selected = -1

-----------------------------------------------------------------------------
(* Menus.  A change of the open attribute queues a toggle event; a second  *)
(* change before it is delivered queues no other one.                      *)

closeMenus(except) ==
  /\ open' = open \cap {except}
  /\ expanded' = expanded \cap {except}
  /\ toggles' = toggles \cup (open \ {except})

HideSearch == shown' = FALSE /\ selected' = -1 /\ UNCHANGED list

(* A click on a summary, or Enter on it.  For the document it is outside   *)
(* the search box.                                                         *)
ClickSummary(m) ==
  /\ open' = IF m \in open THEN open \ {m} ELSE open \cup {m}
  /\ toggles' = toggles \cup {m}
  /\ HideSearch
  /\ UNCHANGED <<expanded, timers, pointer, drawer, value, index, fetches>>

(* Mutant: the handler leaves the other menus alone.                       *)
ToggleAlone(m) ==
  /\ m \in toggles /\ toggles' = toggles \ {m}
  /\ expanded' = IF m \in open THEN expanded \cup {m} ELSE expanded \ {m}
  /\ UNCHANGED <<open, timers, pointer, drawer, value, index, fetches, resultVars>>

Toggle(m) ==
  /\ m \in toggles
  /\ IF m \in open
     THEN /\ expanded' = {m} /\ open' = {m}
          /\ toggles' = (toggles \cup open) \ {m}
     ELSE /\ expanded' = expanded \ {m} /\ toggles' = toggles \ {m}
          /\ UNCHANGED open
  /\ UNCHANGED <<timers, pointer, drawer, value, index, fetches, resultVars>>

(* Mutant: a timer of an earlier visit is not cleared.                     *)
MouseEnterNoClear(m) ==
  /\ FinePointer /\ pointer = Nowhere /\ pointer' = m
  /\ open' = {m} /\ expanded' = expanded \cap {m}
  /\ toggles' = toggles \cup (open \ {m}) \cup ({m} \ open)
  /\ UNCHANGED <<timers, drawer, value, index, fetches, resultVars>>

MouseEnter(m) ==
  /\ FinePointer /\ pointer = Nowhere /\ pointer' = m
  /\ timers' = timers \ {m}
  /\ open' = {m} /\ expanded' = expanded \cap {m}
  /\ toggles' = toggles \cup (open \ {m}) \cup ({m} \ open)
  /\ UNCHANGED <<drawer, value, index, fetches, resultVars>>

MouseLeave(m) ==
  /\ pointer = m /\ pointer' = Nowhere
  /\ timers' = timers \cup {m}
  /\ UNCHANGED <<open, expanded, toggles, drawer, value, index, fetches, resultVars>>

Timer(m) ==
  /\ m \in timers /\ timers' = timers \ {m}
  /\ open' = open \ {m}
  /\ toggles' = toggles \cup (open \cap {m})
  /\ UNCHANGED <<expanded, pointer, drawer, value, index, fetches, resultVars>>

-----------------------------------------------------------------------------
(* Clicks and Escape reach the document's listeners.                       *)

Click(target) ==
  /\ drawer' = CASE target = "hamburger" -> ~drawer
                 [] target = "scrim"     -> FALSE
                 [] OTHER                -> drawer
  /\ target = "scrim" => drawer
  /\ IF target = "menu" THEN UNCHANGED <<open, expanded, toggles>>
                        ELSE closeMenus(Nowhere)
  /\ IF target = "search" THEN UNCHANGED resultVars ELSE HideSearch
  /\ UNCHANGED <<timers, pointer, value, index, fetches>>

Escape ==
  /\ closeMenus(Nowhere) /\ HideSearch /\ drawer' = FALSE
  /\ UNCHANGED <<timers, pointer, value, index, fetches>>

-----------------------------------------------------------------------------
(* Search                                                                  *)

Found(from, q) == IF from = "pages" THEN Hits[q] ELSE 0

Render(q, from) ==
  /\ list' = [q |-> q, from |-> from, n |-> Found(from, q)]
  /\ selected' = -1 /\ shown' = TRUE

Run(q, from) == IF q \in Queries THEN Render(q, from) ELSE HideSearch

(* Mutant: a query that is no longer in the input is not taken back.       *)
CallbackKeeps(c, v, from) ==
  IF v = Empty THEN UNCHANGED resultVars ELSE Run(v, from)

(* What loadIndex was given to call, run on the input of that moment.      *)
Callback(c, v, from) ==
  IF c = "focus" /\ v = Empty THEN UNCHANGED resultVars ELSE Run(v, from)

(* Every event before the first reply fetches the index.                   *)
LoadIndex(c, v) ==
  IF index # "none"
  THEN Callback(c, v, index) /\ UNCHANGED fetches
  ELSE /\ fetches["input"] + fetches["focus"] < MaxFetches
       /\ fetches' = [fetches EXCEPT ![c] = @ + 1]
       /\ UNCHANGED resultVars

Type(v) ==
  /\ v # value /\ value' = v
  /\ LoadIndex("input", v)
  /\ UNCHANGED <<menuVars, drawer, index>>

Focus ==
  /\ LoadIndex("focus", value)
  /\ UNCHANGED <<menuVars, drawer, value, index>>

(* Mutant: a fetch that fails calls nothing back.                          *)
FetchedOrLost(c, ok) ==
  /\ fetches[c] > 0 /\ fetches' = [fetches EXCEPT ![c] = @ - 1]
  /\ index' = IF ok THEN "pages" ELSE index
  /\ IF ok THEN Callback(c, value, index') ELSE UNCHANGED resultVars
  /\ UNCHANGED <<menuVars, drawer, value>>

(* A reply, or none at all: the last one to arrive is the index from then  *)
(* on, and a failure counts as an index without pages.                     *)
Fetched(c, ok) ==
  /\ fetches[c] > 0 /\ fetches' = [fetches EXCEPT ![c] = @ - 1]
  /\ index' = IF ok THEN "pages" ELSE "nothing"
  /\ Callback(c, value, index')
  /\ UNCHANGED <<menuVars, drawer, value>>

ArrowDown ==
  /\ selected' = IF selected + 1 < list.n THEN selected + 1 ELSE list.n - 1
  /\ UNCHANGED <<menuVars, drawer, value, index, fetches, shown, list>>

ArrowUp ==
  /\ selected' = IF selected > 0 THEN selected - 1 ELSE 0
  /\ UNCHANGED <<menuVars, drawer, value, index, fetches, shown, list>>

(* Enter follows the highlighted result or else the first, of the list as  *)
(* it was last rendered, visible or not: another page loads.               *)
Enter ==
  /\ list.n > 0
  /\ open' = {} /\ expanded' = {} /\ toggles' = {} /\ timers' = {}
  /\ pointer' = Nowhere /\ drawer' = FALSE
  /\ value' = Empty /\ index' = "none" /\ fetches' = [c \in Callbacks |-> 0]
  /\ shown' = FALSE /\ list' = NoList /\ selected' = -1

-----------------------------------------------------------------------------
Browser ==
  \/ \E m \in Menus : Toggle(m) \/ Timer(m)
  \/ \E c \in Callbacks, ok \in BOOLEAN : Fetched(c, ok)

Reader ==
  \/ \E m \in Menus : ClickSummary(m) \/ MouseEnter(m) \/ MouseLeave(m)
  \/ \E target \in {"menu", "search", "hamburger", "scrim", "page"} : Click(target)
  \/ Escape \/ Focus \/ ArrowDown \/ ArrowUp \/ Enter
  \/ \E v \in Values : Type(v)

PageNext == Browser \/ Reader

PageSpec == PageInit /\ [][PageNext]_pageVars

(* The browser delivers its events, and every fetch ends, with a reply or  *)
(* with an error: nothing is assumed of the reader.                        *)
PageFairness ==
  /\ WF_pageVars(\E c \in Callbacks, ok \in BOOLEAN : Fetched(c, ok))

-----------------------------------------------------------------------------
(* Properties                                                              *)

PageTypeOK ==
  /\ open \subseteq Menus /\ expanded \subseteq Menus
  /\ toggles \subseteq Menus /\ timers \subseteq Menus
  /\ pointer \in Menus \cup {Nowhere} /\ drawer \in BOOLEAN
  /\ value \in Values /\ index \in {"none", "pages", "nothing"}
  /\ fetches \in [Callbacks -> Nat]
  /\ shown \in BOOLEAN /\ selected \in -1 .. 11
  /\ list \in [q : Values, from : {"none", "pages", "nothing"}, n : 0 .. 12]

(* template.mjs:534 says "one open at a time".  Clicks, hovering and        *)
(* keyboard can each open a menu while another one's toggle event is still  *)
(* queued: once the events are delivered at most one is open, and           *)
(* aria-expanded tells which.                                               *)
OneMenuOpen ==
  toggles = {} => /\ \A m1, m2 \in open : m1 = m2
                  /\ expanded = open

(* The timer that mouseleave starts never closes a menu that the pointer    *)
(* has come back to.                                                        *)
HoverKeepsOpen == pointer \notin timers

(* Results that are visible are those of the text in the box, from the      *)
(* index that is in use, in whatever order keys, Escape and the replies to  *)
(* several fetches arrive.                                                  *)
ResultsFresh == shown => list.q = value /\ list.from = index

(* A query that waits for the index is answered, by results or by "No       *)
(* results", even if the fetch fails and if Escape came in between.         *)
QueryIsAnswered ==
  (value \in Queries /\ fetches["input"] > 0) ~> (shown \/ value \notin Queries)
=============================================================================
