-------------------------- MODULE PageScriptProofs --------------------------
(***************************************************************************)
(* What PageScript promises for every number of menus, every set of        *)
(* queries and any number of fetches under way.                            *)
(***************************************************************************)
EXTENDS PageScript, TLAPS

(* A query finds as many results as the search shows at most.              *)
LEMMA FoundTyped ==
  ASSUME NEW from, NEW q \in Queries
  PROVE  Found(from, q) \in 0 .. 12
BY PageAssumption DEF Found

(* Hiding the list keeps the types.                                        *)
LEMMA HideTyped ==
  HideSearch => shown' \in BOOLEAN /\ selected' \in -1 .. 11 /\ list' = list
<1>1. HideSearch => shown' \in BOOLEAN
  BY DEF HideSearch
<1>2. HideSearch => selected' \in -1 .. 11
  BY DEF HideSearch
<1>3. HideSearch => list' = list
  BY DEF HideSearch
<1> QED BY <1>1, <1>2, <1>3

(* The search box runs a query or hides its list, of the right types.      *)
LEMMA CallbackTyped ==
  ASSUME PageTypeOK, NEW c, NEW v \in Values,
         NEW from \in {"none", "pages", "nothing"}, Callback(c, v, from)
  PROVE  /\ shown' \in BOOLEAN /\ selected' \in -1 .. 11
         /\ list' \in [q : Values, from : {"none", "pages", "nothing"}, n : 0 .. 12]
<1>1. CASE UNCHANGED resultVars
  BY <1>1 DEF resultVars, PageTypeOK
<1>2. CASE v \in Queries /\ Render(v, from)
  BY <1>2, FoundTyped DEF Render, Values
<1>3. CASE HideSearch
  BY <1>3, HideTyped DEF PageTypeOK
<1> QED BY <1>1, <1>2, <1>3 DEF Callback, Run

(* Typing or focusing fetches the index or goes on with it.                *)
LEMMA LoadIndexTyped ==
  ASSUME PageTypeOK, NEW c \in Callbacks, NEW v \in Values, LoadIndex(c, v)
  PROVE  /\ shown' \in BOOLEAN /\ selected' \in -1 .. 11
         /\ list' \in [q : Values, from : {"none", "pages", "nothing"}, n : 0 .. 12]
         /\ fetches' \in [Callbacks -> Nat]
<1>1. CASE index # "none"
  <2>1. index \in {"none", "pages", "nothing"} /\ Callback(c, v, index) /\ UNCHANGED fetches
    BY <1>1 DEF LoadIndex, PageTypeOK
  <2> QED BY <2>1, CallbackTyped DEF PageTypeOK
<1>2. CASE index = "none"
  BY <1>2 DEF LoadIndex, PageTypeOK, resultVars
<1> QED BY <1>1, <1>2

-----------------------------------------------------------------------------
(* The page is loaded with its types right.                                *)
LEMMA TypeOKInit == PageInit => PageTypeOK
<1> SUFFICES ASSUME PageInit PROVE PageTypeOK OBVIOUS
<1>1. fetches \in [Callbacks -> Nat]
  BY DEF PageInit
<1>2. list \in [q : Values, from : {"none", "pages", "nothing"}, n : 0 .. 12]
  BY DEF PageInit, NoList, Values
<1>3. selected \in -1 .. 11
  BY DEF PageInit
<1>4. shown \in BOOLEAN /\ drawer \in BOOLEAN
  BY DEF PageInit
<1> QED BY <1>1, <1>2, <1>3, <1>4 DEF PageInit, PageTypeOK, Values

(* Every handler, timer, event and reply keeps the types.                  *)
LEMMA TypeOKNext == PageTypeOK /\ [PageNext]_pageVars => PageTypeOK'
<1> SUFFICES ASSUME PageTypeOK, [PageNext]_pageVars PROVE PageTypeOK' OBVIOUS
<1>1. ASSUME NEW m \in Menus, Toggle(m) PROVE PageTypeOK'
  BY <1>1 DEF Toggle, PageTypeOK, resultVars
<1>2. ASSUME NEW m \in Menus, Timer(m) PROVE PageTypeOK'
  BY <1>2 DEF Timer, PageTypeOK, resultVars
<1>3. ASSUME NEW c \in Callbacks, NEW ok \in BOOLEAN, Fetched(c, ok) PROVE PageTypeOK'
  <2>1. index' \in {"none", "pages", "nothing"} /\ value \in Values
    BY <1>3 DEF Fetched, PageTypeOK
  <2>2. fetches' \in [Callbacks -> Nat]
    BY <1>3 DEF Fetched, PageTypeOK
  <2>3. Callback(c, value, index')
    BY <1>3 DEF Fetched
  <2> QED BY <1>3, <2>1, <2>2, <2>3, CallbackTyped DEF Fetched, PageTypeOK, menuVars
<1>4. ASSUME NEW m \in Menus, ClickSummary(m) PROVE PageTypeOK'
  <2>1. HideSearch
    BY <1>4 DEF ClickSummary
  <2> QED BY <1>4, <2>1, HideTyped DEF ClickSummary, PageTypeOK
<1>5. ASSUME NEW m \in Menus, MouseEnter(m) PROVE PageTypeOK'
  BY <1>5 DEF MouseEnter, PageTypeOK, resultVars
<1>6. ASSUME NEW m \in Menus, MouseLeave(m) PROVE PageTypeOK'
  BY <1>6 DEF MouseLeave, PageTypeOK, resultVars
<1>7. ASSUME NEW target, Click(target) PROVE PageTypeOK'
  <2>1. HideSearch \/ UNCHANGED resultVars
    BY <1>7 DEF Click
  <2>2. shown' \in BOOLEAN /\ selected' \in -1 .. 11 /\ (list' = list \/ UNCHANGED resultVars)
    BY <2>1, HideTyped DEF PageTypeOK, resultVars
  <2>3. drawer' \in BOOLEAN
    BY <1>7 DEF Click, PageTypeOK
  <2> QED BY <1>7, <2>2, <2>3 DEF Click, closeMenus, PageTypeOK, resultVars
<1>8. CASE Escape
  <2>1. HideSearch /\ drawer' \in BOOLEAN
    BY <1>8 DEF Escape
  <2> QED BY <1>8, <2>1, HideTyped DEF Escape, closeMenus, PageTypeOK
<1>9. CASE Focus
  <2>1. LoadIndex("focus", value) /\ "focus" \in Callbacks /\ value \in Values
    BY <1>9 DEF Focus, Callbacks, PageTypeOK
  <2> QED BY <1>9, <2>1, LoadIndexTyped DEF Focus, PageTypeOK, menuVars
<1>10. ASSUME NEW v \in Values, Type(v) PROVE PageTypeOK'
  <2>1. LoadIndex("input", v) /\ "input" \in Callbacks
    BY <1>10 DEF Type, Callbacks
  <2> QED BY <1>10, <2>1, LoadIndexTyped DEF Type, PageTypeOK, menuVars
<1>11. CASE ArrowDown
  BY <1>11 DEF ArrowDown, PageTypeOK, menuVars
<1>12. CASE ArrowUp
  BY <1>12 DEF ArrowUp, PageTypeOK, menuVars
<1>13. CASE Enter
  <2>1. fetches' \in [Callbacks -> Nat]
    BY <1>13 DEF Enter
  <2>2. list' \in [q : Values, from : {"none", "pages", "nothing"}, n : 0 .. 12]
    BY <1>13 DEF Enter, NoList, Values
  <2>3. selected' \in -1 .. 11
    BY <1>13 DEF Enter
  <2>4. shown' \in BOOLEAN /\ drawer' \in BOOLEAN
    BY <1>13 DEF Enter
  <2> QED BY <1>13, <2>1, <2>2, <2>3, <2>4 DEF Enter, PageTypeOK, Values
<1>14. CASE UNCHANGED pageVars
  BY <1>14 DEF pageVars, menuVars, resultVars, PageTypeOK
<1> QED BY <1>1, <1>2, <1>3, <1>4, <1>5, <1>6, <1>7, <1>8, <1>9, <1>10, <1>11,
           <1>12, <1>13, <1>14 DEF PageNext, Browser, Reader

(* The script's variables keep their types: the highlighted result is one  *)
(* of the twelve that a list has room for, or none.                        *)
THEOREM PageTypeCorrect == PageSpec => []PageTypeOK
BY TypeOKInit, TypeOKNext, PTL DEF PageSpec

-----------------------------------------------------------------------------
(* The menus.  A menu with no event on its way has its aria-expanded, and  *)
(* of those that are open only one has none on its way: what opens a menu  *)
(* either closes the others or leaves an event that will.                  *)
Settled ==
  /\ \A x, y \in open \ toggles : x = y
  /\ \A m \in Menus \ toggles : m \in expanded <=> m \in open

(* Every step keeps what is settled about the menus.                       *)
LEMMA SettledNext == PageTypeOK /\ Settled /\ [PageNext]_pageVars => Settled'
<1> SUFFICES ASSUME PageTypeOK, Settled, [PageNext]_pageVars PROVE Settled' OBVIOUS
<1>1. ASSUME NEW m \in Menus, Toggle(m) PROVE Settled'
  <2>1. CASE m \in open
    BY <1>1, <2>1 DEF Toggle, Settled
  <2>2. CASE m \notin open
    BY <1>1, <2>2 DEF Toggle, Settled
  <2> QED BY <2>1, <2>2
<1>2. ASSUME NEW m \in Menus, Timer(m) PROVE Settled'
  BY <1>2 DEF Timer, Settled
<1>3. ASSUME NEW m \in Menus, ClickSummary(m) PROVE Settled'
  BY <1>3 DEF ClickSummary, Settled
<1>4. ASSUME NEW m \in Menus, MouseEnter(m) PROVE Settled'
  BY <1>4 DEF MouseEnter, Settled
<1>5. ASSUME closeMenus(Nowhere) PROVE Settled'
  BY <1>5, PageAssumption DEF closeMenus, Settled, PageTypeOK
<1>6. CASE UNCHANGED <<open, expanded, toggles>>
  BY <1>6 DEF Settled
<1>7. ASSUME NEW target, Click(target) PROVE Settled'
  BY <1>5, <1>6, <1>7 DEF Click
<1>8. CASE Escape
  BY <1>5, <1>8 DEF Escape
<1>9. CASE Enter
  BY <1>9 DEF Enter, Settled
<1>10. ASSUME \/ \E c \in Callbacks, ok \in BOOLEAN : Fetched(c, ok)
              \/ \E m \in Menus : MouseLeave(m)
              \/ Focus \/ ArrowDown \/ ArrowUp \/ (\E v \in Values : Type(v))
              \/ UNCHANGED pageVars
       PROVE  UNCHANGED <<open, expanded, toggles>>
  BY <1>10 DEF Fetched, MouseLeave, Focus, ArrowDown, ArrowUp, Type, pageVars, menuVars
<1> QED BY <1>1, <1>2, <1>3, <1>4, <1>6, <1>7, <1>8, <1>9, <1>10
        DEF PageNext, Browser, Reader

(* Once the browser has delivered its events at most one menu is open, and *)
(* aria-expanded says which.                                               *)
THEOREM OneMenuOpenHolds == PageSpec => []OneMenuOpen
<1>1. PageInit => Settled
  BY DEF PageInit, Settled
<1>2. PageTypeOK /\ Settled => OneMenuOpen
  BY DEF PageTypeOK, Settled, OneMenuOpen
<1> QED BY <1>1, <1>2, SettledNext, PageTypeCorrect, PTL DEF PageSpec

-----------------------------------------------------------------------------
(* Whatever opens or enters a menu clears its timer or was just run.       *)
LEMMA HoverNext == PageTypeOK /\ HoverKeepsOpen /\ [PageNext]_pageVars => HoverKeepsOpen'
<1> SUFFICES ASSUME PageTypeOK, HoverKeepsOpen, [PageNext]_pageVars
             PROVE  HoverKeepsOpen'
  OBVIOUS
<1>1. ASSUME NEW m \in Menus, Timer(m) PROVE HoverKeepsOpen'
  BY <1>1 DEF Timer, HoverKeepsOpen
<1>2. ASSUME NEW m \in Menus, MouseEnter(m) PROVE HoverKeepsOpen'
  BY <1>2 DEF MouseEnter, HoverKeepsOpen
<1>3. ASSUME NEW m \in Menus, MouseLeave(m) PROVE HoverKeepsOpen'
  BY <1>3, PageAssumption DEF MouseLeave, HoverKeepsOpen, PageTypeOK
<1>4. CASE Enter
  BY <1>4 DEF Enter, HoverKeepsOpen
<1>5. CASE UNCHANGED <<timers, pointer>>
  BY <1>5 DEF HoverKeepsOpen
<1>6. ASSUME \/ \E m \in Menus : Toggle(m) \/ ClickSummary(m)
             \/ \E c \in Callbacks, ok \in BOOLEAN : Fetched(c, ok)
             \/ \E target \in {"menu", "search", "hamburger", "scrim", "page"} : Click(target)
             \/ Escape \/ Focus \/ ArrowDown \/ ArrowUp \/ (\E v \in Values : Type(v))
             \/ UNCHANGED pageVars
      PROVE  UNCHANGED <<timers, pointer>>
  BY <1>6 DEF Toggle, ClickSummary, Fetched, Click, Escape, Focus, ArrowDown, ArrowUp,
              Type, pageVars, menuVars
<1> QED BY <1>1, <1>2, <1>3, <1>4, <1>5, <1>6 DEF PageNext, Browser, Reader

(* No timer is left that would close the menu under the pointer.           *)
THEOREM HoverKeepsOpenHolds == PageSpec => []HoverKeepsOpen
<1>1. PageInit => HoverKeepsOpen
  BY DEF PageInit, HoverKeepsOpen
<1> QED BY <1>1, HoverNext, PageTypeCorrect, PTL DEF PageSpec

-----------------------------------------------------------------------------
(* The results.  Before the first reply there are none, and an input       *)
(* without words shows none.                                               *)
ResultsInv ==
  /\ ResultsFresh
  /\ index = "none" => ~shown
  /\ shown => value \in Queries

(* Every step keeps visible results those of the text in the box.          *)
LEMMA ResultsNext == PageTypeOK /\ ResultsInv /\ [PageNext]_pageVars => ResultsInv'
<1> SUFFICES ASSUME PageTypeOK, ResultsInv, [PageNext]_pageVars PROVE ResultsInv' OBVIOUS
<1>1. ASSUME NEW c \in Callbacks, NEW v, LoadIndex(c, v), v = value', UNCHANGED index,
             c = "focus" => value' = value
      PROVE  ResultsInv'
  <2>1. CASE index # "none"
    <3>1. Callback(c, v, index)
      BY <1>1, <2>1 DEF LoadIndex
    <3>2. CASE v \in Queries /\ Render(v, index)
      BY <1>1, <2>1, <3>2 DEF Render, ResultsInv, ResultsFresh
    <3>3. CASE HideSearch
      BY <3>3 DEF HideSearch, ResultsInv, ResultsFresh
    <3>4. CASE c = "focus" /\ v = Empty /\ UNCHANGED resultVars
      BY <1>1, <3>4, PageAssumption DEF resultVars, ResultsInv, ResultsFresh
    <3> QED BY <3>1, <3>2, <3>3, <3>4 DEF Callback, Run
  <2>2. CASE index = "none"
    BY <1>1, <2>2 DEF LoadIndex, resultVars, ResultsInv, ResultsFresh
  <2> QED BY <2>1, <2>2
<1>2. CASE Focus
  BY <1>1, <1>2 DEF Focus, Callbacks
<1>3. ASSUME NEW v \in Values, Type(v) PROVE ResultsInv'
  BY <1>1, <1>3 DEF Type, Callbacks
<1>4. ASSUME NEW c \in Callbacks, NEW ok \in BOOLEAN, Fetched(c, ok) PROVE ResultsInv'
  <2>1. index' # "none" /\ value' = value /\ Callback(c, value', index')
    BY <1>4 DEF Fetched
  <2>2. CASE value' \in Queries /\ Render(value', index')
    BY <2>1, <2>2 DEF Render, ResultsInv, ResultsFresh
  <2>3. CASE HideSearch
    BY <2>3 DEF HideSearch, ResultsInv, ResultsFresh
  <2>4. CASE value = Empty /\ UNCHANGED resultVars
    BY <2>4, <2>1, PageAssumption DEF resultVars, ResultsInv, ResultsFresh
  <2> QED BY <2>1, <2>2, <2>3, <2>4 DEF Callback, Run
<1>5. CASE HideSearch
  BY <1>5 DEF HideSearch, ResultsInv, ResultsFresh
<1>6. CASE UNCHANGED <<value, index, shown, list>>
  BY <1>6 DEF ResultsInv, ResultsFresh
<1>7. ASSUME NEW target, Click(target) PROVE ResultsInv'
  BY <1>5, <1>6, <1>7 DEF Click, resultVars
<1>8. CASE Escape \/ \E m \in Menus : ClickSummary(m)
  BY <1>5, <1>8 DEF Escape, ClickSummary
<1>9. CASE Enter
  BY <1>9 DEF Enter, ResultsInv, ResultsFresh
<1>10. ASSUME \/ \E m \in Menus : Toggle(m) \/ Timer(m) \/ MouseEnter(m) \/ MouseLeave(m)
              \/ ArrowDown \/ ArrowUp \/ UNCHANGED pageVars
       PROVE  UNCHANGED <<value, index, shown, list>>
  BY <1>10 DEF Toggle, Timer, MouseEnter, MouseLeave, ArrowDown, ArrowUp, pageVars, resultVars
<1> QED BY <1>2, <1>3, <1>4, <1>6, <1>7, <1>8, <1>9, <1>10 DEF PageNext, Browser, Reader

(* Visible results are those of the text in the box and the index in use.  *)
THEOREM ResultsFreshHolds == PageSpec => []ResultsFresh
<1>1. PageInit => ResultsInv
  BY DEF PageInit, ResultsInv, ResultsFresh
<1>2. ResultsInv => ResultsFresh
  BY DEF ResultsInv
<1> QED BY <1>1, <1>2, ResultsNext, PageTypeCorrect, PTL DEF PageSpec
=============================================================================
