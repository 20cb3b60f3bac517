-------------------------- MODULE WorkspaceProofs ---------------------------
(***************************************************************************)
(* The workspace's invariants, for any set of sessions and so for strips   *)
(* of any length and trees of any depth: `TypeOK`, `StripInv` and          *)
(* `PanesWellFormed` of module Workspace hold in every reachable state.    *)
(*                                                                         *)
(* None of them is inductive.  `StripInv` says of any two tabs that the    *)
(* parked one comes last, where the operations count the unparked tabs;    *)
(* and a directional move from a pane goes down into a neighbour subtree   *)
(* to a leaf, which exists because a tree's paths are bounded.  `Good`, of *)
(* module CoreProofs, names the boundary and the bound.                    *)
(*                                                                         *)
(* From `Good` follow what a step may never do to the strip, to the order  *)
(* of its panes and to the focus, and `DirectionalRoundTrip`, which is one *)
(* of trees alone: a move and its reverse meet at the same split.          *)
(***************************************************************************)
EXTENDS Workspace, CoreProofs

Inv == Good(ws) /\ HostedIn(ws) \subseteq Sessions

(* The workspace starts empty. *)
LEMMA InitInv == Init => Inv
BY EmptyGood DEF Init, Inv

(* What holds in the states where each operation is given what it asks for. *)
LEMMA InvFacts ==
  ASSUME Inv
  PROVE  /\ Good(ws)
         /\ Tabs = 1 .. Len(ws.tabs) /\ Len(ws.tabs) \in Nat
         /\ Tabs # {} => ws.active \in 1 .. Len(ws.tabs)
<1>1. Good(ws)
  BY DEF Inv
<1>2. Tabs = 1 .. Len(ws.tabs) /\ Len(ws.tabs) \in Nat
  BY <1>1, GoodStrip DEF Tabs
<1>3. Tabs # {} => ws.active \in 1 .. Len(ws.tabs)
  BY <1>1, ShownIsTab DEF Tabs
<1> QED
  BY <1>1, <1>2, <1>3

(* Every operation keeps the strip good. *)
LEMMA NextInv == Inv /\ [Next]_ws => Inv'
<1> SUFFICES ASSUME Inv, [Next]_ws PROVE Inv'
  OBVIOUS
<1>0. Good(ws) /\ HostedIn(ws) \subseteq Sessions /\ Tabs = 1 .. Len(ws.tabs)
  BY InvFacts DEF Inv
<1>shown. Tabs # {} => ws.active \in 1 .. Len(ws.tabs)
  BY InvFacts
<1>1. ASSUME NEW s \in Sessions, Open(s) \/ AppendBehind(s)
      PROVE  Inv'
  <2>1. s \notin HostedIn(ws)
    BY <1>1 DEF Open, AppendBehind, Unhosted
  <2>2. CASE Open(s)
    <3>1. Good(OpenTab(ws, s)) /\ HostedIn(OpenTab(ws, s)) = HostedIn(ws) \cup {s}
      BY <1>0, <2>1, OpenGood
    <3> QED
      BY <1>0, <2>2, <3>1 DEF Open, Inv
  <2>3. CASE AppendBehind(s)
    <3>1. Good(AppendTab(ws, s)) /\ HostedIn(AppendTab(ws, s)) = HostedIn(ws) \cup {s}
      BY <1>0, <2>1, AppendGood
    <3> QED
      BY <1>0, <2>3, <3>1 DEF AppendBehind, Inv
  <2> QED
    BY <1>1, <2>2, <2>3
<1>2. ASSUME NEW s \in Sessions, NEW d \in SplitDir, Split(d, s)
      PROVE  Inv'
  <2>1. ws.active \in 1 .. Len(ws.tabs) /\ s \notin HostedIn(ws)
    BY <1>2, <1>shown DEF Split, Unhosted
  <2>2. Good(SplitShown(ws, d, s)) /\ HostedIn(SplitShown(ws, d, s)) = HostedIn(ws) \cup {s}
    BY <1>0, <2>1, SplitGood
  <2> QED
    BY <1>0, <1>2, <2>2 DEF Split, Inv
<1>3. ASSUME NEW i \in Tabs, TogglePark(i) \/ ActivateAt(i) \/ Close(i)
      PROVE  Inv'
  <2>1. CASE TogglePark(i)
    BY <1>0, <2>1, ToggleGood DEF TogglePark, Inv
  <2>2. CASE ActivateAt(i)
    BY <1>0, <2>2, ActivateGood DEF ActivateAt, Inv
  <2>3. CASE Close(i)
    <3>1. Good(CloseAt(ws, i)) /\ HostedIn(CloseAt(ws, i)) = HostedIn(ws) \ HostedBy(ws.tabs[i])
      BY <1>0, CloseAtGood
    <3> QED
      BY <1>0, <2>3, <3>1 DEF Close, Inv
  <2> QED
    BY <1>3, <2>1, <2>2, <2>3
<1>4. ASSUME NEW from \in Tabs, NEW to \in Tabs, MoveFrom(from, to)
      PROVE  Inv'
  BY <1>0, <1>4, MoveGood DEF MoveFrom, Inv
<1>5. ASSUME NEW s \in Sessions, CloseSession(s)
      PROVE  Inv'
  <2>1. PICK i : i = TabOf(ws, s)
    OBVIOUS
  <2>2. i \in 1 .. Len(ws.tabs) /\ s \in HostedBy(ws.tabs[i])
    BY <1>0, <1>5, <2>1, TabOfIs DEF CloseSession
  <2>3. Good(CloseLeafAt(ws, i, s)) /\ HostedIn(CloseLeafAt(ws, i, s)) = HostedIn(ws) \ {s}
    BY <1>0, <2>2, CloseLeafGood
  <2> QED
    BY <1>0, <1>5, <2>1, <2>3 DEF CloseSession, ClosePaneOf, Inv
<1>6. ASSUME NEW s \in Sessions, FocusPaneOf(s)
      PROVE  Inv'
  <2>1. ws.active \in 1 .. Len(ws.tabs) /\ s \in HostedBy(Shown(ws))
    BY <1>6, <1>shown DEF FocusPaneOf
  <2>2. Good(FocusPane(ws, s)) /\ HostedIn(FocusPane(ws, s)) = HostedIn(ws)
    BY <1>0, <2>1, FocusPaneGood
  <2> QED
    BY <1>0, <1>6, <2>2 DEF FocusPaneOf, Inv
<1>7. ASSUME NEW s \in Sessions, RevealPaneOf(s)
      PROVE  Inv'
  <2>1. Good(Reveal(ws, s)) /\ HostedIn(Reveal(ws, s)) = HostedIn(ws)
    BY <1>0, <1>7, RevealGood DEF RevealPaneOf
  <2> QED
    BY <1>0, <1>7, <2>1 DEF RevealPaneOf, Inv
<1>8. ASSUME NEW step, CycleFocused(step)
      PROVE  Inv'
  BY <1>0, <1>8, <1>shown, CyclePanesGood DEF CycleFocused, Inv
<1>9. ASSUME NEW d \in Direction, FocusDirection(d)
      PROVE  Inv'
  BY <1>0, <1>9, <1>shown, FocusDirGood DEF FocusDirection, Inv
<1>10. ASSUME CloseFocused
       PROVE  Inv'
  <2>1. ws.active \in 1 .. Len(ws.tabs)
    BY <1>10, <1>shown DEF CloseFocused
  <2>2. PICK s : s = FocusedIn(ws)
    OBVIOUS
  <2>3. s \in HostedBy(ws.tabs[ws.active])
    BY <1>0, <2>1, <2>2, TabHosts DEF FocusedIn, Shown
  <2>4. /\ Good(CloseLeafAt(ws, ws.active, s))
        /\ HostedIn(CloseLeafAt(ws, ws.active, s)) = HostedIn(ws) \ {s}
    BY <1>0, <2>1, <2>3, CloseLeafGood
  <2> QED
    BY <1>0, <1>10, <2>2, <2>4 DEF CloseFocused, Inv
<1>11. CASE UNCHANGED ws
  BY <1>0, <1>11 DEF Inv
<1> QED
  BY <1>1, <1>2, <1>3, <1>4, <1>5, <1>6, <1>7, <1>8, <1>9, <1>10, <1>11 DEF Next

-----------------------------------------------------------------------------
(* What the invariant says of types. *)
LEMMA InvImpliesTypeOK == Inv => TypeOK
<1> SUFFICES ASSUME Inv PROVE Typed(ws)
  BY DEF TypeOK
<1>1. ws \in StripsOver(TabsWith(Layouts(ws))) /\ DOMAIN ws.tabs = 1 .. Len(ws.tabs)
  BY InvFacts, GoodStrip
<1>2. LayoutsOf(ws) = Layouts(ws) /\ TabsOver(LayoutsOf(ws)) = TabsWith(Layouts(ws))
  BY DEF LayoutsOf, Layouts, TabsOver, TabsWith
<1>3. ASSUME NEW i \in 1 .. Len(ws.tabs) PROVE LayoutOK(ws.tabs[i].layout)
  <2>1. PICK l : l = ws.tabs[i].layout
    OBVIOUS
  <2>2. Shaped(l)
    BY <2>1, InvFacts, LayoutOfTab DEF LayoutFits
  <2>3. Hosted(l) # {}
    BY <2>1, InvFacts, TabHosts DEF HostedBy
  <2>4. Hosted(l) \subseteq Sessions
    BY <2>1, InvFacts, HostedInIs DEF HostedBy, Inv
  <2> QED
    BY <2>1, <2>2, <2>3, <2>4 DEF LayoutOK, Shaped
<1>4. \A l \in LayoutsOf(ws) : LayoutOK(l)
  BY <1>1, <1>3 DEF LayoutsOf
<1> QED
  BY <1>1, <1>2, <1>4 DEF Typed, StripsOver

(* What the invariant says of the two zones and the tab shown. *)
LEMMA InvImpliesStripInv == Inv => StripInv
<1> SUFFICES ASSUME Inv PROVE StripInv
  OBVIOUS
<1>1. Tabs = 1 .. Len(ws.tabs) /\ Len(ws.tabs) \in Nat /\ Apart(ws.tabs)
  BY InvFacts, GoodStrip
<1>2. PICK n \in Nat : Boundary(ws.tabs, n) /\ ShownFits(ws, n)
  BY InvFacts DEF Good, Sound
<1>3. ZonesApart
  BY <1>1, <1>2 DEF ZonesApart, Boundary
<1>4. ActiveShown
  BY <1>1, <1>2 DEF ActiveShown, Shown, Boundary, ShownFits
<1>5. SessionsApart
  BY <1>1 DEF SessionsApart, Apart
<1> QED
  BY <1>3, <1>4, <1>5 DEF StripInv

(* What the invariant says of the panes. *)
LEMMA InvImpliesPanesWellFormed == Inv => PanesWellFormed
BY InvFacts, LayoutOfTab DEF PanesWellFormed, LayoutFits

-----------------------------------------------------------------------------
(* Every step keeps all tabs but one in their order, and the drawing order of
   the panes that stay in one tab. *)
LEMMA NextSteady == Inv /\ Next /\ Tabs # {} => Steady(ws, ws')
<1> SUFFICES ASSUME Inv, Next, Tabs # {} PROVE Steady(ws, ws')
  OBVIOUS
<1>0. Good(ws) /\ Tabs = 1 .. Len(ws.tabs) /\ ws.active \in 1 .. Len(ws.tabs)
  BY InvFacts
<1>1. ASSUME NEW s \in Sessions, Open(s) \/ AppendBehind(s)
      PROVE  Steady(ws, ws')
  <2>1. s \notin HostedIn(ws)
    BY <1>1 DEF Open, AppendBehind, Unhosted
  <2>2. Steady(ws, OpenTab(ws, s)) /\ Steady(ws, AppendTab(ws, s))
    BY <1>0, <2>1, OpenSteady
  <2> QED
    BY <1>1, <2>2 DEF Open, AppendBehind
<1>2. ASSUME NEW s \in Sessions, NEW d \in SplitDir, Split(d, s)
      PROVE  Steady(ws, ws')
  BY <1>0, <1>2, SplitSteady DEF Split, Unhosted
<1>3. ASSUME NEW i \in Tabs, TogglePark(i) \/ ActivateAt(i) \/ Close(i)
      PROVE  Steady(ws, ws')
  <2>1. CASE TogglePark(i)
    <3>1. Good(ToggleParked(ws, i)) /\ Rearranged(ws, ToggleParked(ws, i))
      BY <1>0, ToggleGood
    <3>2. Steady(ws, ToggleParked(ws, i))
      BY <1>0, <3>1, RearrangedSteady
    <3> QED
      BY <2>1, <3>2 DEF TogglePark
  <2>2. CASE ActivateAt(i)
    BY <1>0, <2>2, ActivateSteady DEF ActivateAt
  <2>3. CASE Close(i)
    BY <1>0, <2>3, CloseAtSteady DEF Close
  <2> QED
    BY <1>3, <2>1, <2>2, <2>3
<1>4. ASSUME NEW from \in Tabs, NEW to \in Tabs, MoveFrom(from, to)
      PROVE  Steady(ws, ws')
  <2>1. Good(Move(ws, from, to)) /\ Rearranged(ws, Move(ws, from, to))
    BY <1>0, MoveGood
  <2>2. Steady(ws, Move(ws, from, to))
    BY <1>0, <2>1, RearrangedSteady
  <2> QED
    BY <1>4, <2>2 DEF MoveFrom
<1>5. ASSUME NEW s \in Sessions, CloseSession(s)
      PROVE  Steady(ws, ws')
  <2>1. TabOf(ws, s) \in 1 .. Len(ws.tabs) /\ s \in HostedBy(ws.tabs[TabOf(ws, s)])
    BY <1>0, <1>5, TabOfIs DEF CloseSession
  <2> QED
    BY <1>0, <1>5, <2>1, CloseLeafSteady DEF CloseSession, ClosePaneOf
<1>6. ASSUME NEW s \in Sessions, FocusPaneOf(s)
      PROVE  Steady(ws, ws')
  BY <1>0, <1>6, FocusSteady DEF FocusPaneOf
<1>7. ASSUME NEW s \in Sessions, RevealPaneOf(s)
      PROVE  Steady(ws, ws')
  BY <1>0, <1>7, RevealSteady DEF RevealPaneOf
<1>8. ASSUME NEW step, CycleFocused(step)
      PROVE  Steady(ws, ws')
  BY <1>0, <1>8, FocusSteady DEF CycleFocused
<1>9. ASSUME NEW d \in Direction, FocusDirection(d)
      PROVE  Steady(ws, ws')
  BY <1>0, <1>9, FocusSteady DEF FocusDirection
<1>10. ASSUME CloseFocused
       PROVE  Steady(ws, ws')
  <2>1. FocusedIn(ws) \in HostedBy(ws.tabs[ws.active])
    BY <1>0, TabHosts DEF FocusedIn, Shown
  <2> QED
    BY <1>0, <1>10, <2>1, CloseLeafSteady DEF CloseFocused
<1> QED
  BY <1>1, <1>2, <1>3, <1>4, <1>5, <1>6, <1>7, <1>8, <1>9, <1>10 DEF Next

Closes == (\E k \in Tabs : Close(k)) \/ CloseFocused \/ (\E t \in Sessions : CloseSession(t))

(* A close of a tab or a pane leaves the focus of every tab on the pane that has
   it, if that pane is still there. *)
LEMMA ClosesKeepFocus == Inv /\ Closes => FocusesKept(ws, ws')
<1> SUFFICES ASSUME Inv, Closes PROVE FocusesKept(ws, ws')
  OBVIOUS
<1>0. Good(ws) /\ Tabs = 1 .. Len(ws.tabs)
  BY InvFacts
<1>1. ASSUME NEW k \in Tabs, Close(k)
      PROVE  FocusesKept(ws, ws')
  BY <1>0, <1>1, CloseAtSteady DEF Close
<1>2. ASSUME CloseFocused
      PROVE  FocusesKept(ws, ws')
  <2>1. ws.active \in 1 .. Len(ws.tabs)
    BY <1>2, InvFacts DEF CloseFocused
  <2>2. FocusedIn(ws) \in HostedBy(ws.tabs[ws.active])
    BY <1>0, <2>1, TabHosts DEF FocusedIn, Shown
  <2> QED
    BY <1>0, <1>2, <2>1, <2>2, CloseLeafSteady DEF CloseFocused
<1>3. ASSUME NEW t \in Sessions, CloseSession(t)
      PROVE  FocusesKept(ws, ws')
  <2>1. TabOf(ws, t) \in 1 .. Len(ws.tabs) /\ t \in HostedBy(ws.tabs[TabOf(ws, t)])
    BY <1>0, <1>3, TabOfIs DEF CloseSession
  <2> QED
    BY <1>0, <1>3, <2>1, CloseLeafSteady DEF CloseSession, ClosePaneOf
<1> QED
  BY <1>1, <1>2, <1>3 DEF Closes

(* Parks, moves, closes and tabs opened behind keep the tab on screen there. *)
LEMMA RearrangeKeepsShown == Inv /\ Rearrange /\ Tabs # {} => ShownStays(ws, ws')
<1> SUFFICES ASSUME Inv, Rearrange, Tabs # {} PROVE ShownStays(ws, ws')
  OBVIOUS
<1>0. Good(ws) /\ Tabs = 1 .. Len(ws.tabs) /\ ws.active \in 1 .. Len(ws.tabs)
  BY InvFacts
<1>1. ASSUME NEW i \in Tabs, TogglePark(i)
      PROVE  ShownStays(ws, ws')
  <2>1. Good(ToggleParked(ws, i)) /\ Rearranged(ws, ToggleParked(ws, i))
    BY <1>0, ToggleGood
  <2> QED
    BY <1>0, <1>1, <2>1, RearrangedShows DEF TogglePark
<1>2. ASSUME NEW i \in Tabs, Close(i)
      PROVE  ShownStays(ws, ws')
  BY <1>0, <1>2, CloseAtKeeps DEF Close
<1>3. ASSUME NEW from \in Tabs, NEW to \in Tabs, MoveFrom(from, to)
      PROVE  ShownStays(ws, ws')
  <2>1. Good(Move(ws, from, to)) /\ Rearranged(ws, Move(ws, from, to))
    BY <1>0, MoveGood
  <2> QED
    BY <1>0, <1>3, <2>1, RearrangedShows DEF MoveFrom
<1>4. ASSUME NEW s \in Sessions, AppendBehind(s)
      PROVE  ShownStays(ws, ws')
  BY <1>0, <1>4, AppendKeeps DEF AppendBehind, Unhosted
<1>5. ASSUME NEW s \in Sessions, CloseSession(s)
      PROVE  ShownStays(ws, ws')
  <2>1. TabOf(ws, s) \in 1 .. Len(ws.tabs) /\ s \in HostedBy(ws.tabs[TabOf(ws, s)])
    BY <1>0, <1>5, TabOfIs DEF CloseSession
  <2> QED
    BY <1>0, <1>5, <2>1, CloseLeafKeeps DEF CloseSession, ClosePaneOf
<1> QED
  BY <1>1, <1>2, <1>3, <1>4, <1>5 DEF Rearrange

-----------------------------------------------------------------------------
(* In every reachable state of a workspace of any number of sessions, every tab
   hosts some session in a layout of the right shape, and the active index
   never runs below the first one. *)
THEOREM WorkspaceTyped == Spec => []TypeOK
BY InitInv, NextInv, InvImpliesTypeOK, PTL DEF Spec

(* In every reachable state of a workspace of any number of sessions, the
   parked tabs are at the end, the index of the tab shown names a tab, an
   unparked one unless every tab is parked, and no session has a pane in two
   tabs: no sequence of opens, splits, moves, parks and closes of
   crates/core/src/workspace.rs breaks what each of them assumes. *)
THEOREM WorkspaceStrip == Spec => []StripInv
BY InitInv, NextInv, InvImpliesStripInv, PTL DEF Spec

(* In every reachable state of a workspace of any number of sessions, each tab's
   panes are the leaves of a binary tree, however deep its splits, and the focus
   is on one of them: split, close_leaf and the focus moves never meet the
   shapes they panic or give up on. *)
THEOREM WorkspacePanes == Spec => []PanesWellFormed
BY InitInv, NextInv, InvImpliesPanesWellFormed, PTL DEF Spec

(* In a workspace of any number of sessions, no park, move, close or tab opened
   behind takes the tab on screen off it, unless it closes that tab or leaves
   it parked beside one that is not: the index arithmetic of insert_tab,
   relocate and close_tab follows the tab it is about. *)
THEOREM WorkspaceShown == Spec => ShownTabKept
<1>1. Inv /\ Inv' /\ [Next]_ws =>
        [Rearrange /\ Tabs # {} =>
           \A j \in Tabs' : Same(ws.active, j) /\ ws'.active # j =>
             ws'.tabs[j].parked /\ \E k \in Tabs' : ~ws'.tabs[k].parked]_ws
  <2> SUFFICES ASSUME Inv, Inv', Rearrange, Tabs # {}, NEW j \in Tabs',
                      Same(ws.active, j), ws'.active # j
               PROVE  ws'.tabs[j].parked /\ \E k \in Tabs' : ~ws'.tabs[k].parked
    OBVIOUS
  <2>1. Tabs' = 1 .. Len(ws'.tabs)
    BY GoodStrip DEF Inv, Tabs
  <2>2. ShownStays(ws, ws')
    BY RearrangeKeepsShown
  <2>3. Overlap(ws, ws.active, ws', j)
    BY DEF Same, Overlap
  <2> QED
    BY <2>1, <2>2, <2>3 DEF ShownStays
<1> QED
  BY <1>1, InitInv, NextInv, PTL DEF Spec, ShownTabKept

(* In a workspace of any number of sessions, no step changes the relative order
   of two tabs unless it is one of them that moves, whichever zones they are in
   and whatever opens or closes between them. *)
THEOREM WorkspaceOrder == Spec => OthersKeepOrder
<1>1. Inv /\ Inv' /\ [Next]_ws =>
        [Tabs # {} => \E moved \in Tabs :
           \A a, b \in Tabs \ {moved} : \A c, d \in Tabs' :
             a < b /\ Same(a, c) /\ Same(b, d) => c < d]_ws
  <2> SUFFICES ASSUME Inv, Inv', Next, Tabs # {}
               PROVE  \E moved \in Tabs :
                        \A a, b \in Tabs \ {moved} : \A c, d \in Tabs' :
                          a < b /\ Same(a, c) /\ Same(b, d) => c < d
    OBVIOUS
  <2>1. Tabs' = 1 .. Len(ws'.tabs) /\ Tabs = 1 .. Len(ws.tabs)
    BY GoodStrip DEF Inv, Tabs
  <2>2. PICK moved \in 1 .. Len(ws.tabs) : InOrder(ws, ws', moved)
    BY NextSteady DEF Steady
  <2>3. \A a, b \in Tabs \ {moved} : \A c, d \in Tabs' :
          a < b /\ Same(a, c) /\ Same(b, d) => c < d
    BY <2>1, <2>2 DEF InOrder, Same, Overlap
  <2> QED
    BY <2>1, <2>2, <2>3
<1> QED
  BY <1>1, InitInv, NextInv, PTL DEF Spec, OthersKeepOrder

(* In a workspace of any number of sessions and trees of any depth, panes that
   stay together keep their drawing order through every split, collapse and
   focus move, and no close takes the focus from a pane that survives it. *)
THEOREM WorkspaceDrawing == Spec => PanesKept
<1>1. Inv /\ Inv' /\ [Next]_ws =>
        [\A i \in Tabs, j \in Tabs' :
           LET old == ws.tabs[i].layout.at
               new == ws'.tabs[j].layout.at
               s == FocusedSession(ws.tabs[i].layout)
           IN /\ \A t, u \in DOMAIN old \cap DOMAIN new :
                   Before(old[t], old[u]) <=> Before(new[t], new[u])
              /\ (\E k \in Tabs : Close(k)) \/ CloseFocused \/ (\E t \in Sessions : CloseSession(t)) =>
                   (s \in DOMAIN new => FocusedSession(ws'.tabs[j].layout) = s)]_ws
  <2> SUFFICES ASSUME Inv, Inv', Next, NEW i \in Tabs, NEW j \in Tabs'
               PROVE  /\ DrawnAlike(ws.tabs[i].layout.at, ws'.tabs[j].layout.at)
                      /\ Closes => FocusKept(ws.tabs[i].layout, ws'.tabs[j].layout)
    BY Zenon DEF DrawnAlike, FocusKept, Closes, Hosted
  <2>1. Tabs' = 1 .. Len(ws'.tabs) /\ Tabs = 1 .. Len(ws.tabs)
    BY GoodStrip DEF Inv, Tabs
  <2>2. Drawn(ws, ws')
    BY NextSteady DEF Steady
  <2>3. Closes => FocusesKept(ws, ws')
    BY ClosesKeepFocus
  <2> QED
    BY <2>1, <2>2, <2>3 DEF Drawn, FocusesKept
<1> QED
  BY <1>1, InitInv, NextInv, PTL DEF Spec, PanesKept

-----------------------------------------------------------------------------
(***************************************************************************)
(* There and back.                                                         *)
(***************************************************************************)

(* The paths that begin both of two paths. *)
LEMMA CommonIs ==
  ASSUME NEW p \in Path, NEW q \in Path, NEW r
  PROVE  r \in CommonPrefixes({p, q}) <=> r \in Path /\ IsPrefix(r, p) /\ IsPrefix(r, q)
<1>1. ASSUME NEW s \in Path, r \in Prefixes(s) PROVE r \in Path
  BY <1>1, UptoIs DEF Prefixes
<1>2. ASSUME NEW s \in Path, r \in Path, IsPrefix(r, s) PROVE r \in Prefixes(s)
  BY <1>2, PrefixUpto DEF Prefixes
<1> QED
  BY <1>1, <1>2 DEF CommonPrefixes

(* The longest of them is one of them. *)
LEMMA LongestIs ==
  ASSUME NEW p \in Path, NEW q \in Path
  PROVE  /\ LongestCommonPrefix({p, q}) \in CommonPrefixes({p, q})
         /\ \A r \in CommonPrefixes({p, q}) : Len(r) <= Len(LongestCommonPrefix({p, q}))
<1>1. PICK C : C = CommonPrefixes({p, q})
  OBVIOUS
<1>2. \A r \in C : r \in Path /\ Len(r) \in Nat /\ Len(r) <= Len(p)
  BY <1>1, CommonIs, PathIs, PrefixIs
<1>3. PICK T : T = {Len(r) : r \in C}
  OBVIOUS
<1>4. T \subseteq Nat /\ \A n \in T : n <= Len(p)
  BY <1>2, <1>3
<1>5. T # {}
  <2>1. <<>> \in Path /\ Len(<<>>) = 0 /\ Len(p) \in Nat /\ Len(q) \in Nat
    BY PathIs, EmptySeq DEF Path
  <2>2. <<>> \in C
    BY <1>1, <2>1, CommonIs, PrefixIs
  <2> QED
    BY <1>3, <2>2
<1>6. PICK n \in T : \A m \in T : m <= n
  BY <1>4, <1>5, PathIs, Greatest
<1>7. \E r \in C : \A s \in C : Len(s) <= Len(r)
  BY <1>3, <1>6
<1>8. LongestCommonPrefix({p, q}) = CHOOSE r \in C : \A s \in C : Len(s) <= Len(r)
  BY <1>1, Zenon DEF LongestCommonPrefix
<1> QED
  BY <1>1, <1>7, <1>8, Zenon

(* Paths that agree on their first k branches share as many, and no more where
   they part. *)
LEMMA SharedAtLeast ==
  ASSUME NEW p \in Path, NEW q \in Path, NEW k \in 0 .. Len(p), k <= Len(q),
         \A i \in 1 .. k : p[i] = q[i]
  PROVE  Len(LongestCommonPrefix({p, q})) >= k /\ Len(LongestCommonPrefix({p, q})) \in Nat
<1>0. Len(p) \in Nat /\ Len(q) \in Nat /\ k \in Nat
  BY PathIs
<1>1. PICK r : r = SubSeq(p, 1, k)
  OBVIOUS
<1>2. r \in Path /\ Len(r) = k /\ \A i \in 1 .. k : r[i] = p[i]
  BY <1>1, UptoIs
<1>3. r \in CommonPrefixes({p, q})
  BY <1>0, <1>2, CommonIs, PrefixIs
<1>4. LongestCommonPrefix({p, q}) \in Path
  BY LongestIs, CommonIs
<1>5. Len(LongestCommonPrefix({p, q})) \in Nat
  BY <1>4, PathIs
<1>6. Len(r) <= Len(LongestCommonPrefix({p, q}))
  BY <1>3, LongestIs
<1> QED
  BY <1>0, <1>2, <1>5, <1>6

(* They share no more than k branches when they part at the next. *)
LEMMA SharedAtMost ==
  ASSUME NEW p \in Path, NEW q \in Path, NEW k \in 0 .. Len(p) - 1, k < Len(q),
         p[k + 1] # q[k + 1]
  PROVE  Len(LongestCommonPrefix({p, q})) <= k
<1>0. Len(p) \in Nat /\ Len(q) \in Nat /\ k \in Nat
  BY PathIs
<1>1. PICK r : r = LongestCommonPrefix({p, q})
  OBVIOUS
<1>2. r \in Path /\ IsPrefix(r, p) /\ IsPrefix(r, q)
  BY <1>1, LongestIs, CommonIs
<1>3. /\ Len(r) \in Nat
      /\ \A i \in 1 .. Len(r) : r[i] = p[i]
      /\ \A i \in 1 .. Len(r) : r[i] = q[i]
  BY <1>2, PathIs, PrefixIs
<1>4. k + 1 \notin 1 .. Len(r)
  BY <1>3
<1> QED
  BY <1>0, <1>1, <1>3, <1>4

(* The greatest and the least of a set of depths. *)
LEMMA LargestIs ==
  ASSUME NEW T, T \subseteq Nat, NEW k \in T
  PROVE  /\ (\A i \in T : i <= k) => Max(T) = k
         /\ (\A i \in T : k <= i) => Min(T) = k
<1>1. ASSUME \A i \in T : i <= k PROVE Max(T) = k
  <2>1. \A i \in T : k >= i
    BY <1>1
  <2>2. Max(T) \in T /\ \A i \in T : Max(T) >= i
    BY <2>1, Zenon DEF Max
  <2>3. PICK m \in T : m = Max(T)
    BY <2>2
  <2>4. m >= k /\ m <= k /\ m \in Nat
    BY <1>1, <2>2, <2>3
  <2> QED
    BY <2>3, <2>4
<1>2. ASSUME \A i \in T : k <= i PROVE Min(T) = k
  <2>1. Min(T) \in T /\ \A i \in T : Min(T) <= i
    BY <1>2, Zenon DEF Min
  <2>2. PICK m \in T : m = Min(T)
    BY <2>1
  <2>3. m <= k /\ k <= m /\ m \in Nat
    BY <1>2, <2>1, <2>2
  <2> QED
    BY <2>2, <2>3
<1> QED
  BY <1>1, <1>2

(* A nonempty set of depths has a least. *)
LEMMA MinIn ==
  ASSUME NEW T, T \subseteq Nat, T # {}
  PROVE  Min(T) \in T /\ \A i \in T : Min(T) <= i
<1>1. \E k \in T : \A i \in T : k <= i
  BY Least
<1> QED
  BY <1>1, Zenon DEF Min

(* It has a greatest, being bounded. *)
LEMMA MaxIn ==
  ASSUME NEW T, T \subseteq Nat, T # {}, NEW n \in Nat, \A i \in T : i <= n
  PROVE  Max(T) \in T
<1>1. PICK k \in T : \A i \in T : i <= k
  BY Greatest
<1>2. \A i \in T : k >= i
  BY <1>1
<1> QED
  BY <1>2, Zenon DEF Max

(* The reverse of a move has its axis and goes to the other side. *)
LEMMA BackIs ==
  ASSUME NEW d \in Direction
  PROVE  /\ Back(d) \in Direction
         /\ Axis(Back(d)) = Axis(d)
         /\ Toward(Back(d)) = Opposite(Toward(d))
         /\ Opposite(Toward(Back(d))) = Toward(d)
         /\ Toward(d) \in Branch /\ Opposite(Toward(d)) \in Branch
         /\ Opposite(Toward(d)) # Toward(d)
<1>1. \E e \in Direction : Axis(e) = Axis(d) /\ Toward(e) # Toward(d)
  <2>1. CASE d = "Left"
    BY <2>1 DEF Direction, Axis, Toward
  <2>2. CASE d = "Right"
    BY <2>2 DEF Direction, Axis, Toward
  <2>3. CASE d = "Up"
    BY <2>3 DEF Direction, Axis, Toward
  <2>4. CASE d = "Down"
    BY <2>4 DEF Direction, Axis, Toward
  <2> QED
    BY <2>1, <2>2, <2>3, <2>4 DEF Direction
<1>2. Back(d) \in Direction /\ Axis(Back(d)) = Axis(d) /\ Toward(Back(d)) # Toward(d)
  BY <1>1, Zenon DEF Back
<1>3. \A e \in Direction : Toward(e) = "A" \/ Toward(e) = "B"
  BY DEF Toward
<1> QED
  BY <1>2, <1>3 DEF Opposite, Branch

(* The focus of a fitting layout is a path. *)
LEMMA FocusIs ==
  ASSUME NEW l, LayoutFits(l)
  PROVE  l.focus \in Path /\ Len(l.focus) \in Nat
<1>1. l.focus \in Path
  BY TreeIs DEF LayoutFits, FocusOnLeaf, Nodes
<1> QED
  BY <1>1, PathIs

(* The splits a move meets lie strictly above the focus. *)
LEMMA CrossingsIn ==
  ASSUME NEW l, LayoutFits(l), NEW d
  PROVE  Crossings(l, d) \subseteq 0 .. Len(l.focus) - 1 /\ Crossings(l, d) \subseteq Nat
BY FocusIs DEF Crossings

(* The leaf a move lands on shares the focus's path down to the split it enters
   and goes on to the branch it enters by, then as close to the split as it can. *)
LEMMA EdgeLeafLies ==
  ASSUME NEW l, LayoutFits(l), NEW d \in Direction, NEW i \in Crossings(l, d), NEW b \in Branch,
         NEW g, g = EdgeLeaf(l, i, b, d)
  PROVE  /\ g \in LeafPaths(l) /\ g \in Path
         /\ i \in Nat /\ i < Len(l.focus) /\ i < Len(g)
         /\ \A j \in 1 .. i : g[j] = l.focus[j]
         /\ g[i + 1] = b
         /\ \A j \in i + 2 .. Len(g) : g[j] = Opposite(Toward(d))
<1>1. l.focus \in Path /\ Len(l.focus) \in Nat /\ i \in 0 .. Len(l.focus) - 1
  BY FocusIs, CrossingsIn
<1>2. PICK p : p = SubSeq(l.focus, 1, i)
  OBVIOUS
<1>3. p \in Path /\ Len(p) = i /\ \A j \in 1 .. i : p[j] = l.focus[j]
  <2>1. i \in 0 .. Len(l.focus)
    BY <1>1
  <2> QED
    BY <1>1, <1>2, <2>1, UptoIs
<1>4. p \in DOMAIN l.dir
  BY <1>2 DEF Crossings
<1>5. PICK q : q = Append(p, b)
  OBVIOUS
<1>6. q \in Nodes(l)
  BY <1>4, <1>5, TreeIs DEF LayoutFits
<1>7. /\ q \in Path /\ Len(q) = i + 1 /\ q[i + 1] = b
      /\ \A j \in 1 .. i : q[j] = p[j]
  BY <1>3, <1>5, AppendIs
<1>8. Opposite(Toward(d)) \in Branch
  BY BackIs
<1>9. g = Descend(l, q, Opposite(Toward(d)))
  BY <1>2, <1>5 DEF EdgeLeaf
<1>10. g \in LeafPaths(l) /\ Only(q, g, Opposite(Toward(d)))
  BY <1>6, <1>8, <1>9, DescendIs DEF LayoutFits
<1>11. g \in Path
  BY <1>10, TreeIs DEF LayoutFits, Nodes
<1>12. Len(g) \in Nat /\ Len(q) <= Len(g) /\ \A j \in 1 .. Len(q) : q[j] = g[j]
  BY <1>7, <1>10, <1>11, PathIs, PrefixIs DEF Only
<1>13. \A j \in i + 2 .. Len(g) : g[j] = Opposite(Toward(d))
  <2>1. \A j \in Len(q) + 1 .. Len(g) : g[j] = Opposite(Toward(d))
    BY <1>10 DEF Only
  <2>2. Len(q) + 1 = i + 2
    BY <1>1, <1>7
  <2> QED
    BY <2>1, <2>2
<1> QED
  BY <1>1, <1>3, <1>7, <1>10, <1>11, <1>12, <1>13

(* Two leaves of a tree see the same splits of an axis as far as their paths
   agree. *)
LEMMA CrossingsAgree ==
  ASSUME NEW l, LayoutFits(l), NEW m, LayoutFits(m), m.dir = l.dir,
         NEW d, NEW e, Axis(e) = Axis(d),
         NEW k \in Nat, k < Len(l.focus), k < Len(m.focus),
         \A j \in 1 .. k : m.focus[j] = l.focus[j],
         NEW i \in 0 .. k
  PROVE  i \in Crossings(m, e) <=> i \in Crossings(l, d)
<1>1. /\ l.focus \in Path /\ Len(l.focus) \in Nat
      /\ m.focus \in Path /\ Len(m.focus) \in Nat
  BY FocusIs
<1>2. i \in 0 .. Len(l.focus) /\ i \in 0 .. Len(m.focus)
  BY <1>1
<1>3. PICK p : p = SubSeq(l.focus, 1, i)
  OBVIOUS
<1>4. p \in Path /\ Len(p) = i /\ \A j \in 1 .. i : p[j] = l.focus[j]
  BY <1>1, <1>2, <1>3, UptoIs
<1>5. PICK q : q = SubSeq(m.focus, 1, i)
  OBVIOUS
<1>6. q \in Path /\ Len(q) = i /\ \A j \in 1 .. i : q[j] = m.focus[j]
  BY <1>1, <1>2, <1>5, UptoIs
<1>7. p = q
  BY <1>4, <1>6, PathEqual
<1>8. i \in 0 .. Len(l.focus) - 1 /\ i \in 0 .. Len(m.focus) - 1
  BY <1>1
<1> QED
  BY <1>3, <1>5, <1>7, <1>8 DEF Crossings

(* The focus of m parts from that of l below the split at depth k, by branch b,
   and keeps to branch c below it. *)
Lands(l, m, k, b, c) ==
  /\ k \in Nat /\ k < Len(l.focus) /\ k < Len(m.focus)
  /\ \A j \in 1 .. k : m.focus[j] = l.focus[j]
  /\ m.focus[k + 1] = b
  /\ \A j \in k + 2 .. Len(m.focus) : m.focus[j] = c

(* A move to an edge leaf lands below the split it crosses, and changes nothing else. *)
LEMMA MovesTo ==
  ASSUME NEW l, LayoutFits(l), NEW d \in Direction, NEW k \in Crossings(l, d), NEW b \in Branch,
         NEW m, m = [l EXCEPT !.focus = EdgeLeaf(l, k, b, d)]
  PROVE  LayoutFits(m) /\ m.dir = l.dir /\ Lands(l, m, k, b, Opposite(Toward(d)))
<1>1. PICK g : g = EdgeLeaf(l, k, b, d)
  OBVIOUS
<1>2. /\ g \in LeafPaths(l)
      /\ k \in Nat /\ k < Len(l.focus) /\ k < Len(g)
      /\ \A j \in 1 .. k : g[j] = l.focus[j]
      /\ g[k + 1] = b
      /\ \A j \in k + 2 .. Len(g) : g[j] = Opposite(Toward(d))
  BY <1>1, EdgeLeafLies
<1>3. m = [l EXCEPT !.focus = g]
  BY <1>1
<1>4. m.focus = g /\ m.dir = l.dir
  BY <1>3 DEF LayoutFits, Shaped
<1>5. LayoutFits(m)
  BY <1>2, <1>3, RefocusFits DEF LayoutFits
<1> QED
  BY <1>2, <1>4, <1>5 DEF Lands

(* A move and its reverse part and meet at one split: the move leaves the focus's
   path there, and the reverse comes back to the branch it left. *)
Returns(l, m, r, k) ==
  /\ k \in Nat /\ k < Len(l.focus) /\ k < Len(m.focus) /\ k < Len(r.focus)
  /\ m.focus[k + 1] # l.focus[k + 1]
  /\ \A j \in 1 .. k + 1 : r.focus[j] = l.focus[j]
  /\ LayoutFits(m) /\ LayoutFits(r)

(* A move across a split is undone across the same one: the leaf it lands on is
   under no nearer split that the reverse could cross. *)
LEMMA CrossReturns ==
  ASSUME NEW l, LayoutFits(l), NEW d \in Direction, Crossable(l, d) # {},
         NEW m, m = FocusDirOf(l, d), NEW r, r = FocusDirOf(m, Back(d))
  PROVE  \E k : Returns(l, m, r, k)
<1>1. PICK C : C = Crossable(l, d)
  OBVIOUS
<1>2. PICK k : k = Max(C)
  OBVIOUS
<1>3. C \in SUBSET Crossings(l, d) /\ C \subseteq Nat /\ C # {}
  BY <1>1, CrossingsIn DEF Crossable
<1>4. k \in C
  <2>1. Len(l.focus) \in Nat /\ \A i \in C : i <= Len(l.focus)
    BY <1>3, CrossingsIn, FocusIs
  <2> QED
    BY <1>2, <1>3, <2>1, MaxIn
<1>5. k \in Crossings(l, d) /\ l.focus[k + 1] = Opposite(Toward(d))
  BY <1>1, <1>4 DEF Crossable
<1>6. PICK b \in Branch : b = Toward(d) /\ b # Opposite(Toward(d))
  BY BackIs
<1>7. m = [l EXCEPT !.focus = EdgeLeaf(l, k, b, d)]
  BY <1>1, <1>2, <1>6 DEF FocusDirOf
<1>8. LayoutFits(m) /\ m.dir = l.dir
  BY <1>5, <1>7, MovesTo
<1>9. /\ k \in Nat /\ k < Len(l.focus) /\ k < Len(m.focus)
      /\ \A j \in 1 .. k : m.focus[j] = l.focus[j]
      /\ m.focus[k + 1] = b
      /\ \A j \in k + 2 .. Len(m.focus) : m.focus[j] = Opposite(Toward(d))
  <2>1. Lands(l, m, k, b, Opposite(Toward(d)))
    BY <1>5, <1>7, MovesTo
  <2> QED
    BY <2>1 DEF Lands
<1>10. PICK e \in Direction : /\ e = Back(d) /\ Axis(e) = Axis(d)
                              /\ Toward(e) = Opposite(Toward(d))
                              /\ Opposite(Toward(e)) = Toward(d)
  BY BackIs
<1>11. k \in Crossings(m, e)
  <2>1. k \in 0 .. k
    BY <1>9
  <2> QED
    BY <1>5, <1>8, <1>9, <1>10, <2>1, CrossingsAgree
<1>12. PICK D : D = Crossable(m, e)
  OBVIOUS
<1>13. k \in D
  BY <1>6, <1>9, <1>10, <1>11, <1>12 DEF Crossable
<1>14. ASSUME NEW i \in D PROVE i <= k
  <2>1. i \in Crossings(m, e) /\ m.focus[i + 1] = Toward(d)
    BY <1>10, <1>12 DEF Crossable
  <2>2. i \in 0 .. Len(m.focus) - 1 /\ Len(m.focus) \in Nat
    BY <1>8, <2>1, CrossingsIn, FocusIs
  <2>3. ~(i > k)
    <3>1. ASSUME i > k PROVE FALSE
      <4>1. i + 1 \in k + 2 .. Len(m.focus)
        BY <1>9, <2>2, <3>1
      <4> QED
        BY <1>6, <1>9, <2>1, <4>1
    <3> QED
      BY <3>1
  <2> QED
    BY <1>9, <2>2, <2>3
<1>15. D \subseteq Nat
  BY <1>8, <1>12, CrossingsIn DEF Crossable
<1>16. Max(D) = k
  BY <1>13, <1>14, <1>15, LargestIs
<1>17. PICK c \in Branch : c = Toward(e)
  BY BackIs
<1>18. r = [m EXCEPT !.focus = EdgeLeaf(m, k, c, e)]
  BY <1>10, <1>12, <1>13, <1>16, <1>17 DEF FocusDirOf
<1>19. /\ LayoutFits(r) /\ k < Len(r.focus)
       /\ \A j \in 1 .. k : r.focus[j] = m.focus[j]
       /\ r.focus[k + 1] = c
  <2>1. LayoutFits(r) /\ Lands(m, r, k, c, Opposite(Toward(e)))
    BY <1>8, <1>11, <1>18, MovesTo
  <2> QED
    BY <2>1 DEF Lands
<1>20. \A j \in 1 .. k + 1 : r.focus[j] = l.focus[j]
  BY <1>5, <1>9, <1>10, <1>17, <1>19
<1> QED
  BY <1>5, <1>6, <1>8, <1>9, <1>19, <1>20 DEF Returns

(* A move that wraps around is undone by a wrap around the same split: the leaf it
   lands on is at the edge the reverse starts from. *)
LEMMA WrapReturns ==
  ASSUME NEW l, LayoutFits(l), NEW d \in Direction, Crossable(l, d) = {}, Crossings(l, d) # {},
         NEW m, m = FocusDirOf(l, d), NEW r, r = FocusDirOf(m, Back(d))
  PROVE  \E k : Returns(l, m, r, k)
<1>1. PICK C : C = Crossings(l, d)
  OBVIOUS
<1>2. PICK k : k = Min(C)
  OBVIOUS
<1>3. C \subseteq Nat /\ C # {} /\ C \subseteq 0 .. Len(l.focus) - 1
  BY <1>1, CrossingsIn
<1>4. k \in C /\ \A i \in C : k <= i
  BY <1>2, <1>3, MinIn
<1>5. l.focus[k + 1] = Toward(d)
  <2>1. l.focus[k + 1] # Opposite(Toward(d))
    BY <1>1, <1>4 DEF Crossable
  <2>2. l.focus \in Path /\ Len(l.focus) \in Nat
    BY FocusIs
  <2>3. k + 1 \in 1 .. Len(l.focus)
    BY <1>3, <1>4, <2>2
  <2>4. l.focus[k + 1] \in Branch
    BY <2>2, <2>3, PathIs
  <2> QED
    BY <2>1, <2>4, BranchIs, BackIs DEF Opposite
<1>6. PICK b \in Branch : b = Opposite(Toward(d)) /\ b # Toward(d)
  BY BackIs
<1>7. m = [l EXCEPT !.focus = EdgeLeaf(l, k, b, d)]
  BY <1>1, <1>2, <1>6 DEF FocusDirOf
<1>8. k \in Crossings(l, d)
  BY <1>1, <1>4
<1>9. LayoutFits(m) /\ m.dir = l.dir
  BY <1>7, <1>8, MovesTo
<1>10. /\ k \in Nat /\ k < Len(l.focus) /\ k < Len(m.focus)
       /\ \A j \in 1 .. k : m.focus[j] = l.focus[j]
       /\ m.focus[k + 1] = b
       /\ \A j \in k + 2 .. Len(m.focus) : m.focus[j] = Opposite(Toward(d))
  <2>1. Lands(l, m, k, b, Opposite(Toward(d)))
    BY <1>7, <1>8, MovesTo
  <2> QED
    BY <2>1 DEF Lands
<1>11. PICK e \in Direction : /\ e = Back(d) /\ Axis(e) = Axis(d)
                              /\ Toward(e) = Opposite(Toward(d))
                              /\ Opposite(Toward(e)) = Toward(d)
  BY BackIs
<1>12. ASSUME NEW i \in 0 .. k PROVE i \in Crossings(m, e) <=> i \in Crossings(l, d)
  BY <1>9, <1>10, <1>11, CrossingsAgree
<1>13. PICK D : D = Crossings(m, e)
  OBVIOUS
<1>14. D \subseteq Nat /\ D \subseteq 0 .. Len(m.focus) - 1 /\ Len(m.focus) \in Nat
  BY <1>9, <1>13, CrossingsIn, FocusIs
<1>15. k \in D
  <2>1. k \in 0 .. k
    BY <1>10
  <2> QED
    BY <1>8, <1>12, <1>13, <2>1
<1>16. ASSUME NEW i \in D PROVE k <= i
  <2>1. ASSUME i < k PROVE FALSE
    <3>1. i \in 0 .. k
      BY <1>10, <1>14, <2>1
    <3>2. i \in C
      BY <1>1, <1>12, <1>13, <3>1
    <3> QED
      BY <1>4, <1>10, <1>14, <2>1, <3>2
  <2> QED
    BY <1>10, <1>14, <2>1
<1>17. Min(D) = k
  BY <1>14, <1>15, <1>16, LargestIs
<1>18. Crossable(m, e) = {}
  <2>1. ASSUME NEW i \in D PROVE m.focus[i + 1] # Toward(d)
    <3>1. i = k \/ i + 1 \in k + 2 .. Len(m.focus)
      BY <1>10, <1>14, <1>16
    <3> QED
      BY <1>6, <1>10, <3>1
  <2> QED
    BY <1>11, <1>13, <2>1 DEF Crossable
<1>19. PICK c \in Branch : c = Opposite(Toward(e))
  BY BackIs
<1>20. r = [m EXCEPT !.focus = EdgeLeaf(m, k, c, e)]
  BY <1>11, <1>13, <1>15, <1>17, <1>18, <1>19 DEF FocusDirOf
<1>21. k \in Crossings(m, e)
  BY <1>13, <1>15
<1>22. /\ LayoutFits(r) /\ k < Len(r.focus)
       /\ \A j \in 1 .. k : r.focus[j] = m.focus[j]
       /\ r.focus[k + 1] = c
  <2>1. LayoutFits(r) /\ Lands(m, r, k, c, Opposite(Toward(e)))
    BY <1>9, <1>20, <1>21, MovesTo
  <2> QED
    BY <2>1 DEF Lands
<1>23. \A j \in 1 .. k + 1 : r.focus[j] = l.focus[j]
  BY <1>5, <1>10, <1>11, <1>19, <1>22
<1> QED
  BY <1>5, <1>6, <1>9, <1>10, <1>22, <1>23 DEF Returns

(* The round trip of one layout, in the terms of DirectionalRoundTrip. *)
LEMMA RoundTrip ==
  ASSUME NEW l, LayoutFits(l), NEW d \in Direction, Crossings(l, d) # {},
         NEW m, m = FocusDirOf(l, d), NEW r, r = FocusDirOf(m, Back(d))
  PROVE  /\ m.focus # l.focus
         /\ Len(LongestCommonPrefix({r.focus, l.focus}))
              > Len(LongestCommonPrefix({l.focus, m.focus}))
<1>1. PICK k : Returns(l, m, r, k)
  BY CrossReturns, WrapReturns
<1>2. /\ l.focus \in Path /\ m.focus \in Path /\ r.focus \in Path
      /\ Len(l.focus) \in Nat /\ Len(m.focus) \in Nat /\ Len(r.focus) \in Nat
  BY <1>1, FocusIs DEF Returns
<1>3. /\ k \in Nat /\ k < Len(l.focus) /\ k < Len(m.focus) /\ k < Len(r.focus)
      /\ m.focus[k + 1] # l.focus[k + 1]
      /\ \A j \in 1 .. k + 1 : r.focus[j] = l.focus[j]
  BY <1>1 DEF Returns
<1>4. k + 1 \in 0 .. Len(r.focus) /\ k + 1 <= Len(l.focus) /\ k \in 0 .. Len(l.focus) - 1
  BY <1>2, <1>3
<1>5. PICK n : n = Len(LongestCommonPrefix({r.focus, l.focus}))
  OBVIOUS
<1>6. n \in Nat /\ n >= k + 1
  BY <1>2, <1>3, <1>4, <1>5, SharedAtLeast
<1>7. PICK o : o = Len(LongestCommonPrefix({l.focus, m.focus}))
  OBVIOUS
<1>8. o \in Nat /\ o <= k
  <2>1. o <= k
    BY <1>2, <1>3, <1>4, <1>7, SharedAtMost
  <2>2. o \in Nat
    <3>1. 0 \in 0 .. Len(l.focus) /\ 0 <= Len(m.focus) /\ \A i \in 1 .. 0 : l.focus[i] = m.focus[i]
      BY <1>2
    <3> QED
      BY <1>2, <1>7, <3>1, SharedAtLeast
  <2> QED
    BY <2>1, <2>2
<1>9. n > o
  BY <1>3, <1>6, <1>8
<1> QED
  BY <1>3, <1>5, <1>7, <1>9

(* In trees of any depth, no directional move strands the focus: whichever split
   it crosses or wraps around, the reverse move comes back to the side it left
   (focus_dir, and its tests of wrapping). *)
THEOREM WorkspaceRoundTrip == Spec => []DirectionalRoundTrip
<1>1. Inv => DirectionalRoundTrip
  <2> SUFFICES ASSUME Inv, NEW i \in Tabs, NEW d \in Direction,
                      Crossings(ws.tabs[i].layout, d) # {}
               PROVE  LET here == ws.tabs[i].layout
                          there == FocusDirOf(here, d)
                          back == FocusDirOf(there, Back(d))
                          Shared(p, q) == LongestCommonPrefix({p, q})
                      IN /\ there.focus # here.focus
                         /\ Len(Shared(back.focus, here.focus)) > Len(Shared(here.focus, there.focus))
    BY Zenon DEF DirectionalRoundTrip
  <2>1. PICK l : l = ws.tabs[i].layout
    OBVIOUS
  <2>2. LayoutFits(l)
    BY <2>1, InvFacts, LayoutOfTab
  <2>3. PICK m : m = FocusDirOf(l, d)
    OBVIOUS
  <2>4. PICK r : r = FocusDirOf(m, Back(d))
    OBVIOUS
  <2>5. /\ m.focus # l.focus
        /\ Len(LongestCommonPrefix({r.focus, l.focus}))
             > Len(LongestCommonPrefix({l.focus, m.focus}))
    BY <2>1, <2>2, <2>3, <2>4, RoundTrip
  <2> QED
    BY <2>1, <2>3, <2>4, <2>5
<1> QED
  BY <1>1, InitInv, NextInv, PTL DEF Spec
=============================================================================
