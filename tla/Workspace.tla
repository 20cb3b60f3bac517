----------------------------- MODULE Workspace ------------------------------
(***************************************************************************)
(* The workspace as a state machine: every operation of `Workspace`        *)
(* (crates/core/src/workspace.rs), in any order, on any tab.               *)
(*                                                                         *)
(* Session ids are opaque here; the registry that mints them is in module  *)
(* App.  An id opens at most one pane at a time.                           *)
(***************************************************************************)
EXTENDS TabStrip

CONSTANT Sessions

VARIABLE ws

Tabs == DOMAIN ws.tabs
Unhosted == Sessions \ HostedIn(ws)

Init == ws = EmptyWorkspace

Open(s) == s \in Unhosted /\ ws' = OpenTab(ws, s)
AppendBehind(s) == s \in Unhosted /\ ws' = AppendTab(ws, s)
Split(d, s) == Tabs # {} /\ s \in Unhosted /\ ws' = SplitShown(ws, d, s)

TogglePark(i) == ws' = ToggleParked(ws, i)
ActivateAt(i) == ws' = Activate(ws, i)
MoveFrom(from, to) == ws' = Move(ws, from, to)

Close(i) == ws' = CloseAt(ws, i)
CloseFocused == Tabs # {} /\ ws' = CloseLeafAt(ws, ws.active, FocusedIn(ws))
CloseSession(s) == s \in HostedIn(ws) /\ ws' = ClosePaneOf(ws, s)

CycleFocused(step) == Tabs # {} /\ ws' = CyclePanes(ws, step)
FocusPaneOf(s) == Tabs # {} /\ s \in HostedBy(Shown(ws)) /\ ws' = FocusPane(ws, s)
RevealPaneOf(s) == s \in HostedIn(ws) /\ ws' = Reveal(ws, s)
FocusDirection(d) == Tabs # {} /\ ws' = FocusDir(ws, d)

Next ==
  \/ \E s \in Sessions : Open(s) \/ AppendBehind(s)
  \/ \E s \in Sessions, d \in SplitDir : Split(d, s)
  \/ \E i \in Tabs : TogglePark(i) \/ ActivateAt(i) \/ Close(i)
  \/ \E from, to \in Tabs : MoveFrom(from, to)
  \/ \E s \in Sessions : CloseSession(s) \/ FocusPaneOf(s) \/ RevealPaneOf(s)
  \/ \E step \in {"Next", "Prev"} : CycleFocused(step)
  \/ \E d \in Direction : FocusDirection(d)
  \/ CloseFocused

Spec == Init /\ [][Next]_ws

-----------------------------------------------------------------------------
(***************************************************************************)
(* Safety.                                                                 *)
(***************************************************************************)

LayoutsOf(w) == {w.tabs[i].layout : i \in DOMAIN w.tabs}
TabsOver(L) == [layout : L, parked : BOOLEAN]

LayoutOK(l) ==
  /\ l = [at |-> l.at, dir |-> l.dir, focus |-> l.focus]
  /\ Hosted(l) \in (SUBSET Sessions) \ {{}}

Typed(w) ==
  /\ w \in [tabs : Seq(TabsOver(LayoutsOf(w))), active : Nat \ {0}]
  /\ \A l \in LayoutsOf(w) : LayoutOK(l)

(* Every tab hosts some session, and the active index, which the code holds in
   an unsigned integer, never runs below the first index. *)
TypeOK == Typed(ws)

(* Every parked tab sits after every unparked one. *)
ZonesApart ==
  \A i, j \in Tabs : i < j /\ ws.tabs[i].parked => ws.tabs[j].parked

(* The active index names a tab whenever there is one, and a parked tab is
   shown only while every tab is parked. *)
ActiveShown ==
  Tabs # {} => /\ ws.active \in Tabs
               /\ Shown(ws).parked => \A i \in Tabs : ws.tabs[i].parked

(* A session has a pane in one tab only: tab_of takes the first it meets. *)
SessionsApart ==
  \A i, j \in Tabs : i # j => HostedBy(ws.tabs[i]) \cap HostedBy(ws.tabs[j]) = {}

(* The strip's two zones, the tab shown, and the one tab of each session: what
   insert_tab, relocate and close_tab each assume of the strip they are given,
   so what any sequence of opens, moves, parks and closes must leave behind. *)
StripInv == ZonesApart /\ ActiveShown /\ SessionsApart

(* Through every split and collapse a tab stays a binary tree with each pane
   at one leaf, and its focus path ends on a leaf: what split, close_leaf and
   the focus moves rely on instead of panicking. *)
PanesWellFormed ==
  \A i \in Tabs : IsTree(ws.tabs[i].layout) /\ FocusOnLeaf(ws.tabs[i].layout)

Back(d) == CHOOSE e \in Direction : Axis(e) = Axis(d) /\ Toward(e) # Toward(d)

(* A directional focus move that has a split to cross or wrap around leaves the
   pane, and the reverse move comes back to the side of that split it left: the
   focus can never be carried somewhere the arrows cannot bring it back from. *)
DirectionalRoundTrip ==
  \A i \in Tabs, d \in Direction :
    LET here == ws.tabs[i].layout
        there == FocusDirOf(here, d)
        back == FocusDirOf(there, Back(d))
        Shared(p, q) == LongestCommonPrefix({p, q})
    IN Crossings(here, d) # {} =>
         /\ there.focus # here.focus
         /\ Len(Shared(back.focus, here.focus)) > Len(Shared(here.focus, there.focus))

-----------------------------------------------------------------------------
(***************************************************************************)
(* What a step may never do.                                               *)
(***************************************************************************)

(* The tab at i before the step and the tab at j after it are the same one:
   they share a session. *)
Same(i, j) == HostedBy(ws.tabs[i]) \cap HostedBy(ws'.tabs[j]) # {}

(* Operations that rearrange the strip without asking to see another tab. *)
Rearrange ==
  \/ \E i \in Tabs : TogglePark(i) \/ Close(i)
  \/ \E from, to \in Tabs : MoveFrom(from, to)
  \/ \E s \in Sessions : AppendBehind(s) \/ CloseSession(s)

(* The tab on screen stays on screen through any rearrangement of the strip,
   unless it is closed, or left parked beside a tab that is not. *)
ShownTabKept ==
  [][Rearrange /\ Tabs # {} =>
       \A j \in Tabs' : Same(ws.active, j) /\ ws'.active # j =>
         ws'.tabs[j].parked /\ \E k \in Tabs' : ~ws'.tabs[k].parked]_ws

(* A step moves at most one tab among the others: all the others keep their
   relative order, whichever zone they are in. *)
OthersKeepOrder ==
  [][Tabs # {} => \E moved \in Tabs :
       \A a, b \in Tabs \ {moved} : \A c, d \in Tabs' :
         a < b /\ Same(a, c) /\ Same(b, d) => c < d]_ws

(* Panes that stay together in a tab keep their drawing order, whatever splits,
   collapses or moves the focus, and a pane that has its tab's focus and
   survives a close keeps it, wherever the collapse moves it in the tree. *)
PanesKept ==
  [][\A i \in Tabs, j \in Tabs' :
       LET old == ws.tabs[i].layout.at
           new == ws'.tabs[j].layout.at
           s == FocusedSession(ws.tabs[i].layout)
       IN /\ \A t, u \in DOMAIN old \cap DOMAIN new :
               Before(old[t], old[u]) <=> Before(new[t], new[u])
          /\ (\E k \in Tabs : Close(k)) \/ CloseFocused \/ (\E t \in Sessions : CloseSession(t)) =>
               (s \in DOMAIN new => FocusedSession(ws'.tabs[j].layout) = s)]_ws
=============================================================================
