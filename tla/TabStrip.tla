------------------------------ MODULE TabStrip ------------------------------
(***************************************************************************)
(* The tab strip (crates/core/src/workspace.rs): the operations of         *)
(* `Workspace` as functions of a workspace w = [tabs, active].             *)
(*                                                                         *)
(* A tab is a pane layout (module PaneTree) with its parked flag.  The     *)
(* parked tabs form a zone at the end of the strip.  Indices start at 1    *)
(* where the code's start at 0; `active` means nothing in an empty strip.  *)
(* An operation the code refuses by returning None leaves w as it is.      *)
(***************************************************************************)
EXTENDS PaneTree

NewTab(s) == [layout |-> NewLayout(s), parked |-> FALSE]

EmptyWorkspace == [tabs |-> <<>>, active |-> 1]

HostedBy(tab) == Hosted(tab.layout)
HostedIn(w) == UNION {HostedBy(w.tabs[i]) : i \in DOMAIN w.tabs}
TabOf(w, s) == CHOOSE i \in DOMAIN w.tabs : s \in HostedBy(w.tabs[i])

(* The index of the first parked tab, or one past the strip. *)
FirstParked(tabs) ==
  CHOOSE n \in 1 .. Len(tabs) + 1 :
    /\ \A i \in 1 .. n - 1 : ~tabs[i].parked
    /\ n <= Len(tabs) => tabs[n].parked

(* Mutant of UnparkedFallback: blind to the parked zone. *)
SlotFallback(tabs, slot) == IF slot <= Len(tabs) THEN slot ELSE IF tabs = <<>> THEN 1 ELSE Len(tabs)

(* The unparked tab nearest a slot: the one at it, else the last unparked one;
   the last tab when every tab is parked. *)
UnparkedFallback(tabs, slot) ==
  LET last == IF FirstParked(tabs) > 1 THEN FirstParked(tabs) - 1 ELSE Len(tabs)
  IN IF slot <= last THEN slot ELSE IF last > 0 THEN last ELSE 1

(***************************************************************************)
(* Opening.                                                                *)
(***************************************************************************)

(* A new tab goes before the parked zone.  An active index at or past it named
   a parked tab, all of them being parked: the new tab takes over. *)
InsertTab(w, tab) ==
  LET at == FirstParked(w.tabs)
  IN [tabs |-> InsertAt(w.tabs, at, tab),
      active |-> IF w.active >= at THEN at ELSE w.active]

AppendTab(w, s) == InsertTab(w, NewTab(s))

OpenTab(w, s) == [AppendTab(w, s) EXCEPT !.active = FirstParked(w.tabs)]

(***************************************************************************)
(* Reordering.                                                             *)
(***************************************************************************)

(* Mutant of ShiftIndex: the tab at the slot inserted into does not move. *)
ShiftIndexPast(i, from, to) ==
  LET removed == IF i > from THEN i - 1 ELSE i
  IN IF i = from THEN to ELSE IF removed > to THEN removed + 1 ELSE removed

(* Where index i lands once the tab at `from` is taken out and put in at `to`. *)
ShiftIndex(i, from, to) ==
  LET removed == IF i > from THEN i - 1 ELSE i
  IN IF i = from THEN to ELSE IF removed >= to THEN removed + 1 ELSE removed

(* Mutant of Relocate: the two tabs change places. *)
Swap(w, from, to, parked) ==
  LET tab == [w.tabs[from] EXCEPT !.parked = parked]
      tabs == [w.tabs EXCEPT ![to] = tab, ![from] = IF from = to THEN tab ELSE w.tabs[to]]
      shifted == IF w.active = from THEN to ELSE IF w.active = to THEN from ELSE w.active
  IN [tabs |-> tabs,
      active |-> IF tabs[shifted].parked /\ FirstParked(tabs) > 1
                 THEN UnparkedFallback(tabs, from)
                 ELSE shifted]

(* The active index follows its tab, unless that tab is now parked while some
   tab is not: then the unparked tab nearest the slot it left takes over. *)
Relocate(w, from, to, parked) ==
  LET tab == [w.tabs[from] EXCEPT !.parked = parked]
      tabs == InsertAt(RemoveAt(w.tabs, from), to, tab)
      shifted == ShiftIndex(w.active, from, to)
  IN [tabs |-> tabs,
      active |-> IF tabs[shifted].parked /\ FirstParked(tabs) > 1
                 THEN UnparkedFallback(tabs, from)
                 ELSE shifted]

(* Park moves a tab to the front of the parked zone, unpark to the end of the
   unparked one. *)
Park(w, i) == Relocate(w, i, FirstParked(w.tabs) - 1, TRUE)
Unpark(w, i) == Relocate(w, i, FirstParked(w.tabs), FALSE)

ToggleParked(w, i) == IF w.tabs[i].parked THEN Unpark(w, i) ELSE Park(w, i)

Activate(w, i) ==
  IF w.tabs[i].parked
  THEN [Unpark(w, i) EXCEPT !.active = FirstParked(w.tabs)]
  ELSE [w EXCEPT !.active = i]

(* A moved tab takes the zone it lands in; on the boundary it keeps its own. *)
Move(w, from, to) ==
  LET was == w.tabs[from].parked
      boundary == IF was THEN FirstParked(w.tabs) ELSE FirstParked(w.tabs) - 1
  IN IF from = to THEN w
     ELSE Relocate(w, from, to, to > boundary \/ (to = boundary /\ was))

(* The tab one step away among the unparked ones, for a strip that has some. *)
CycledTab(w, step) == IndexAfter(step, w.active, FirstParked(w.tabs) - 1)

(***************************************************************************)
(* Closing.                                                                *)
(***************************************************************************)

(* Mutant of CloseAt: closing the shown tab shows the one before its slot. *)
CloseAtLeftward(w, i) ==
  [tabs |-> RemoveAt(w.tabs, i), active |-> IF w.active < i THEN w.active ELSE w.active - 1]

(* The tab after the closed one slides into its slot.  The active index follows
   its tab; when that is the one closed, the unparked tab nearest takes over. *)
CloseAt(w, i) ==
  LET tabs == RemoveAt(w.tabs, i)
  IN [tabs |-> tabs,
      active |-> IF w.active = i THEN UnparkedFallback(tabs, i)
                 ELSE IF w.active > i THEN w.active - 1 ELSE w.active]

(* Close the leaf of a session of the tab at i; a lone leaf takes its tab along. *)
CloseLeafAt(w, i, s) ==
  IF HostedBy(w.tabs[i]) = {s} THEN CloseAt(w, i)
  ELSE [w EXCEPT !.tabs[i].layout = CloseLeaf(@, s)]

ClosePaneOf(w, s) == CloseLeafAt(w, TabOf(w, s), s)

(***************************************************************************)
(* Panes.                                                                  *)
(***************************************************************************)

(* The tab shown, its first session (the handle by which it is recognised) and
   the session with the focus, for a strip with some tab. *)
Shown(w) == w.tabs[w.active]
ShownSession(w) == FirstSession(Shown(w).layout)
FocusedIn(w) == FocusedSession(Shown(w).layout)

SplitShown(w, d, s) == [w EXCEPT !.tabs[w.active].layout = SplitFocus(@, d, s)]
FocusPane(w, s) == [w EXCEPT !.tabs[w.active].layout = FocusOn(@, s)]
Reveal(w, s) == FocusPane(Activate(w, TabOf(w, s)), s)
CyclePanes(w, step) == [w EXCEPT !.tabs[w.active].layout = CycleFocus(@, step)]
FocusDir(w, d) == [w EXCEPT !.tabs[w.active].layout = FocusDirOf(@, d)]
=============================================================================
