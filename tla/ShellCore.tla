------------------------------ MODULE ShellCore ------------------------------
(***************************************************************************)
(* The shell around the core (crates/app/src/shell.rs, shell/session_ops.rs,*)
(* launch.rs, routing.rs, orchestrate.rs, effects.rs): what one message    *)
(* does, as functions from a shell sh to the next.  To the fields module   *)
(* Overlays describes it adds                                              *)
(*                                                                         *)
(*   sh.drag     the chip held and the slot under it, or NoDrag            *)
(***************************************************************************)
EXTENDS Overlays

CONSTANTS
  MaxTabs,     \* no launch is asked for with more tabs open
  ClosePolicy  \* the `close.tab` setting

(* The actions a chord runs: on the tabs and panes, a split being named by its
   orientation, and those that open an overlay. *)
TabAction ==
  {"CloseFocused", "ReopenClosedTab", "TogglePark", "NextTab", "PrevTab",
   "FocusNext", "FocusPrev"} \cup SplitDir
OverlayAction == {"RenameTab", "OpenTabMenu", "PickTabColor", "SendToDesktop"}
ActionName == TabAction \cup OverlayAction

(* Walking an open tab menu to an entry and running it is one key here; Enter
   alone runs the first entry. *)
EntryKey ==
  [MenuRename |-> "RenameTab", MenuColor |-> "PickTabColor", MenuSplit |-> "Vertical",
   MenuPark |-> "TogglePark", MenuClose |-> "CloseFocused"]

TabsOf(sh) == DOMAIN sh.app.ws.tabs

NoDrag == [from |-> 0, over |-> 0]

NewShell ==
  [app |-> NoApp, closing |-> 0, drag |-> NoDrag, rename |-> NoRename, menu |-> NoMenu,
   picker |-> 0, command |-> NoCommand, remote |-> FALSE, ready |-> {}, left |-> {},
   typed |-> <<>>]

-----------------------------------------------------------------------------
(***************************************************************************)
(* Effects.  Only TabShown reaches back into the shell's state.            *)
(***************************************************************************)

(* Mutant of Perform: the prompt outlives a switch of tab. *)
PerformKeepingPrompt(sh, r) == [sh EXCEPT !.app = r.app]

Perform(sh, r) ==
  [sh EXCEPT !.app = r.app,
             !.closing = IF TabShown \in Range(r.effects) THEN 0 ELSE @]

Do(sh, r) == Perform(sh, Settled(sh.app, r))
DoGesture(sh, r) == Perform(sh, Gesture(r))

-----------------------------------------------------------------------------
(***************************************************************************)
(* Closing.                                                                *)
(***************************************************************************)

Confirms(running) ==
  \/ ClosePolicy = "alwaysConfirm"
  \/ ClosePolicy = "confirmWhenActive" /\ running

CloseTabAt(sh, i) == Do([sh EXCEPT !.closing = 0], CloseTab(sh.app, i))

(* Mutant of RequestClose: the pane in focus decides for the whole tab. *)
RequestCloseByFocus(sh, i) ==
  LET s == FocusedSession(sh.app.ws.tabs[i].layout)
  IN CASE sh.closing # 0 \/ i \notin TabsOf(sh) -> sh
       [] sh.closing = 0 /\ i \in TabsOf(sh) /\ Confirms(HasRunningProcess(sh.app.live[s])) ->
            [sh EXCEPT !.closing = i]
       [] OTHER -> CloseTabAt(sh, i)

(* Arm the prompt or close at once, as the policy says.  A prompt already up
   refuses the request, and so does an index past the strip. *)
RequestClose(sh, i) ==
  CASE sh.closing # 0 \/ i \notin TabsOf(sh) -> sh
    [] sh.closing = 0 /\ i \in TabsOf(sh) /\ Confirms(TabHasRunningProcess(sh.app, i)) ->
         [sh EXCEPT !.closing = i]
    [] OTHER -> CloseTabAt(sh, i)

AfterRemoval(i, removed) ==
  CASE i < removed -> i [] i = removed -> 0 [] i > removed -> i - 1

DragAfterRemoval(drag, removed) ==
  LET from == AfterRemoval(drag.from, removed)
      over == AfterRemoval(drag.over, removed)
  IN IF from = 0 THEN NoDrag ELSE [from |-> from, over |-> IF over = 0 THEN from ELSE over]

(* Mutant of AfterPaneVanished: the indices stay as they are. *)
IndicesStay(a, sh, s) == sh

(* The pane of s, which stood where a has it, was closed: the overlays on it go,
   and the indices follow the strip when it took its tab with it. *)
AfterPaneVanished(a, sh, s) ==
  LET left == AfterClosed(a, sh, s)
  IN IF s \in HostedIn(a.ws) /\ HostedBy(a.ws.tabs[TabOf(a.ws, s)]) = {s}
     THEN [left EXCEPT !.closing = AfterRemoval(@, TabOf(a.ws, s)),
                       !.drag = DragAfterRemoval(@, TabOf(a.ws, s))]
     ELSE left

(* Close the pane in focus after a reveal whose effects are yet to be performed. *)
CloseFocusedAfter(sh, revealed) ==
  LET a == revealed.app
      closed == Settled(a, CloseFocusedPane(a))
      performed == Perform(sh, Answer(closed.app, revealed.effects \o closed.effects))
  IN IF a.ws.tabs = <<>> THEN performed ELSE AfterPaneVanished(a, performed, FocusedIn(a.ws))

(* The close-focused action: only a lone pane, which is its whole tab, asks. *)
CloseFocusedAction(sh) ==
  LET ws == sh.app.ws
  IN IF ws.tabs # <<>> /\ Cardinality(HostedBy(Shown(ws))) > 1
     THEN CloseFocusedAfter(sh, Quiet(sh.app))
     ELSE RequestClose(sh, ws.active)

-----------------------------------------------------------------------------
(***************************************************************************)
(* The keyboard.                                                           *)
(***************************************************************************)

LaunchAt(sh, launch, cwd, placement) ==
  LET done == Do(sh, Launch(sh.app, launch, cwd, placement))
  IN IF placement = "Foreground" THEN [done EXCEPT !.closing = 0] ELSE done

(* A reopen that yields nothing drops no prompt. *)
ReopenAction(sh) ==
  LET r == ReopenClosedTab(sh.app)
  IN IF Len(sh.app.ws.tabs) < MaxTabs /\ r.effects # <<>>
     THEN [Do(sh, r) EXCEPT !.closing = 0] ELSE sh

ToggleParkAction(sh) ==
  IF sh.app.ws.tabs = <<>> THEN sh
  ELSE DoGesture(sh, ToggleParkTab(sh.app, sh.app.ws.active))

CycleTabAction(sh, step) ==
  IF FirstParked(sh.app.ws.tabs) = 1 THEN sh
  ELSE DoGesture(sh, ActivateTab(sh.app, CycledTab(sh.app.ws, step)))

Act(sh, action) ==
  CASE action = "CloseFocused" -> CloseFocusedAction(sh)
    [] action = "ReopenClosedTab" -> ReopenAction(sh)
    [] action = "TogglePark" -> ToggleParkAction(sh)
    [] action \in {"NextTab", "PrevTab"} ->
         CycleTabAction(sh, IF action = "NextTab" THEN "Next" ELSE "Prev")
    [] action \in {"FocusNext", "FocusPrev"} ->
         Do(sh, FocusNeighbour(sh.app, IF action = "FocusNext" THEN "Next" ELSE "Prev"))
    [] action \in SplitDir -> Do(sh, SplitFocused(sh.app, action))
    [] action = "RenameTab" -> StartTabRename(sh, sh.app.ws.active)
    [] action = "OpenTabMenu" -> OpenTabMenu(sh)
    [] action = "PickTabColor" -> OpenColorPicker(sh)
    [] action = "SendToDesktop" -> ArmFocused(sh)

(* The menu closes before its entry runs, which may open an overlay. *)
RunTabMenuEntry(sh, key) ==
  LET action == EntryKey[key]
      offered == Live(sh, sh.menu.anchor)
                 /\ (action \in {"PickTabColor", "TogglePark"} => action \in sh.menu.offers)
      closed == [sh EXCEPT !.menu = NoMenu]
  IN IF offered THEN Act(closed, action) ELSE closed

Answered(sh, key) ==
  CASE Owner(sh) = "TabRename" ->
         IF key = "Enter" THEN CommitTabRename(sh) ELSE [sh EXCEPT !.rename = NoRename]
    [] Owner(sh) = "TabClose" ->
         IF key = "Enter" THEN CloseTabAt(sh, sh.closing) ELSE [sh EXCEPT !.closing = 0]
    [] Owner(sh) = "ClaudeCommand" -> IF key = "Enter" THEN Confirm(sh) ELSE Cancel(sh)
    [] Owner(sh) = "TabMenu" ->
         IF key = "Enter" THEN RunTabMenuEntry(sh, "MenuRename") ELSE [sh EXCEPT !.menu = NoMenu]
    [] Owner(sh) = "ColorPicker" -> IF key = "Enter" THEN PickColor(sh) ELSE [sh EXCEPT !.picker = 0]

(* What holds the keyboard swallows every key, and answers Enter and Escape, which
   go to the terminal when nothing does. *)
PressKey(sh, key) ==
  CASE Owner(sh) # "None" /\ key \in {"Enter", "Escape"} -> Answered(sh, key)
    [] Owner(sh) = "TabMenu" /\ key \in DOMAIN EntryKey -> RunTabMenuEntry(sh, key)
    [] Owner(sh) = "None" /\ key \in ActionName -> Act(sh, key)
    [] OTHER -> sh

(* A physical Enter is held back from a command an MCP caller has just armed. *)
PhysicalKey(sh, key) == IF key = "Enter" /\ sh.command.soon THEN sh ELSE PressKey(sh, key)

(* The run of keys of one MCP request. *)
Press(sh, key) == PressKey(DropStaleLists(sh), key)
Presses(sh, keys) == FoldLeft(Press, sh, keys)

-----------------------------------------------------------------------------
(***************************************************************************)
(* MCP callers.  A handle no pane hosts is rejected before anything moves. *)
(***************************************************************************)

(* Reveal the pane named, 0 naming none, without performing the effects. *)
Retarget(sh, s) == IF s = 0 THEN Quiet(sh.app) ELSE Settled(sh.app, RevealPane(sh.app, s))

ActSplit(sh, s, dir) ==
  LET revealed == Retarget(sh, s)
      split == Settled(revealed.app, SplitFocused(revealed.app, dir))
  IN Perform(sh, Answer(split.app, revealed.effects \o split.effects))

ActClose(sh, s) == CloseFocusedAfter(sh, Retarget(sh, s))

ActCloseBehind(sh, s) == AfterPaneVanished(sh.app, Do(sh, ClosePane(sh.app, s)), s)

RevealSession(sh, s) == Do(sh, RevealPane(sh.app, s))

-----------------------------------------------------------------------------
(***************************************************************************)
(* The terminals and the pointer.                                          *)
(***************************************************************************)

ExitReport(sh, s, clean) ==
  LET r == Settled(sh.app, PtyExited(sh.app, s, clean))
      performed == Perform(sh, r)
  IN IF r.effects = <<>> THEN performed ELSE AfterPaneVanished(sh.app, performed, s)

DragStarted(sh, i) ==
  IF i \in TabsOf(sh) THEN [sh EXCEPT !.drag = [from |-> i, over |-> i]] ELSE sh

DraggedOver(sh, i) ==
  IF sh.drag # NoDrag /\ i \in TabsOf(sh) THEN [sh EXCEPT !.drag.over = i] ELSE sh

(* A release over another chip moves the tab there, one over its own is a click. *)
DragReleased(sh) ==
  LET released == [sh EXCEPT !.drag = NoDrag]
  IN CASE sh.drag = NoDrag -> sh
       [] sh.drag # NoDrag /\ sh.drag.from # sh.drag.over ->
            Do(released, MoveTab(sh.app, sh.drag.from, sh.drag.over))
       [] OTHER -> DoGesture(released, ActivateTab(sh.app, sh.drag.from))

-----------------------------------------------------------------------------
(***************************************************************************)
(* `TabAnchors`: after each message the indices it left as they were are   *)
(* pointed back at their tabs, recognised by their first sessions.         *)
(***************************************************************************)

Anchored(sh, i) == i \in TabsOf(sh)

FollowClosing(before, after) ==
  IF /\ Anchored(before, before.closing)
     /\ after.closing = before.closing
     /\ Hosts(after, FirstAt(before, before.closing))
  THEN TabOf(after.app.ws, FirstAt(before, before.closing))
  ELSE after.closing

FollowDrag(before, after) ==
  LET Now(i) == TabOf(after.app.ws, FirstAt(before, i))
  IN IF /\ Anchored(before, before.drag.from) /\ Anchored(before, before.drag.over)
        /\ after.drag = before.drag
        /\ Hosts(after, FirstAt(before, before.drag.from))
        /\ Hosts(after, FirstAt(before, before.drag.over))
     THEN [from |-> Now(before.drag.from), over |-> Now(before.drag.over)]
     ELSE after.drag

(* Mutant of Follow: no index follows its tab. *)
Unfollowed(before, after) == after

(* Mutant of Follow: the drag is left out. *)
FollowPromptOnly(before, after) == [after EXCEPT !.closing = FollowClosing(before, after)]

Follow(before, after) ==
  [after EXCEPT !.closing = FollowClosing(before, after),
                !.drag = FollowDrag(before, after)]
=============================================================================
