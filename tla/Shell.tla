------------------------------- MODULE Shell --------------------------------
(***************************************************************************)
(* The shell as a state machine: what it keeps by tab index, the close      *)
(* prompt and the tab drag, while messages of the keyboard, the pointer,   *)
(* the terminals and MCP callers move the tabs.                            *)
(*                                                                         *)
(* One action is one message, handled to its end by `Shell::update` (see   *)
(* module ShellCore).  The prompt is the only overlay here (module Prompts *)
(* has the others), and owns the keyboard while it is up; the pointer is   *)
(* free, since a click may already be in the batch that arms it.           *)
(***************************************************************************)
EXTENDS ShellCore

CONSTANTS
  Launches,    \* the kinds of launch asked for
  SplitDirs,   \* the orientations of the splits asked for
  Reports,     \* the activity the terminals report
  Pressed,     \* the keys pressed: Enter, Escape and the chords of actions
  MaxPresses   \* the longest run of keys one MCP request presses

ASSUME ShellAssumption ==
  /\ Launches \subseteq LaunchKind
  /\ SplitDirs \subseteq SplitDir
  /\ Reports \subseteq Report
  /\ MaxTabs \in Nat
  /\ ClosePolicy \in {"alwaysConfirm", "confirmWhenActive", "noConfirmation"}
  /\ Pressed \subseteq {"Enter", "Escape"} \cup TabAction
  /\ MaxPresses \in Nat

VARIABLES
  shell,
  drawn   \* the tab the close card's button names as last drawn, 0 with no card

vars == <<shell, drawn>>

Tabs == TabsOf(shell)
TabIndex == 1 .. MaxId + 1

Init == shell = NewShell /\ drawn = 0

-----------------------------------------------------------------------------
(* Messages come in batches, and the window is drawn again after each: until then
   the card's buttons send what they were drawn with. *)
Draw == drawn' = shell.closing /\ UNCHANGED shell

Update(handled) == shell' = Follow(shell, handled) /\ UNCHANGED drawn

LaunchSession(launch, cwd, placement) ==
  Len(shell.app.ws.tabs) < MaxTabs /\ Update(LaunchAt(shell, launch, cwd, placement))
RequestCloseTab(i) == Update(RequestClose(shell, i))
(* A click on the card: the index drawn is closed, whatever is asked about by now. *)
ConfirmClose == drawn # 0 /\ Update(CloseTabAt(shell, drawn))
CancelClose == drawn # 0 /\ Update([shell EXCEPT !.closing = 0])
Keys(presses) == Update(Presses(shell, presses))

FocusPaneOf(s) == Update(Do(shell, FocusPaneAt(shell.app, s)))
TabDragStart(i) == Update(DragStarted(shell, i))
TabDragOver(i) == Update(DraggedOver(shell, i))
TabDragEnd == Update(DragReleased(shell))
Unfocused == Update([shell EXCEPT !.drag = NoDrag])

StatusReport(s, r) == Update(Do(shell, StatusChanged(shell.app, s, r)))
Exit(s, clean) == Update(ExitReport(shell, s, clean))
NotificationClicked(s) == shell.closing = 0 /\ Update(RevealSession(shell, s))
OpenLink(path) == Update(DoGesture(shell, OpenRepo(shell.app, path, path)))

McpFocus(s) == Update(RevealSession(shell, s))
McpSplit(s, dir) == (s = 0 \/ Hosts(shell, s)) /\ Update(ActSplit(shell, s, dir))
McpClose(s) == (s = 0 \/ Hosts(shell, s)) /\ Update(ActClose(shell, s))
McpCloseBehind(s) == Hosts(shell, s) /\ Update(ActCloseBehind(shell, s))

(* Runs of keys, the ones an MCP caller may send in one request. *)
PressRuns == UNION {[1 .. n -> Pressed] : n \in 1 .. MaxPresses}

Next ==
  \/ \E l \in Launches, c \in Cwd, p \in {"Foreground", "Background"} :
       LaunchSession(l, c, p)
  \/ \E i \in TabIndex : RequestCloseTab(i) \/ TabDragStart(i) \/ TabDragOver(i)
  \/ \E presses \in PressRuns : Keys(presses)
  \/ \E s \in SessionId : FocusPaneOf(s) \/ NotificationClicked(s) \/ McpFocus(s)
  \/ \E s \in SessionId, r \in Reports : StatusReport(s, r)
  \/ \E s \in SessionId, clean \in BOOLEAN : Exit(s, clean)
  \/ \E s \in SessionId \cup {0} : McpClose(s) \/ \E d \in SplitDirs : McpSplit(s, d)
  \/ \E s \in SessionId : McpCloseBehind(s)
  \/ \E path \in Cwd : OpenLink(path)
  \/ ConfirmClose
  \/ CancelClose
  \/ TabDragEnd
  \/ Unfocused
  \/ Draw

Spec == Init /\ [][Next]_vars

-----------------------------------------------------------------------------
(* A prompt that is up names a tab that is there: with an index past the strip
   the card would not be drawn, and the prompt no one sees would swallow every
   key. *)
TypeOK ==
  /\ shell = [NewShell EXCEPT !.app = shell.app, !.closing = shell.closing, !.drag = shell.drag]
  /\ Registered(shell.app) \in SUBSET SessionId
  /\ shell.closing \in Tabs \cup {0}
  /\ shell.drag \in [from : TabIndex \cup {0}, over : TabIndex \cup {0}]
  /\ drawn \in TabIndex \cup {0}

-----------------------------------------------------------------------------
(***************************************************************************)
(* What a message may never do.                                            *)
(***************************************************************************)

(* The tab at i before the step and the tab at j after it share a session. *)
Same(i, j) ==
  /\ i \in Tabs /\ j \in Tabs'
  /\ HostedBy(shell.app.ws.tabs[i]) \cap HostedBy(shell'.app.ws.tabs[j]) # {}

Prompting == shell.closing # 0
Dragging == shell.drag # NoDrag

(* A prompt left up names the tab it named before, wherever an exit, an unpark,
   a drag or an MCP caller moved that tab: Enter never closes its neighbour. *)
PromptFollowsTab ==
  [][Prompting /\ Prompting' => Same(shell.closing, shell'.closing)]_shell

(* Another tab coming to be shown drops the prompt, whichever message moved the
   view: a stray Enter must not confirm a prompt for a tab out of sight. *)
PromptDroppedOnSwitch ==
  [][Prompting /\ Prompting' => Same(shell.app.ws.active, shell'.app.ws.active)]_shell

(* The user's own gestures. *)
ByHand ==
  \/ \E i \in TabIndex : RequestCloseTab(i) \/ TabDragStart(i) \/ TabDragOver(i)
  \/ \E key \in Pressed : Keys(<<key>>)
  \/ ConfirmClose \/ CancelClose \/ TabDragEnd \/ Unfocused

(* Under the default policy no gesture of the user closes a tab that runs
   something, but the one answering the prompt that names it.  The one way past
   that is in the code: a click on a card drawn before the strip moved, or before
   the prompt went, closes what is at the card's index by now. *)
RunningTabConfirmed ==
  [][\/ \A i \in Tabs :
          TabHasRunningProcess(shell.app, i) /\ (\A j \in Tabs' : ~Same(i, j)) =>
            shell.closing = i \/ (ConfirmClose /\ drawn = i)
     \/ ~ByHand]_shell

DragOn ==
  /\ {shell.drag.from, shell.drag.over} \subseteq Tabs
  /\ Dragging'
  /\ ~\E i \in TabIndex : TabDragStart(i) \/ TabDragOver(i)

HeldTabKept ==
  /\ Same(shell.drag.from, shell'.drag.from)
  /\ \/ shell'.drag.over = shell'.drag.from
     \/ Same(shell.drag.over, shell'.drag.over)

(* What moves tabs under a held chip without the user: the terminals' reports,
   the launches and the background closes. *)
Behind ==
  \/ \E l \in Launches, c \in Cwd, p \in {"Foreground", "Background"} : LaunchSession(l, c, p)
  \/ \E s \in SessionId, r \in Reports : StatusReport(s, r)
  \/ \E s \in SessionId, clean \in BOOLEAN : Exit(s, clean)
  \/ \E s \in SessionId : McpCloseBehind(s) \/ McpFocus(s)

(* Through all of them the chip held stays the tab it was, and so does the slot
   aimed at, or the release is a plain click. *)
DragFollowsTab == [][HeldTabKept \/ ~(DragOn /\ Behind)]_shell
-----------------------------------------------------------------------------
(***************************************************************************)
(* What the docs say of a message and the code does not do.                *)
(***************************************************************************)

(* "A close prompt or tab drag the user has under way stays on the tab it named"
   through a background close (docs/src/mcp/live-bridge.md), as long as that tab
   is there to stay on, and the view stays on the tab it shows. *)
PromptOutlivesBackgroundClose ==
  [][\A s \in SessionId :
       /\ McpCloseBehind(s)
       /\ \E j \in Tabs' : Same(shell.closing, j)
       /\ Same(shell.app.ws.active, shell'.app.ws.active)
       => Prompting']_shell

(* "A tab no longer found is left to the message, which already dealt with its
   close" (`TabAnchors::follow`): whatever closes, a chip that is still held is
   the one it was. *)
CloseDealsWithDrag ==
  [][DragOn /\ shell'.drag.from \in Tabs' => Same(shell.drag.from, shell'.drag.from)]_shell

(* `TabAnchors::follow` points back "the state the message left untouched": a
   prompt dropped and armed again within one run of keys, for the tab on screen,
   names the tab on screen. *)
RearmedPromptKept ==
  [][Prompting' /\ shell'.closing # shell'.app.ws.active =>
       ~\E presses \in PressRuns : presses[1] = "Escape" /\ Keys(presses)]_shell
=============================================================================
