------------------------------ MODULE Prompts ------------------------------
(***************************************************************************)
(* The overlays of the shell: a tab rename, the tab menu and the colour    *)
(* picker, the close prompt and the Claude command awaiting an answer,     *)
(* while the user, the terminals and MCP callers open panes, close them    *)
(* and move the focus under them.                                          *)
(*                                                                         *)
(* One action is one message, handled to its end (modules Overlays and     *)
(* ShellCore).  The pointer is free, whatever is drawn over the window: a  *)
(* click may be in the batch of the message that opens the overlay.        *)
(***************************************************************************)
EXTENDS ShellCore

CONSTANTS
  Launches,    \* the kinds of launch asked for
  Exits,       \* how terminals exit: cleanly (TRUE) or not
  Pressed,     \* the keys pressed: Enter, Escape, chords of actions, menu entries
  MaxPresses   \* the longest run of keys one MCP request presses

PromptsAssumption ==
  /\ Launches \subseteq LaunchKind
  /\ Exits \subseteq BOOLEAN
  /\ MaxTabs \in Nat
  /\ ClosePolicy \in {"alwaysConfirm", "confirmWhenActive", "noConfirmation"}
  /\ Pressed \subseteq {"Enter", "Escape"} \cup ActionName \cup DOMAIN EntryKey
  /\ MaxPresses \in Nat

VARIABLES
  desk,    \* the shell
  unread,  \* an MCP caller armed the command within the last 600 ms
  drawn    \* the tab the close card's button names as last drawn, 0 with no card

vars == <<desk, unread, drawn>>

Tabs == TabsOf(desk)
TabIndex == 1 .. MaxTabs
Pending == desk.command # NoCommand

Init == desk = NewShell /\ unread = FALSE /\ drawn = 0

-----------------------------------------------------------------------------
(***************************************************************************)
(* Messages.                                                               *)
(***************************************************************************)

(* A session that closed takes its screen and its entry in the registry along; one
   that exited is idle no more, and one back at its shell shows no Claude prompt. *)
Kept(sh) ==
  [sh EXCEPT !.ready = {s \in @ : RunsClaude(sh, s) /\ sh.app.live[s].status # "Exited"},
             !.left = @ \cap Registered(sh.app)]

Update(handled) == desk' = Kept(Follow(desk, handled)) /\ UNCHANGED drawn

(* The window is drawn again after a batch of messages. *)
Draw ==
  /\ drawn' = desk.closing
  /\ desk' = [desk EXCEPT !.typed = <<>>]
  /\ UNCHANGED unread

(* What every message starts with, *)
Received == DropStaleLists([desk EXCEPT !.typed = <<>>])

(* and what a gesture elsewhere in the window does first: it commits the rename. *)
Elsewhere == CommitTabRename(Received)

(* A message of the user or of a terminal.  The 600 ms go on. *)
ByUser(handled) == Update(handled) /\ unread' = (unread /\ desk'.command # NoCommand)

(* A request of an MCP caller: what it armed is news to the user. *)
ByCaller(Serve(_)) ==
  /\ Update(ForRemoteCaller(Serve, Received))
  /\ unread' = (desk'.command # NoCommand /\ (unread \/ desk'.command # desk.command))

(* The user. *)
LaunchSession(launch, cwd) ==
  Len(desk.app.ws.tabs) < MaxTabs /\ ByUser(LaunchAt(Elsewhere, launch, cwd, "Foreground"))
(* A new Claude asked for in the sidebar leaves the rename open. *)
LaunchClaude(cwd) ==
  "Claude" \in Launches /\ Len(desk.app.ws.tabs) < MaxTabs
  /\ ByUser(LaunchAt(Received, "Claude", cwd, "Foreground"))
(* A session of the sidebar that is open already is shown. *)
ShowSession(s) ==
  Hosts(desk, s) /\ desk.app.live[s].launch = "Claude"
  /\ ByUser(DoGesture(Elsewhere, ActivateTab(desk.app, TabOf(desk.app.ws, s))))
FocusPaneOf(s) == ByUser(Do(Elsewhere, FocusPaneAt(desk.app, s)))
RequestCloseTab(i) == ByUser(RequestClose(Elsewhere, i))
ConfirmClose == drawn # 0 /\ ByUser(CloseTabAt(Elsewhere, drawn))
CancelClose == drawn # 0 /\ ByUser([Received EXCEPT !.closing = 0])

RenameTab(i) == ByUser(StartTabRename(Received, i))
TabRenameInput(named) ==
  desk.rename # NoRename /\ ByUser([Received EXCEPT !.rename.named = named])
SubmitTabRename == desk.rename # NoRename /\ ByUser(CommitTabRename(Received))

TabMenuAt(i) ==
  ByUser(IF i \in Tabs THEN OpenTabMenu(DoGesture(Elsewhere, ActivateTab(desk.app, i)))
         ELSE Elsewhere)
TabMenuEntry(key) == Up(desk, "TabMenu") /\ ByUser(RunTabMenuEntry(Received, key))
CloseTabMenu == Up(desk, "TabMenu") /\ ByUser([Received EXCEPT !.menu = NoMenu])
ColorPickerEntry == Up(desk, "ColorPicker") /\ ByUser(PickColor(Received))
CloseColorPicker == Up(desk, "ColorPicker") /\ ByUser([Received EXCEPT !.picker = 0])

ConfirmClaudeCommand == Pending /\ ByUser(Confirm(Received))
CancelClaudeCommand == Pending /\ ByUser(Cancel(Received))
Key(key) == ByUser(PhysicalKey(Received, key))
NotificationClicked(s) ==
  ByUser(IF Owner(Elsewhere) = "None" THEN RevealSession(Elsewhere, s) ELSE Elsewhere)

(* The terminals: of a Claude launch, until its exit, which is the last report. *)
Reporting(s) ==
  s \in Registered(desk.app)
  /\ desk.app.live[s].launch = "Claude" /\ desk.app.live[s].status # "Exited"
ForegroundJob(s, running) ==
  Reporting(s) /\ ByUser([Received EXCEPT !.left = IF running THEN @ \ {s} ELSE @ \cup {s}])
(* A change of its activity, or a screen it drew. *)
ReadyChanged(s, ready) ==
  Reporting(s) /\ ByUser([Received EXCEPT !.ready = IF ready THEN @ \cup {s} ELSE @ \ {s}])
Exit(s, clean) == ByUser(ExitReport(Received, s, clean))

(* MCP callers. *)
PressRuns == UNION {[1 .. n -> Pressed] : n \in 1 .. MaxPresses}
McpPresses(keys) == LET Serve(sh) == Presses(sh, keys) IN ByCaller(Serve)
McpOpen(launch, cwd, placement) ==
  LET Serve(sh) == LaunchAt(sh, launch, cwd, placement)
  IN Len(desk.app.ws.tabs) < MaxTabs /\ ByCaller(Serve)
McpFocus(s) == LET Serve(sh) == RevealSession(sh, s) IN ByCaller(Serve)
McpSplit(s, dir) ==
  LET Serve(sh) == ActSplit(sh, s, dir) IN (s = 0 \/ Hosts(desk, s)) /\ ByCaller(Serve)
McpClose(s) == LET Serve(sh) == ActClose(sh, s) IN (s = 0 \/ Hosts(desk, s)) /\ ByCaller(Serve)
McpCloseBehind(s) == LET Serve(sh) == ActCloseBehind(sh, s) IN Hosts(desk, s) /\ ByCaller(Serve)
McpRename(i) == LET Serve(sh) == NameTab(sh, i) IN i \in Tabs /\ ByCaller(Serve)
McpClaudeCommand(s) == LET Serve(sh) == Arm(sh, s) IN ByCaller(Serve)

(* 600 ms after an MCP caller armed the command. *)
GracePasses ==
  /\ desk.command.soon
  /\ desk' = [desk EXCEPT !.command.soon = FALSE, !.typed = <<>>]
  /\ unread' = FALSE
  /\ UNCHANGED drawn

ByPointer ==
  \/ \E s \in SessionId : FocusPaneOf(s) \/ ShowSession(s)
  \/ \E i \in TabIndex : RequestCloseTab(i) \/ RenameTab(i) \/ TabMenuAt(i)
  \/ \E key \in Pressed \cap DOMAIN EntryKey : TabMenuEntry(key)
  \/ ConfirmClose \/ CancelClose \/ SubmitTabRename \/ CloseTabMenu
  \/ ColorPickerEntry \/ CloseColorPicker
  \/ ConfirmClaudeCommand \/ CancelClaudeCommand

Next ==
  \/ \E l \in Launches, c \in Cwd : LaunchSession(l, c)
  \/ \E c \in Cwd : LaunchClaude(c)
  \/ ByPointer
  \/ \E named \in BOOLEAN : TabRenameInput(named)
  \/ \E key \in Pressed : Key(key)
  \/ \E s \in SessionId : NotificationClicked(s) \/ McpFocus(s)
  \/ \E s \in SessionId, b \in BOOLEAN : ForegroundJob(s, b) \/ ReadyChanged(s, b)
  \/ \E s \in SessionId, clean \in Exits : Exit(s, clean)
  \/ \E keys \in PressRuns : McpPresses(keys)
  \/ \E l \in Launches, c \in Cwd : McpOpen(l, c, "Background")
  \/ \E s \in SessionId \cup {0} : McpClose(s) \/ McpSplit(s, "Vertical")
  \/ \E s \in SessionId : McpCloseBehind(s) \/ McpClaudeCommand(s)
  \/ \E i \in TabIndex : McpRename(i)
  \/ GracePasses
  \/ Draw

Spec == Init /\ [][Next]_vars

-----------------------------------------------------------------------------
(* The overlays are what their fields say, `remote` is down between messages, and
   no more than one command is typed by a message of one key. *)
TypeOK ==
  /\ Registered(desk.app) \in SUBSET SessionId
  /\ desk.closing \in Tabs \cup {0}
  /\ desk.rename \in [anchor : SessionId \cup {0}, named : BOOLEAN]
  /\ desk.menu \in [anchor : SessionId \cup {0}, offers : SUBSET ActionName]
  /\ desk.picker \in SessionId \cup {0}
  /\ desk.command \in [session : SessionId \cup {0}, soon : BOOLEAN]
  /\ desk.ready \cup desk.left \subseteq Registered(desk.app)
  /\ desk.ready \cap desk.left = {}
  /\ desk.drag = NoDrag /\ ~desk.remote
  /\ desk.typed \in Seq(SessionId) /\ unread \in BOOLEAN
  /\ drawn \in TabIndex \cup {0}

-----------------------------------------------------------------------------
(***************************************************************************)
(* What a message may never do.                                            *)
(***************************************************************************)

Escaped ==
  \/ CancelClaudeCommand \/ Key("Escape")
  \/ \E keys \in PressRuns : "Escape" \in Range(keys) /\ McpPresses(keys)

Several == \E keys \in PressRuns : Len(keys) > 1 /\ McpPresses(keys)

(* A command the user is asked about is answered: whatever arms another, renames,
   launches or moves the focus meanwhile, it goes only by being typed, by being
   turned down, or with the pane it is for.  And only what was asked about is
   typed, into a session idle at an empty prompt then, not when it was armed. *)
CommandAnswered ==
  [][LET s == desk.command.session
     IN /\ desk'.typed # <<>> =>
             (Pending /\ desk'.typed = <<s>> /\ CanTake(desk, s)) \/ Several
        /\ Pending =>
             \/ desk'.command.session = s
             \/ s \in Range(desk'.typed)
             \/ ~Hosts(desk', s)
             \/ Escaped]_vars

(* An Enter on its way from the user's fingers when an MCP caller arms a command,
   by whichever request, does not answer for it. *)
ReadBeforeEnter == [][unread /\ desk'.typed # <<>> => ~Key("Enter")]_vars

Pressing(key) ==
  \/ key \in Pressed /\ Key(key)
  \/ \E keys \in PressRuns : key \in Range(keys) /\ McpPresses(keys)

Restarted ==
  (\E i \in TabIndex : RenameTab(i)) \/ TabMenuEntry("MenuRename") \/ Pressing("RenameTab")

(* A rename under way stays on the tab it was opened on, wherever the tab is moved:
   no reorder takes it to a neighbour.  A close of the pane it is anchored on, while
   its tab has another, moves it to that one rather than drop what was typed. *)
RenameKept ==
  [][LET s == desk.rename.anchor
         panes == HostedBy(desk.app.ws.tabs[TabOf(desk.app.ws, s)])
         left == panes \cap HostedIn(desk'.app.ws)
     IN desk.rename # NoRename /\ Hosts(desk, s) /\ left # {} =>
          \/ desk'.rename.anchor \in left
          \/ desk'.rename = NoRename /\ s \in left
          \/ Restarted]_vars

(* A list over a pane that lost the focus is gone: focus coming back to the pane
   revives neither the menu nor the picker, only reopening it does. *)
ListsNotRevived ==
  [][/\ Live(desk', desk'.menu.anchor) /\ ~Live(desk, desk.menu.anchor) =>
          (\E i \in TabIndex : TabMenuAt(i)) \/ Pressing("OpenTabMenu")
     /\ Live(desk', desk'.picker) /\ ~Live(desk, desk.picker) =>
          \/ TabMenuEntry("MenuColor")
          \/ Pressing("PickTabColor") \/ Pressing("MenuColor")]_vars
=============================================================================
