------------------------------ MODULE Overlays ------------------------------
(***************************************************************************)
(* What holds the keyboard of the shell (crates/app/src/shell/routing.rs,  *)
(* claude_command.rs, tab_menu.rs, color_picker.rs, and the tab rename of  *)
(* shell.rs), as functions of a shell sh, of which these fields matter:    *)
(*                                                                         *)
(*   sh.app      the core (module AppCore)                                 *)
(*   sh.closing  the tab an armed close prompt names, 0 for no prompt      *)
(*   sh.rename   the tab rename under way: the session it is anchored on,  *)
(*               and whether the text asks for another name                *)
(*   sh.menu     the tab menu: the pane it opened over and what was on     *)
(*               offer for it then                                         *)
(*   sh.picker   the pane the colour picker opened over, 0 for no picker   *)
(*   sh.command  the Claude command awaiting an answer: its session, and   *)
(*               whether it is too soon for a physical Enter               *)
(*   sh.remote   an MCP caller is being served                             *)
(*   sh.ready    the Claude launches that are idle, with an empty prompt   *)
(*               on their screen                                           *)
(*   sh.left     the panes launched for a Claude that has exited           *)
(*   sh.typed    the sessions a command was typed into by this message     *)
(*                                                                         *)
(* What a command, a colour or a name says is left out.                    *)
(***************************************************************************)
EXTENDS AppCore

NoRename == [anchor |-> 0, named |-> FALSE]
NoMenu == [anchor |-> 0, offers |-> {}]
NoCommand == [session |-> 0, soon |-> FALSE]

Hosts(sh, s) == s \in HostedIn(sh.app.ws)
FirstAt(sh, i) == FirstSession(sh.app.ws.tabs[i].layout)

(* A list is live while the pane it opened over holds the focus. *)
Live(sh, anchor) == anchor # 0 /\ sh.app.ws.tabs # <<>> /\ FocusedIn(sh.app.ws) = anchor

(* Who owns the keyboard: the first of the ladder that is up. *)
Ladder == <<"TabRename", "TabClose", "ClaudeCommand", "TabMenu", "ColorPicker">>

Up(sh, owner) ==
  \/ owner = "TabRename" /\ sh.rename # NoRename
  \/ owner = "TabClose" /\ sh.closing # 0
  \/ owner = "ClaudeCommand" /\ sh.command # NoCommand
  \/ owner = "TabMenu" /\ Live(sh, sh.menu.anchor)
  \/ owner = "ColorPicker" /\ Live(sh, sh.picker)

Owner(sh) ==
  LET rungs == {n \in DOMAIN Ladder : Up(sh, Ladder[n])}
  IN IF rungs = {} THEN "None" ELSE Ladder[Min(rungs)]

-----------------------------------------------------------------------------
(***************************************************************************)
(* Commands typed into a Claude.                                           *)
(***************************************************************************)

(* A pane back at the shell its Claude was typed into runs Claude no more. *)
RunsClaude(sh, s) ==
  s \in Registered(sh.app) /\ sh.app.live[s].launch = "Claude" /\ s \notin sh.left

CanTake(sh, s) == RunsClaude(sh, s) /\ s \in sh.ready

(* Mutant of Arm: what holds the keyboard is not asked. *)
ArmOver(sh, s) ==
  IF CanTake(sh, s) THEN [sh EXCEPT !.command = [session |-> s, soon |-> sh.remote]] ELSE sh

(* Ask the user about a command for s, unless something holds the keyboard. *)
Arm(sh, s) ==
  IF Owner(sh) = "None" /\ CanTake(sh, s)
  THEN [sh EXCEPT !.command = [session |-> s, soon |-> sh.remote]] ELSE sh

ArmFocused(sh) ==
  IF sh.app.ws.tabs = <<>> THEN sh ELSE Arm(sh, FocusedIn(sh.app.ws))

(* Type the command, if its session still can take one; else keep asking. *)
Confirm(sh) ==
  LET s == sh.command.session
  IN IF sh.command # NoCommand /\ CanTake(sh, s)
     THEN [sh EXCEPT !.command = NoCommand, !.typed = Append(@, s)] ELSE sh

Cancel(sh) == [sh EXCEPT !.command = NoCommand]

(* The shell while it serves an MCP caller. *)
ForRemoteCaller(Serve(_), sh) ==
  [Serve([sh EXCEPT !.remote = TRUE]) EXCEPT !.remote = sh.remote]

-----------------------------------------------------------------------------
(***************************************************************************)
(* The tab rename.                                                         *)
(***************************************************************************)

StartTabRename(sh, i) ==
  IF i \in DOMAIN sh.app.ws.tabs
  THEN [sh EXCEPT !.rename = [anchor |-> FirstAt(sh, i), named |-> FALSE]] ELSE sh

(* Naming the tab at i is asked of the Claude its first pane runs; any other tab
   takes the name at once. *)
NameTab(sh, i) == IF RunsClaude(sh, FirstAt(sh, i)) THEN Arm(sh, FirstAt(sh, i)) ELSE sh

(* The tab is looked up again from the anchor. *)
CommitTabRename(sh) ==
  LET closed == [sh EXCEPT !.rename = NoRename]
  IN IF sh.rename.named /\ Hosts(sh, sh.rename.anchor)
     THEN NameTab(closed, TabOf(sh.app.ws, sh.rename.anchor)) ELSE closed

-----------------------------------------------------------------------------
(***************************************************************************)
(* The lists over the focused pane.                                        *)
(***************************************************************************)

(* Mutant of DropStaleLists: a list out of focus is only hidden. *)
ListsOnlyHidden(sh) == sh

DropStaleLists(sh) ==
  [sh EXCEPT !.menu = IF Live(sh, @.anchor) THEN @ ELSE NoMenu,
             !.picker = IF Live(sh, @) THEN @ ELSE 0]

(* A shell takes any colour, a Claude must be able to take `/color`. *)
ColorPickable(sh, s) == s \in Registered(sh.app) /\ (RunsClaude(sh, s) => CanTake(sh, s))

OpenTabMenu(sh) ==
  LET offers == {o \in {"PickTabColor", "TogglePark"} :
                   IF o = "TogglePark" THEN ~Shown(sh.app.ws).parked
                   ELSE ColorPickable(sh, FocusedIn(sh.app.ws))}
  IN IF sh.app.ws.tabs = <<>> THEN sh
     ELSE [sh EXCEPT !.menu = [anchor |-> FocusedIn(sh.app.ws), offers |-> offers]]

OpenColorPicker(sh) ==
  IF sh.app.ws.tabs # <<>> /\ ColorPickable(sh, FocusedIn(sh.app.ws))
  THEN [sh EXCEPT !.picker = FocusedIn(sh.app.ws)] ELSE sh

(* A Claude is asked for its colour; when it cannot take it the picker stays. *)
PickColor(sh) ==
  LET taken == [sh EXCEPT !.picker = 0]
      armed == Arm(taken, sh.picker)
  IN IF Live(sh, sh.picker) /\ RunsClaude(sh, sh.picker) /\ armed = taken THEN sh
     ELSE IF Live(sh, sh.picker) /\ RunsClaude(sh, sh.picker) THEN armed ELSE taken

-----------------------------------------------------------------------------
(* What the close of the pane of s, which stood where a has it, leaves of the
   overlays: the rename moves to the first pane left in its tab. *)
AfterClosed(a, sh, s) ==
  LET shares == s \in HostedIn(a.ws) /\ HostedBy(a.ws.tabs[TabOf(a.ws, s)]) # {s}
  IN [sh EXCEPT
        !.rename = CASE @.anchor # s -> @
                     [] @.anchor = s /\ shares -> [@ EXCEPT !.anchor = FirstAt(sh, TabOf(a.ws, s))]
                     [] OTHER -> NoRename,
        !.command = IF @.session = s THEN NoCommand ELSE @,
        !.menu = IF @.anchor = s THEN NoMenu ELSE @,
        !.picker = IF @ = s THEN 0 ELSE @]
=============================================================================
