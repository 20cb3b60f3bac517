----------------------------- MODULE ShellProofs -----------------------------
(***************************************************************************)
(* What the shell keeps by tab index stays on the tab it was about, for    *)
(* any number of ids and tabs and either policy.                           *)
(***************************************************************************)
EXTENDS Shell, CoreProofs

-----------------------------------------------------------------------------
(***************************************************************************)
(* Shells with no overlay but the close prompt.                            *)
(***************************************************************************)

ShellOf(a, c, d) == [NewShell EXCEPT !.app = a, !.closing = c, !.drag = d]

(* What every message relies on. *)
Whole(sh) ==
  /\ sh = ShellOf(sh.app, sh.closing, sh.drag)
  /\ Fits(sh.app)
  /\ sh.closing \in 0 .. Len(sh.app.ws.tabs)
  /\ sh.drag \in [from : 0 .. MaxId + 1, over : 0 .. MaxId + 1]

(* The fields of a new shell. *)
LEMMA NewShellIs ==
  /\ "app" \in DOMAIN NewShell /\ "closing" \in DOMAIN NewShell /\ "drag" \in DOMAIN NewShell
  /\ "rename" \in DOMAIN NewShell /\ "menu" \in DOMAIN NewShell
  /\ "picker" \in DOMAIN NewShell /\ "command" \in DOMAIN NewShell
  /\ NewShell.app = NoApp /\ NewShell.closing = 0 /\ NewShell.drag = NoDrag
  /\ NewShell.rename = NoRename /\ NewShell.menu = NoMenu
  /\ NewShell.picker = 0 /\ NewShell.command = NoCommand
<1>1. PICK no : no = FALSE
  OBVIOUS
<1>2. NewShell =
        [app |-> NoApp, closing |-> 0, drag |-> NoDrag, rename |-> NoRename, menu |-> NoMenu,
         picker |-> 0, command |-> NoCommand, remote |-> no, ready |-> {}, left |-> {},
         typed |-> <<>>]
  BY <1>1, Zenon DEF NewShell
<1> HIDE <1>1
<1> QED
  BY <1>2

(* The fields of such a shell. *)
LEMMA ShellOfIs ==
  ASSUME NEW a, NEW c, NEW d
  PROVE  /\ ShellOf(a, c, d).app = a
         /\ ShellOf(a, c, d).closing = c
         /\ ShellOf(a, c, d).drag = d
         /\ ShellOf(a, c, d).rename = NoRename
         /\ ShellOf(a, c, d).menu = NoMenu
         /\ ShellOf(a, c, d).picker = 0
         /\ ShellOf(a, c, d).command = NoCommand
  BY NewShellIs DEF ShellOf

(* The lists over the focused pane are closed. *)
LEMMA NoStaleLists ==
  ASSUME NEW a, NEW c, NEW d
  PROVE  DropStaleLists(ShellOf(a, c, d)) = ShellOf(a, c, d)
<1>1. NewShell.menu = NoMenu /\ NewShell.picker = 0
  BY NewShellIs
<1>2. [ShellOf(a, c, d) EXCEPT !.menu = NoMenu, !.picker = 0] = ShellOf(a, c, d)
  BY NewShellIs DEF ShellOf
<1> QED
  BY <1>2, ShellOfIs DEF DropStaleLists

(* The prompt, if it is up, owns the keyboard. *)
LEMMA OwnerIs ==
  ASSUME NEW a, NEW c, NEW d
  PROVE  Owner(ShellOf(a, c, d)) = IF c # 0 THEN "TabClose" ELSE "None"
<1> DEFINE sh == ShellOf(a, c, d)
<1>1. ~Live(sh, sh.menu.anchor) /\ ~Live(sh, sh.picker)
  BY ShellOfIs DEF Live, NoMenu
<1>2. sh.rename = NoRename /\ sh.command = NoCommand /\ sh.closing = c
  BY ShellOfIs
<1>3. \A owner : Up(sh, owner) <=> owner = "TabClose" /\ c # 0
  BY <1>1, <1>2 DEF Up
<1> HIDE DEF sh
<1>4. PICK rungs : rungs = {n \in DOMAIN Ladder : Up(sh, Ladder[n])}
  OBVIOUS
<1>5. DOMAIN Ladder = 1 .. 5 /\ Ladder[1] = "TabRename" /\ Ladder[2] = "TabClose"
      /\ Ladder[3] = "ClaudeCommand" /\ Ladder[4] = "TabMenu" /\ Ladder[5] = "ColorPicker"
  BY DEF Ladder
<1>6. rungs = IF c # 0 THEN {2} ELSE {}
  BY <1>3, <1>4, <1>5
<1>7. Owner(sh) = IF rungs = {} THEN "None" ELSE Ladder[Min(rungs)]
  BY <1>4 DEF Owner
<1>8. ASSUME c # 0 PROVE Min(rungs) = 2
  <2>1. 2 \in rungs /\ \A x \in rungs : x = 2
    BY <1>6, <1>8
  <2>2. \A y \in rungs : 2 <= y
    BY <2>1
  <2>3. Min(rungs) \in rungs
    BY <2>1, <2>2, Zenon DEF Min
  <2> QED
    BY <2>1, <2>3
<1> QED
  BY <1>5, <1>6, <1>7, <1>8 DEF sh

(* The effects of an answer change the core, and may drop the prompt. *)
LEMMA PerformIs ==
  ASSUME NEW a, NEW c, NEW d, NEW r
  PROVE  /\ TabShown \in Range(r.effects) => Perform(ShellOf(a, c, d), r) = ShellOf(r.app, 0, d)
         /\ TabShown \notin Range(r.effects) => Perform(ShellOf(a, c, d), r) = ShellOf(r.app, c, d)
<1>1. PICK sh : sh = ShellOf(a, c, d)
  OBVIOUS
<1>2. ASSUME TabShown \in Range(r.effects) PROVE Perform(sh, r) = ShellOf(r.app, 0, d)
  <2>1. Perform(sh, r) = [sh EXCEPT !.app = r.app, !.closing = 0]
    BY <1>2 DEF Perform
  <2> QED
    BY <1>1, <2>1, NewShellIs DEF ShellOf
<1>3. ASSUME TabShown \notin Range(r.effects) PROVE Perform(sh, r) = ShellOf(r.app, c, d)
  BY <1>1, <1>3, NewShellIs DEF Perform, ShellOf
<1> QED
  BY <1>1, <1>2, <1>3

(* The pane of s is its whole tab. *)
Lone(a, s) == s \in HostedIn(a.ws) /\ HostedBy(a.ws.tabs[TabOf(a.ws, s)]) = {s}

(* A pane that goes leaves the indices be, unless it takes its tab along. *)
LEMMA VanishedIs ==
  ASSUME NEW a, NEW b, NEW c, NEW d, NEW s, s # 0, NEW i, i = TabOf(a.ws, s)
  PROVE  /\ Lone(a, s) => AfterPaneVanished(a, ShellOf(b, c, d), s)
                            = ShellOf(b, AfterRemoval(c, i), DragAfterRemoval(d, i))
         /\ ~Lone(a, s) => AfterPaneVanished(a, ShellOf(b, c, d), s) = ShellOf(b, c, d)
<1>1. NoRename.anchor = 0 /\ NoMenu.anchor = 0 /\ NoCommand.session = 0
  BY DEF NoRename, NoMenu, NoCommand
<1>2. [ShellOf(b, c, d) EXCEPT !.rename = NoRename, !.command = NoCommand,
                               !.menu = NoMenu, !.picker = 0] = ShellOf(b, c, d)
  BY NewShellIs DEF ShellOf
<1>3. PICK sh : sh = ShellOf(b, c, d)
  OBVIOUS
<1>4. /\ sh.rename.anchor # s /\ sh.command.session # s
      /\ sh.menu.anchor # s /\ sh.picker # s
  BY <1>1, <1>3, ShellOfIs
<1>5. [sh EXCEPT !.rename = sh.rename, !.command = sh.command, !.menu = sh.menu,
                 !.picker = sh.picker] = sh
  BY <1>2, <1>3, ShellOfIs
<1>6. AfterClosed(a, sh, s) = sh
  <2>1. AfterClosed(a, sh, s)
          = [sh EXCEPT !.rename = sh.rename, !.command = sh.command, !.menu = sh.menu,
                       !.picker = sh.picker]
    BY <1>4 DEF AfterClosed
  <2> QED
    BY <1>5, <2>1
<1>7. ASSUME Lone(a, s)
      PROVE  AfterPaneVanished(a, sh, s) = ShellOf(b, AfterRemoval(c, i), DragAfterRemoval(d, i))
  <2>1. sh.closing = c /\ sh.drag = d
    BY <1>3, ShellOfIs
  <2>2. PICK k, e : k = AfterRemoval(c, i) /\ e = DragAfterRemoval(d, i)
    OBVIOUS
  <2>3. AfterRemoval(sh.closing, i) = k /\ DragAfterRemoval(sh.drag, i) = e
    BY <2>1, <2>2
  <2>4. AfterPaneVanished(a, sh, s) = [sh EXCEPT !.closing = k, !.drag = e]
    <3>1. AfterPaneVanished(a, sh, s)
            = [sh EXCEPT !.closing = AfterRemoval(sh.closing, i),
                         !.drag = DragAfterRemoval(sh.drag, i)]
      BY <1>6, <1>7 DEF AfterPaneVanished, Lone
    <3> QED
      BY <2>3, <3>1, Zenon
  <2>5. [sh EXCEPT !.closing = k, !.drag = e] = ShellOf(b, k, e)
    BY <1>3, NewShellIs DEF ShellOf
  <2> QED
    BY <2>2, <2>4, <2>5
<1>8. ASSUME ~Lone(a, s) PROVE AfterPaneVanished(a, sh, s) = sh
  BY <1>6, <1>8 DEF AfterPaneVanished, Lone
<1> QED
  BY <1>3, <1>7, <1>8

-----------------------------------------------------------------------------
(***************************************************************************)
(* Answers that take nothing away.                                         *)
(***************************************************************************)

(* No session goes, no tab goes, and at most one session is spawned. *)
Growing(a, r) ==
  /\ Sane(a, r)
  /\ r.effects = <<>> \/ \E id : r.effects = <<Spawn(id)>>
  /\ Len(a.ws.tabs) <= Len(r.app.ws.tabs)

(* What they leave in place. *)
LEMMA GrowingIs ==
  ASSUME NEW a, Fits(a), NEW r, Growing(a, r)
  PROVE  /\ Fits(r.app)
         /\ Registered(a) \subseteq Registered(r.app)
         /\ Len(a.ws.tabs) <= Len(r.app.ws.tabs)
<1>1. OfKind(r.effects, "Kill") = {}
  <2>1. CASE r.effects = <<>>
    BY <2>1 DEF OfKind
  <2>2. ASSUME NEW id, r.effects = <<Spawn(id)>> PROVE OfKind(r.effects, "Kill") = {}
    BY <2>2 DEF OfKind, Spawn
  <2> QED
    BY <2>1, <2>2 DEF Growing
<1>2. Named(r.effects, "Kill") = {}
  BY <1>1 DEF Named
<1> QED
  BY <1>2 DEF Growing, Sane

(* No effects. *)
LEMMA QuietGrows ==
  ASSUME NEW a, NEW b, Sane(a, Quiet(b)), Len(a.ws.tabs) <= Len(b.ws.tabs)
  PROVE  Growing(a, Quiet(b))
<1>1. Quiet(b).app = b /\ Quiet(b).effects = <<>>
  BY DEF Quiet, Answer
<1> QED
  BY <1>1 DEF Growing

(* Nothing at all. *)
LEMMA StillGrows ==
  ASSUME NEW a, Fits(a)
  PROVE  Growing(a, Quiet(a))
<1>1. Len(a.ws.tabs) \in Nat
  BY GoodStrip DEF Fits
<1> QED
  BY <1>1, QuietSane, QuietGrows

(* A change of the strip that keeps its length. *)
LEMMA StripGrows ==
  ASSUME NEW a, Fits(a), NEW w, Good(w), HostedIn(w) = HostedIn(a.ws),
         Len(w.tabs) = Len(a.ws.tabs)
  PROVE  Growing(a, OnStrip(a, w))
<1>1. Sane(a, OnStrip(a, w))
  BY StripSane
<1>2. PICK b : b = [a EXCEPT !.ws = w]
  OBVIOUS
<1>3. b.ws = w /\ OnStrip(a, w) = Quiet(b)
  BY <1>2 DEF OnStrip, Fits
<1>4. Len(w.tabs) \in Nat
  BY GoodStrip
<1> QED
  BY <1>1, <1>3, <1>4, QuietGrows

(* Moving, parking and showing tabs. *)
LEMMA TabsGrow ==
  ASSUME NEW a, Fits(a), NEW i, NEW to
  PROVE  /\ Growing(a, ActivateTab(a, i))
         /\ Growing(a, ToggleParkTab(a, i))
         /\ Growing(a, MoveTab(a, i, to))
<1>1. Good(a.ws) /\ DOMAIN a.ws.tabs = 1 .. Len(a.ws.tabs)
  BY GoodStrip DEF Fits
<1>2. CASE i \notin 1 .. Len(a.ws.tabs)
  BY <1>1, <1>2, StillGrows DEF ActivateTab, ToggleParkTab, MoveTab, InStrip
<1>3. CASE i \in 1 .. Len(a.ws.tabs)
  <2>1. Growing(a, OnStrip(a, Activate(a.ws, i)))
    BY <1>1, <1>3, ActivateGood, StripGrows DEF Shuffled
  <2>2. Growing(a, OnStrip(a, ToggleParked(a.ws, i)))
    BY <1>1, <1>3, ToggleGood, StripGrows DEF Rearranged, Shuffled
  <2>3. ASSUME to \in 1 .. Len(a.ws.tabs) PROVE Growing(a, OnStrip(a, Move(a.ws, i, to)))
    BY <1>1, <1>3, <2>3, MoveGood, StripGrows DEF Rearranged, Shuffled
  <2> QED
    BY <1>1, <1>3, <2>1, <2>2, <2>3, StillGrows
    DEF ActivateTab, ToggleParkTab, MoveTab, InStrip
<1> QED
  BY <1>2, <1>3

(* Revealing a pane. *)
LEMMA RevealGrows ==
  ASSUME NEW a, Fits(a), NEW s
  PROVE  Growing(a, RevealPane(a, s))
<1>1. Good(a.ws)
  BY DEF Fits
<1>2. CASE s \in HostedIn(a.ws)
  <2>1. PICK i : i = TabOf(a.ws, s)
    OBVIOUS
  <2>2. i \in 1 .. Len(a.ws.tabs) /\ s \in HostedBy(a.ws.tabs[i])
    BY <1>1, <1>2, <2>1, TabOfIs
  <2>3. PICK u : u = Activate(a.ws, i)
    OBVIOUS
  <2>4. /\ Good(u) /\ u.active \in 1 .. Len(u.tabs)
        /\ Shown(u).layout = a.ws.tabs[i].layout
        /\ Len(u.tabs) = Len(a.ws.tabs)
    BY <1>1, <2>2, <2>3, ActivateGood DEF Shuffled
  <2>5. s \in HostedBy(Shown(u))
    BY <2>2, <2>4 DEF HostedBy
  <2>6. Len(FocusPane(u, s).tabs) = Len(a.ws.tabs)
    BY <2>4, <2>5, FocusPaneGood
  <2>7. Reveal(a.ws, s) = FocusPane(u, s)
    BY <2>1, <2>3 DEF Reveal
  <2>8. Growing(a, OnStrip(a, Reveal(a.ws, s)))
    BY <1>1, <1>2, <2>6, <2>7, RevealGood, StripGrows
  <2> QED
    BY <1>2, <2>8 DEF RevealPane
<1>3. CASE s \notin HostedIn(a.ws)
  BY <1>3, StillGrows DEF RevealPane
<1> QED
  BY <1>2, <1>3

(* Moving the focus within the tab shown. *)
LEMMA FocusGrows ==
  ASSUME NEW a, Fits(a)
  PROVE  /\ \A s : Growing(a, FocusPaneAt(a, s))
         /\ \A step : Growing(a, FocusNeighbour(a, step))
<1>1. Good(a.ws)
  BY DEF Fits
<1>2. CASE a.ws.tabs = <<>>
  BY <1>2, StillGrows DEF FocusPaneAt, FocusNeighbour, OnShown
<1>3. CASE a.ws.tabs # <<>>
  <2>1. a.ws.active \in 1 .. Len(a.ws.tabs)
    BY <1>3, FocusedIs
  <2>2. ASSUME NEW s \in HostedBy(Shown(a.ws)) PROVE Growing(a, OnStrip(a, FocusPane(a.ws, s)))
    BY <1>1, <2>1, FocusPaneGood, StripGrows
  <2>3. ASSUME NEW step PROVE Growing(a, OnStrip(a, CyclePanes(a.ws, step)))
    <3>1. Len(CyclePanes(a.ws, step).tabs) = Len(a.ws.tabs)
      BY <1>1, <2>1, FocusMoves DEF SamePanes
    <3> QED
      BY <1>1, <2>1, <3>1, CyclePanesGood, StripGrows
  <2> QED
    BY <1>3, <2>2, <2>3, StillGrows DEF FocusPaneAt, FocusNeighbour, OnShown
<1> QED
  BY <1>2, <1>3

(* The answer that gives a strip w its new session. *)
Birth(a, id, x, w) == Answer([Register(a, id, x) EXCEPT !.ws = w], <<Spawn(id)>>)

LEMMA BirthIs ==
  ASSUME NEW a, Fits(a), NEW x, NEW w, NEW id, NEW r, r = Birth(a, id, x, w)
  PROVE  r.app.ws = w /\ r.effects = <<Spawn(id)>>
<1>1. PICK live : live = [s \in Registered(a) \cup {id} |-> IF s = id THEN x ELSE a.live[s]]
  OBVIOUS
<1>2. Register(a, id, x) = AppOf(a.ws, live, id, a.closed)
  BY <1>1, RegisterIs DEF Fits
<1>3. [Register(a, id, x) EXCEPT !.ws = w] = AppOf(w, live, id, a.closed)
  BY <1>2 DEF AppOf
<1>4. PICK e : e = <<Spawn(id)>>
  OBVIOUS
<1>5. r = [app |-> AppOf(w, live, id, a.closed), effects |-> e]
  BY <1>3, <1>4 DEF Birth, Answer
<1> QED
  BY <1>4, <1>5, AppOfFields

(* Launches. *)
LEMMA LaunchGrows ==
  ASSUME NEW a, Fits(a), NEW launch \in LaunchKind, NEW cwd \in Cwd, NEW placement
  PROVE  Growing(a, Launch(a, launch, cwd, placement))
<1>1. PICK r : r = Launch(a, launch, cwd, placement)
  OBVIOUS
<1>2. Sane(a, r)
  BY <1>1, LaunchSane
<1>3. CASE a.nextId = MaxId
  BY <1>3, StillGrows DEF Launch
<1>4. CASE a.nextId # MaxId
  <2>1. PICK id : id = a.nextId + 1
    OBVIOUS
  <2>2. PICK w : w = IF placement = "Foreground" THEN OpenTab(a.ws, id) ELSE AppendTab(a.ws, id)
    OBVIOUS
  <2>3. r = Birth(a, id, Starting(launch, cwd), w)
    BY <1>1, <1>4, <2>1, <2>2 DEF Launch, Birth
  <2>4. r.app.ws = w /\ r.effects = <<Spawn(id)>>
    BY <2>3, BirthIs
  <2>5. Good(a.ws) /\ id \notin HostedIn(a.ws)
    BY <2>1, IdsAre DEF Fits
  <2>6. Len(w.tabs) = Len(a.ws.tabs) + 1 /\ Len(a.ws.tabs) \in Nat
    BY <2>2, <2>5, OpenGood, AppendGood, GoodStrip DEF Inserted
  <2> QED
    BY <1>1, <1>2, <2>4, <2>6 DEF Growing
<1> QED
  BY <1>3, <1>4

(* A reopened tab. *)
LEMMA ReopenGrows ==
  ASSUME NEW a, Fits(a)
  PROVE  Growing(a, ReopenClosedTab(a))
<1>1. CASE a.closed = <<>>
  BY <1>1, StillGrows DEF ReopenClosedTab
<1>2. CASE a.closed # <<>>
  <2>1. PICK rest : rest = Front(a.closed)
    OBVIOUS
  <2>2. PICK b : b = AppOf(a.ws, a.live, a.nextId, rest)
    OBVIOUS
  <2>3. Fits(b) /\ Last(a.closed) \in Closed
    BY <1>2, <2>1, <2>2, FrontFits
  <2>4. PICK last : last = Last(a.closed)
    OBVIOUS
  <2>5. PICK r : r = Launch(b, last.launch, last.cwd, "Foreground")
    OBVIOUS
  <2>6. Growing(b, r)
    BY <2>3, <2>4, <2>5, LaunchGrows DEF Closed
  <2>7. [a EXCEPT !.closed = Front(@)] = b
    BY <2>1, <2>2 DEF Fits, AppOf
  <2>8. ReopenClosedTab(a) = r
    BY <1>2, <2>4, <2>5, <2>7 DEF ReopenClosedTab
  <2>9. b.ws = a.ws
    BY <2>2, AppOfFields
  <2> QED
    BY <2>6, <2>8, <2>9, ReopenSane DEF Growing
<1> QED
  BY <1>1, <1>2

(* Links. *)
LEMMA OpenRepoGrows ==
  ASSUME NEW a, Fits(a), NEW path \in Cwd, NEW resolved
  PROVE  Growing(a, OpenRepo(a, path, resolved))
<1>1. "Shell" \in LaunchKind
  BY DEF LaunchKind
<1> QED
  BY <1>1, RevealGrows, LaunchGrows DEF OpenRepo

(* Splits. *)
LEMMA SplitGrows ==
  ASSUME NEW a, Fits(a), NEW dir \in SplitDir
  PROVE  Growing(a, SplitFocused(a, dir))
<1>1. Sane(a, SplitFocused(a, dir))
  BY SplitSane
<1>2. CASE a.nextId = MaxId
  BY <1>2, StillGrows DEF SplitFocused
<1>3. CASE a.nextId # MaxId /\ a.ws.tabs = <<>>
  <2>1. PICK b : b = [a EXCEPT !.nextId = a.nextId + 1]
    OBVIOUS
  <2>2. SplitFocused(a, dir) = Quiet(b)
    BY <1>3, <2>1 DEF SplitFocused
  <2>3. b.ws = a.ws
    BY <2>1 DEF Fits
  <2>4. Len(a.ws.tabs) \in Nat
    BY GoodStrip DEF Fits
  <2> QED
    BY <1>1, <2>2, <2>3, <2>4, QuietGrows
<1>4. CASE a.nextId # MaxId /\ a.ws.tabs # <<>>
  <2>1. PICK id, x : id = a.nextId + 1 /\ x = Starting("Shell", a.live[FocusedIn(a.ws)].cwd)
    OBVIOUS
  <2>2. PICK w : w = SplitShown(a.ws, dir, id)
    OBVIOUS
  <2>3. PICK r : r = SplitFocused(a, dir)
    OBVIOUS
  <2>4. r = Birth(a, id, x, w)
    BY <1>4, <2>1, <2>2, <2>3 DEF SplitFocused, Birth
  <2>5. r.app.ws = w /\ r.effects = <<Spawn(id)>>
    BY <2>4, BirthIs
  <2>6. Good(a.ws) /\ a.ws.active \in 1 .. Len(a.ws.tabs)
    BY <1>4, FocusedIs DEF Fits
  <2>7. PICK l : l = SplitFocus(a.ws.tabs[a.ws.active].layout, dir, id)
    OBVIOUS
  <2>8. w = Relaid(a.ws, a.ws.active, l)
    BY <2>2, <2>6, <2>7 DEF SplitShown, Relaid
  <2>9. Len(w.tabs) = Len(a.ws.tabs) /\ Len(a.ws.tabs) \in Nat
    <3>1. PICK v, i : v = a.ws /\ i = v.active
      OBVIOUS
    <3>2. Good(v) /\ i \in 1 .. Len(v.tabs) /\ w = Relaid(v, i, l)
      BY <2>6, <2>8, <3>1
    <3>3. Len(Relaid(v, i, l).tabs) = Len(v.tabs)
      BY <3>2, RelaidTabs
    <3> QED
      BY <3>1, <3>2, <3>3, GoodStrip
  <2> QED
    BY <1>1, <2>3, <2>5, <2>9 DEF Growing
<1> QED
  BY <1>2, <1>3, <1>4

(* Reports of activity. *)
LEMMA StatusGrows ==
  ASSUME NEW a, Fits(a), NEW s, NEW status \in Report
  PROVE  Growing(a, StatusChanged(a, s, status))
<1>1. CASE s \notin Registered(a) \/ a.live[s].status = "Exited"
  BY <1>1, StillGrows DEF StatusChanged
<1>2. CASE ~(s \notin Registered(a) \/ a.live[s].status = "Exited")
  <2>1. PICK w : w = IF status = "Attention" THEN UnparkTabOf(a.ws, s) ELSE a.ws
    OBVIOUS
  <2>2. Good(a.ws) /\ Len(a.ws.tabs) \in Nat
    BY GoodStrip DEF Fits
  <2>3. Len(w.tabs) = Len(a.ws.tabs)
    <3>1. CASE s \in HostedIn(a.ws) /\ a.ws.tabs[TabOf(a.ws, s)].parked
      <4>1. PICK i : i = TabOf(a.ws, s)
        OBVIOUS
      <4>2. i \in 1 .. Len(a.ws.tabs)
        BY <2>2, <3>1, <4>1, TabOfIs
      <4>3. UnparkTabOf(a.ws, s) = ToggleParked(a.ws, i)
        BY <3>1, <4>1 DEF UnparkTabOf, ToggleParked
      <4> QED
        BY <2>1, <2>2, <4>2, <4>3, ToggleGood DEF Rearranged, Shuffled
    <3>2. CASE ~(s \in HostedIn(a.ws) /\ a.ws.tabs[TabOf(a.ws, s)].parked)
      BY <2>1, <3>2 DEF UnparkTabOf
    <3> QED
      BY <3>1, <3>2
  <2>4. PICK b : b = [a EXCEPT !.live[s].status = status,
                               !.ws = IF status = "Attention" THEN UnparkTabOf(@, s) ELSE @]
    OBVIOUS
  <2>5. b.ws = w
    BY <2>1, <2>4 DEF Fits
  <2>6. StatusChanged(a, s, status) = Quiet(b)
    BY <1>2, <2>4 DEF StatusChanged
  <2> QED
    BY <2>2, <2>3, <2>5, <2>6, StatusSane, QuietGrows
<1> QED
  BY <1>1, <1>2

-----------------------------------------------------------------------------
(***************************************************************************)
(* What a message leaves in place, before the indices are pointed back.    *)
(***************************************************************************)

Drags == [from : 0 .. MaxId + 1, over : 0 .. MaxId + 1]
First(a, i) == FirstSession(a.ws.tabs[i].layout)

(* A prompt on the tab at c of a that is up at k of b is on the same tab, or has
   not moved while the tab's first session is there to follow; and the tab shown
   is the same. *)
PromptKept(a, c, b, k) ==
  c # 0 /\ k # 0 =>
    /\ \/ Overlap(a.ws, c, b.ws, k)
       \/ k = c /\ First(a, c) \in Registered(b)
    /\ Overlap(a.ws, a.ws.active, b.ws, b.ws.active)

Kept(sh, h) == Whole(h) /\ PromptKept(sh.app, sh.closing, h.app, h.closing)

(* What a shell is made of. *)
LEMMA WholeIs ==
  ASSUME NEW sh, Whole(sh)
  PROVE  \E a, c, d : /\ sh = ShellOf(a, c, d) /\ sh.app = a /\ sh.closing = c /\ sh.drag = d
                      /\ Fits(a) /\ c \in 0 .. Len(a.ws.tabs) /\ d \in Drags
                      /\ Good(a.ws) /\ Len(a.ws.tabs) \in Nat
                      /\ TabsOf(sh) = 1 .. Len(a.ws.tabs)
<1>1. Good(sh.app.ws)
  BY DEF Whole, Fits
<1>2. Len(sh.app.ws.tabs) \in Nat /\ DOMAIN sh.app.ws.tabs = 1 .. Len(sh.app.ws.tabs)
  BY <1>1, GoodStrip
<1> QED
  BY <1>1, <1>2 DEF Whole, Drags, TabsOf

LEMMA WholeOf ==
  ASSUME NEW a, Fits(a), NEW c \in 0 .. Len(a.ws.tabs), NEW d \in Drags
  PROVE  Whole(ShellOf(a, c, d))
  BY ShellOfIs DEF Whole, Drags

(* The first session of a tab is one of its panes. *)
LEMMA FirstIs ==
  ASSUME NEW a, Fits(a), NEW i \in 1 .. Len(a.ws.tabs)
  PROVE  /\ First(a, i) \in HostedBy(a.ws.tabs[i])
         /\ First(a, i) \in Registered(a)
         /\ TabOf(a.ws, First(a, i)) = i
<1>1. Good(a.ws)
  BY DEF Fits
<1>2. First(a, i) \in HostedBy(a.ws.tabs[i])
  BY <1>1, LayoutOfTab, FirstSessionIs DEF First, HostedBy
<1> QED
  BY <1>1, <1>2, TabIsTheOne DEF Fits

(* A tab overlaps itself. *)
LEMMA OverlapsItself ==
  ASSUME NEW a, Fits(a), NEW i \in 1 .. Len(a.ws.tabs)
  PROVE  Overlap(a.ws, i, a.ws, i)
  BY FirstIs DEF Overlap

(* A strip with a tab shows one. *)
LEMMA SomeTab ==
  ASSUME NEW a, Fits(a), NEW i \in 1 .. Len(a.ws.tabs)
  PROVE  a.ws.tabs # <<>> /\ a.ws.active \in 1 .. Len(a.ws.tabs)
<1>1. Good(a.ws) /\ DOMAIN a.ws.tabs = 1 .. Len(a.ws.tabs)
  BY GoodStrip DEF Fits
<1>2. a.ws.tabs # <<>>
  BY <1>1
<1> QED
  BY <1>2, FocusedIs

(* A strip with no tab has none at any index. *)
LEMMA NoTab ==
  ASSUME NEW a, Fits(a)
  PROVE  a.ws.tabs = <<>> <=> Len(a.ws.tabs) = 0
<1>1. Good(a.ws) /\ DOMAIN a.ws.tabs = 1 .. Len(a.ws.tabs) /\ Len(a.ws.tabs) \in Nat
  BY GoodStrip DEF Fits
<1>2. a.ws.tabs = <<>> => Len(a.ws.tabs) = 0
  OBVIOUS
<1>3. a.ws.tabs # <<>> => Len(a.ws.tabs) # 0
  BY <1>1, FocusedIs
<1> QED
  BY <1>2, <1>3

(* The view told of no other tab shows the tab it did. *)
LEMMA StillOverlaps ==
  ASSUME NEW a, Fits(a), NEW i \in 1 .. Len(a.ws.tabs), NEW b, Fits(b), ~NoLongerShown(a, b)
  PROVE  /\ Overlap(a.ws, a.ws.active, b.ws, b.ws.active)
         /\ ShownSession(a.ws) \in HostedBy(a.ws.tabs[a.ws.active])
         /\ ShownSession(a.ws) \in HostedBy(b.ws.tabs[b.ws.active])
         /\ b.ws.active \in 1 .. Len(b.ws.tabs)
<1>1. a.ws.tabs # <<>> /\ a.ws.active \in 1 .. Len(a.ws.tabs)
  BY SomeTab
<1>2. b.ws.tabs # <<>> /\ ShownSession(a.ws) \in HostedBy(b.ws.tabs[b.ws.active])
  BY <1>1 DEF NoLongerShown, Shown
<1>3. b.ws.active \in 1 .. Len(b.ws.tabs)
  BY <1>2, FocusedIs
<1>4. ShownSession(a.ws) \in HostedBy(a.ws.tabs[a.ws.active])
  BY <1>1, FirstIs DEF First, ShownSession, Shown
<1> QED
  BY <1>2, <1>3, <1>4 DEF Overlap

(* Nothing changed is nothing lost. *)
LEMMA StillKept ==
  ASSUME NEW sh, Whole(sh)
  PROVE  Kept(sh, sh)
<1>1. PICK a, c, d : /\ sh = ShellOf(a, c, d) /\ sh.app = a /\ sh.closing = c /\ Fits(a)
                     /\ c \in 0 .. Len(a.ws.tabs) /\ Len(a.ws.tabs) \in Nat
  BY WholeIs
<1>2. ASSUME c # 0
      PROVE  Overlap(a.ws, c, a.ws, c) /\ Overlap(a.ws, a.ws.active, a.ws, a.ws.active)
  <2>1. c \in 1 .. Len(a.ws.tabs)
    BY <1>1, <1>2
  <2>2. a.ws.active \in 1 .. Len(a.ws.tabs)
    BY <1>1, <2>1, SomeTab
  <2> QED
    BY <1>1, <2>1, <2>2, OverlapsItself
<1> QED
  BY <1>1, <1>2 DEF Kept, PromptKept

(* The prompt dropped. *)
LEMMA DroppedKept ==
  ASSUME NEW sh, NEW a, Fits(a), NEW d \in Drags
  PROVE  Kept(sh, ShellOf(a, 0, d))
<1>1. Len(a.ws.tabs) \in Nat
  BY GoodStrip DEF Fits
<1>2. Whole(ShellOf(a, 0, d))
  BY <1>1, WholeOf
<1> QED
  BY <1>2, ShellOfIs DEF Kept, PromptKept

(* What the end of an event adds to an answer. *)
LEMMA SettledIs ==
  ASSUME NEW a, NEW r, r = [app |-> r.app, effects |-> r.effects], r.effects \in Seq(Effect)
  PROVE  /\ Settled(a, r).app = r.app
         /\ Settled(a, r).effects \in Seq(Effect)
         /\ NoLongerShown(a, r.app) => TabShown \in Range(Settled(a, r).effects)
         /\ ~NoLongerShown(a, r.app) => Settled(a, r) = r
         /\ Gesture(r).app = r.app
         /\ TabShown \in Range(Gesture(r).effects)
<1>1. PICK e : e = Append(r.effects, TabShown)
  OBVIOUS
<1>2. TabShown \in Effect
  BY DEF Effect
<1>3. e \in Seq(Effect) /\ Len(e) = Len(r.effects) + 1 /\ e[Len(r.effects) + 1] = TabShown
  BY <1>1, <1>2, AppendProperties
<1>4. Len(r.effects) + 1 \in DOMAIN e
  <2>1. Len(r.effects) \in Nat
    BY LenProperties
  <2> QED
    BY <1>3, <2>1, LenProperties
<1>5. TabShown \in Range(e)
  BY <1>3, <1>4 DEF Range
<1>6. PICK told : told = [r EXCEPT !.effects = Append(@, TabShown)]
  OBVIOUS
<1>7. told.app = r.app /\ told.effects = e
  BY <1>1, <1>6
<1>8. Gesture(r) = told
  BY <1>6 DEF Gesture
<1>9. Settled(a, r) = IF NoLongerShown(a, r.app) THEN told ELSE r
  BY <1>6 DEF Settled
<1> QED
  BY <1>3, <1>5, <1>7, <1>8, <1>9

(* Performing an answer drops the prompt when another tab is shown. *)
LEMMA DoIs ==
  ASSUME NEW a, NEW c, NEW d, NEW r, Sane(a, r)
  PROVE  /\ \E k : /\ Do(ShellOf(a, c, d), r) = ShellOf(r.app, k, d)
                   /\ (k = 0 \/ (k = c /\ ~NoLongerShown(a, r.app)))
         /\ DoGesture(ShellOf(a, c, d), r) = ShellOf(r.app, 0, d)
<1>1. r = [app |-> r.app, effects |-> r.effects] /\ r.effects \in Seq(Effect)
  BY DEF Sane
<1>2. PICK t, g : t = Settled(a, r) /\ g = Gesture(r)
  OBVIOUS
<1>3. /\ t.app = r.app /\ g.app = r.app /\ TabShown \in Range(g.effects)
      /\ NoLongerShown(a, r.app) => TabShown \in Range(t.effects)
  BY <1>1, <1>2, SettledIs
<1>4. DoGesture(ShellOf(a, c, d), r) = Perform(ShellOf(a, c, d), g)
  BY <1>2 DEF DoGesture
<1>5. Do(ShellOf(a, c, d), r) = Perform(ShellOf(a, c, d), t)
  BY <1>2, ShellOfIs DEF Do
<1> QED
  BY <1>3, <1>4, <1>5, PerformIs

(* An answer that takes nothing away leaves prompt and drag in place. *)
Grown(sh, h) ==
  Kept(sh, h) /\ Registered(sh.app) \subseteq Registered(h.app) /\ h.drag = sh.drag

LEMMA DoGrows ==
  ASSUME NEW sh, Whole(sh), NEW r, Growing(sh.app, r)
  PROVE  Grown(sh, Do(sh, r)) /\ Grown(sh, DoGesture(sh, r))
<1>1. PICK a, c, d : /\ sh = ShellOf(a, c, d) /\ sh.app = a /\ sh.closing = c /\ sh.drag = d
                     /\ Fits(a) /\ c \in 0 .. Len(a.ws.tabs) /\ d \in Drags
                     /\ Len(a.ws.tabs) \in Nat
  BY WholeIs
<1>2. PICK b : b = r.app
  OBVIOUS
<1>3. /\ Fits(b) /\ Registered(a) \subseteq Registered(b) /\ Len(a.ws.tabs) <= Len(b.ws.tabs)
      /\ Sane(a, r)
  BY <1>1, <1>2, GrowingIs DEF Growing
<1>4. Len(b.ws.tabs) \in Nat
  BY <1>3, GoodStrip DEF Fits
<1>5. PICK k : Do(sh, r) = ShellOf(b, k, d) /\ (k = 0 \/ (k = c /\ ~NoLongerShown(a, b)))
  BY <1>1, <1>2, <1>3, DoIs
<1>6. Whole(ShellOf(b, k, d))
  BY <1>1, <1>3, <1>4, <1>5, WholeOf
<1>7. ASSUME c # 0, k # 0
      PROVE  /\ k = c /\ First(a, c) \in Registered(b)
             /\ Overlap(a.ws, a.ws.active, b.ws, b.ws.active)
  <2>1. c \in 1 .. Len(a.ws.tabs)
    BY <1>1, <1>7
  <2> QED
    BY <1>1, <1>3, <1>5, <1>7, <2>1, FirstIs, StillOverlaps
<1>8. Grown(sh, Do(sh, r))
  BY <1>1, <1>3, <1>5, <1>6, <1>7, ShellOfIs DEF Grown, Kept, PromptKept
<1>9. DoGesture(sh, r) = ShellOf(b, 0, d)
  BY <1>1, <1>2, <1>3, DoIs
<1>10. Grown(sh, DoGesture(sh, r))
  BY <1>1, <1>3, <1>9, DroppedKept, ShellOfIs DEF Grown
<1> QED
  BY <1>8, <1>10

-----------------------------------------------------------------------------
(***************************************************************************)
(* Closing.                                                                *)
(***************************************************************************)

(* An index after a tab is gone. *)
LEMMA AfterRemovalIs ==
  ASSUME NEW n \in Nat, NEW c \in 0 .. n, NEW i \in Nat \ {0}
  PROVE  /\ AfterRemoval(c, i) \in 0 .. n
         /\ i \in 1 .. n => AfterRemoval(c, i) \in 0 .. n - 1
         /\ AfterRemoval(c, i) = 0 <=> c = 0 \/ c = i
         /\ c # 0 /\ c # i => AfterRemoval(c, i) = IF c < i THEN c ELSE c - 1
  BY DEF AfterRemoval

(* A drag after a tab is gone is let go, or on the chips it was. *)
LEMMA DragRemovalIs ==
  ASSUME NEW d \in Drags, NEW i \in Nat \ {0}, NEW e, e = DragAfterRemoval(d, i)
  PROVE  /\ e \in Drags
         /\ e # NoDrag => /\ AfterRemoval(d.from, i) # 0
                          /\ e.from = AfterRemoval(d.from, i)
                          /\ e.over = e.from \/ (/\ AfterRemoval(d.over, i) # 0
                                                 /\ e.over = AfterRemoval(d.over, i))
<1>1. MaxId + 1 \in Nat /\ 0 \in 0 .. MaxId + 1
  BY AppAssumption
<1>2. d.from \in 0 .. MaxId + 1 /\ d.over \in 0 .. MaxId + 1
  BY DEF Drags
<1>3. PICK f, o : f = AfterRemoval(d.from, i) /\ o = AfterRemoval(d.over, i)
  OBVIOUS
<1>4. f \in 0 .. MaxId + 1 /\ o \in 0 .. MaxId + 1
  BY <1>1, <1>2, <1>3, AfterRemovalIs
<1>5. e = IF f = 0 THEN NoDrag ELSE [from |-> f, over |-> IF o = 0 THEN f ELSE o]
  BY <1>3 DEF DragAfterRemoval
<1>6. NoDrag \in Drags
  BY <1>1 DEF NoDrag, Drags
<1> QED
  BY <1>3, <1>4, <1>5, <1>6 DEF Drags

(* Where the other tabs are once one is gone. *)
LEMMA RemovedOverlaps ==
  ASSUME NEW a, Fits(a), NEW b, Fits(b), NEW i \in 1 .. Len(a.ws.tabs), Removed(a.ws, b.ws, i),
         NEW c \in 1 .. Len(a.ws.tabs), c # i, NEW k, k = AfterRemoval(c, i)
  PROVE  k \in 1 .. Len(b.ws.tabs) /\ Overlap(a.ws, c, b.ws, k)
<1>1. Good(a.ws) /\ Len(a.ws.tabs) \in Nat
  BY GoodStrip DEF Fits
<1>2. k = (IF c < i THEN c ELSE c - 1) /\ k \in 1 .. Len(a.ws.tabs) - 1
  BY <1>1 DEF AfterRemoval
<1>3. b.ws.tabs[k] = a.ws.tabs[c] /\ Len(b.ws.tabs) = Len(a.ws.tabs) - 1
  BY <1>1, <1>2 DEF Removed
<1>4. HostedBy(a.ws.tabs[c]) # {}
  BY <1>1, TabHosts
<1> QED
  BY <1>2, <1>3, <1>4 DEF Overlap

(* The tabs stay where they are when one of several panes goes. *)
StaysPut(w, v) ==
  /\ Len(v.tabs) = Len(w.tabs)
  /\ \A j \in 1 .. Len(w.tabs) : Overlap(w, j, v, j)

LEMMA LeafLeaves ==
  ASSUME NEW w, Good(w), NEW i \in 1 .. Len(w.tabs), NEW s \in HostedBy(w.tabs[i]),
         HostedBy(w.tabs[i]) # {s}, NEW v, v = CloseLeafAt(w, i, s)
  PROVE  StaysPut(w, v)
<1>1. PICK l : l = CloseLeaf(w.tabs[i].layout, s)
  OBVIOUS
<1>2. v = Relaid(w, i, l)
  BY <1>1, CloseLeafIs
<1>3. Hosted(l) = HostedBy(w.tabs[i]) \ {s}
  BY <1>1, LayoutOfTab, CloseLeafFits DEF HostedBy
<1>4. Len(v.tabs) = Len(w.tabs) /\ Others(w.tabs, v.tabs, i) /\ v.tabs[i].layout = l
  <2>1. PICK u : u = Relaid(w, i, l)
    OBVIOUS
  <2>2. u.tabs[i] = [layout |-> l, parked |-> w.tabs[i].parked]
    BY <2>1, RelaidTabs
  <2>3. Len(u.tabs) = Len(w.tabs) /\ Others(w.tabs, u.tabs, i)
    BY <2>1, RelaidTabs
  <2>4. v = u
    BY <1>2, <2>1
  <2> QED
    BY <2>2, <2>3, <2>4
<1>5. HostedBy(v.tabs[i]) = HostedBy(w.tabs[i]) \ {s}
  BY <1>3, <1>4 DEF HostedBy
<1>6. Overlap(w, i, v, i)
  BY <1>5 DEF Overlap
<1>7. ASSUME NEW j \in 1 .. Len(w.tabs), j # i PROVE Overlap(w, j, v, j)
  <2>1. v.tabs[j] = w.tabs[j] /\ HostedBy(w.tabs[j]) # {}
    BY <1>4, <1>7, TabHosts DEF Others
  <2> QED
    BY <2>1 DEF Overlap
<1> QED
  BY <1>4, <1>6, <1>7 DEF StaysPut

(* The tab at i closed, with whatever prompt there was. *)
LEMMA CloseTabAtIs ==
  ASSUME NEW sh, Whole(sh), NEW i
  PROVE  \E b : /\ CloseTabAt(sh, i) = ShellOf(b, 0, sh.drag) /\ Fits(b)
                /\ IF i \in TabsOf(sh) THEN Removed(sh.app.ws, b.ws, i) ELSE b = sh.app
<1>1. PICK a, c, d : /\ sh = ShellOf(a, c, d) /\ sh.app = a /\ sh.drag = d /\ Fits(a)
                     /\ Good(a.ws) /\ TabsOf(sh) = 1 .. Len(a.ws.tabs)
  BY WholeIs
<1>2. PICK r : r = CloseTab(a, i)
  OBVIOUS
<1>3. Sane(a, r)
  BY <1>1, <1>2, CloseTabSane
<1>4. PICK b : b = r.app
  OBVIOUS
<1>5. [sh EXCEPT !.closing = 0] = ShellOf(a, 0, d)
  BY <1>1, NewShellIs DEF ShellOf
<1>6. CloseTabAt(sh, i) = Do(ShellOf(a, 0, d), r)
  BY <1>1, <1>2, <1>5 DEF CloseTabAt
<1>7. CloseTabAt(sh, i) = ShellOf(b, 0, d)
  BY <1>3, <1>4, <1>6, DoIs
<1>8. CASE i \in TabsOf(sh)
  <2>1. b.ws = CloseAt(a.ws, i)
    BY <1>1, <1>2, <1>4, <1>8, CloseTabIs, AppOfFields
  <2> QED
    BY <1>1, <1>3, <1>4, <1>7, <1>8, <2>1, CloseAtGood DEF Sane
<1>9. CASE i \notin TabsOf(sh)
  <2>1. r = Quiet(a)
    BY <1>1, <1>2, <1>9 DEF CloseTab, TabsOf
  <2>2. b = a
    BY <1>4, <2>1 DEF Quiet, Answer
  <2> QED
    BY <1>1, <1>7, <1>9, <2>2
<1> QED
  BY <1>8, <1>9

LEMMA CloseTabAtKept ==
  ASSUME NEW sh, Whole(sh), NEW i
  PROVE  Kept(sh, CloseTabAt(sh, i))
  BY CloseTabAtIs, DroppedKept DEF Whole, Drags

(* A request arms the prompt, closes or does nothing. *)
LEMMA RequestKept ==
  ASSUME NEW sh, Whole(sh), NEW i
  PROVE  Kept(sh, RequestClose(sh, i))
<1>1. PICK a, c, d : /\ sh = ShellOf(a, c, d) /\ sh.app = a /\ sh.closing = c /\ Fits(a)
                     /\ d \in Drags /\ Len(a.ws.tabs) \in Nat /\ TabsOf(sh) = 1 .. Len(a.ws.tabs)
  BY WholeIs
<1>2. ASSUME c = 0, i \in TabsOf(sh), RequestClose(sh, i) = [sh EXCEPT !.closing = i]
      PROVE  Kept(sh, RequestClose(sh, i))
  <2>1. RequestClose(sh, i) = ShellOf(a, i, d)
    BY <1>1, <1>2, NewShellIs DEF ShellOf
  <2>2. Whole(ShellOf(a, i, d))
    BY <1>1, <1>2, WholeOf
  <2> QED
    BY <1>1, <1>2, <2>1, <2>2 DEF Kept, PromptKept
<1>3. \/ RequestClose(sh, i) = sh
      \/ c = 0 /\ i \in TabsOf(sh) /\ RequestClose(sh, i) = [sh EXCEPT !.closing = i]
      \/ RequestClose(sh, i) = CloseTabAt(sh, i)
  BY <1>1 DEF RequestClose
<1> QED
  BY <1>2, <1>3, StillKept, CloseTabAtKept

-----------------------------------------------------------------------------
(***************************************************************************)
(* The pane of a session closed where it is.                               *)
(***************************************************************************)

(* The chips held in a are held in b: they have not moved while their first
   sessions are there to follow, or they are on their tabs, the slot under the chip
   held perhaps being its own. *)
DragKept(a, d, b, e) ==
  d.from \in 1 .. Len(a.ws.tabs) /\ d.over \in 1 .. Len(a.ws.tabs) /\ e # NoDrag =>
    \/ e = d /\ First(a, d.from) \in Registered(b) /\ First(a, d.over) \in Registered(b)
    \/ /\ e.from \in 1 .. Len(b.ws.tabs) /\ Overlap(a.ws, d.from, b.ws, e.from)
       /\ \/ e.over = e.from
          \/ e.over \in 1 .. Len(b.ws.tabs) /\ Overlap(a.ws, d.over, b.ws, e.over)

HeldKept(sh, h) == DragKept(sh.app, sh.drag, h.app, h.drag)

(* What takes nothing away leaves the chips. *)
LEMMA GrownHeld ==
  ASSUME NEW sh, Whole(sh), NEW h, Grown(sh, h)
  PROVE  HeldKept(sh, h)
<1>1. Fits(sh.app) /\ Registered(sh.app) \subseteq Registered(h.app) /\ h.drag = sh.drag
  BY DEF Whole, Grown
<1>2. ASSUME NEW i \in 1 .. Len(sh.app.ws.tabs) PROVE First(sh.app, i) \in Registered(h.app)
  BY <1>1, FirstIs
<1> QED
  BY <1>1, <1>2 DEF HeldKept, DragKept

(* The strip a closed pane leaves. *)
LEMMA ClosePaneIs ==
  ASSUME NEW a, Fits(a), NEW s \in Registered(a), NEW i, i = TabOf(a.ws, s),
         NEW b, b = ClosePane(a, s).app
  PROVE  /\ i \in 1 .. Len(a.ws.tabs)
         /\ Lone(a, s) => Removed(a.ws, b.ws, i)
         /\ ~Lone(a, s) => StaysPut(a.ws, b.ws)
<1>1. Good(a.ws) /\ s \in HostedIn(a.ws)
  BY DEF Fits
<1>2. i \in 1 .. Len(a.ws.tabs) /\ s \in HostedBy(a.ws.tabs[i])
  BY <1>1, TabOfIs
<1>3. ASSUME Lone(a, s) PROVE Removed(a.ws, b.ws, i)
  <2>1. b = CloseTab(a, i).app
    BY <1>1, <1>3 DEF ClosePane, Lone
  <2>2. b.ws = CloseAt(a.ws, i)
    BY <1>2, <2>1, CloseTabIs, AppOfFields
  <2> QED
    BY <1>1, <1>2, <2>2, CloseAtGood
<1>4. ASSUME ~Lone(a, s) PROVE StaysPut(a.ws, b.ws)
  <2>1. HostedBy(a.ws.tabs[i]) # {s}
    BY <1>1, <1>4 DEF Lone
  <2>2. PICK w : w = CloseLeafAt(a.ws, i, s)
    OBVIOUS
  <2>3. b = ReleaseClosedPane(a, s, w).app
    BY <1>1, <2>1, <2>2 DEF ClosePane, ClosePaneOf
  <2>4. b.ws = w
    BY <2>3, ReleaseIs
  <2> QED
    BY <1>1, <1>2, <2>1, <2>2, <2>4, LeafLeaves
<1> QED
  BY <1>2, <1>3, <1>4

(* The indices follow the strip. *)
LEMMA ClosedPaneKept ==
  ASSUME NEW sh, Whole(sh), NEW s \in Registered(sh.app),
         NEW h, h = AfterPaneVanished(sh.app, Do(sh, ClosePane(sh.app, s)), s)
  PROVE  Kept(sh, h) /\ HeldKept(sh, h)
<1>1. PICK a, c, d : /\ sh = ShellOf(a, c, d) /\ sh.app = a /\ sh.closing = c /\ sh.drag = d
                     /\ Fits(a) /\ c \in 0 .. Len(a.ws.tabs) /\ d \in Drags
                     /\ Good(a.ws) /\ Len(a.ws.tabs) \in Nat
  BY WholeIs
<1>2. PICK r : r = ClosePane(a, s)
  OBVIOUS
<1>3. PICK b, i : b = r.app /\ i = TabOf(a.ws, s)
  OBVIOUS
<1>4. Sane(a, r) /\ Fits(b) /\ Good(b.ws) /\ Len(b.ws.tabs) \in Nat
  BY <1>1, <1>2, <1>3, ClosePaneSane, GoodStrip DEF Sane, Fits
<1>5. PICK k : Do(sh, r) = ShellOf(b, k, d) /\ (k = 0 \/ (k = c /\ ~NoLongerShown(a, b)))
  BY <1>1, <1>3, <1>4, DoIs
<1>6. s # 0
  BY <1>1, IdsAre, AppAssumption DEF SessionId
<1>7. /\ i \in 1 .. Len(a.ws.tabs)
      /\ Lone(a, s) => Removed(a.ws, b.ws, i)
      /\ ~Lone(a, s) => StaysPut(a.ws, b.ws)
  BY <1>1, <1>2, <1>3, ClosePaneIs
<1>8. ASSUME c # 0, k # 0 PROVE k = c /\ Overlap(a.ws, a.ws.active, b.ws, b.ws.active)
  <2>1. c \in 1 .. Len(a.ws.tabs)
    BY <1>1, <1>8
  <2> QED
    BY <1>1, <1>4, <1>5, <1>8, <2>1, StillOverlaps
<1>9. CASE Lone(a, s)
  <2>1. PICK j, e : j = AfterRemoval(k, i) /\ e = DragAfterRemoval(d, i)
    OBVIOUS
  <2>2. h = ShellOf(b, j, e)
    BY <1>1, <1>2, <1>3, <1>5, <1>6, <1>9, <2>1, VanishedIs
  <2>3. k \in 0 .. Len(a.ws.tabs) /\ i \in Nat \ {0} /\ Len(b.ws.tabs) = Len(a.ws.tabs) - 1
    BY <1>1, <1>5, <1>7, <1>9 DEF Removed
  <2>4. j \in 0 .. Len(b.ws.tabs) /\ (j = 0 <=> k = 0 \/ k = i)
    <3>1. PICK n : n = Len(a.ws.tabs)
      OBVIOUS
    <3>2. n \in Nat /\ k \in 0 .. n /\ i \in Nat \ {0} /\ i \in 1 .. n
      BY <1>1, <1>7, <2>3, <3>1
    <3>3. AfterRemoval(k, i) \in 0 .. n - 1
      BY <3>2, AfterRemovalIs
    <3>4. AfterRemoval(k, i) = 0 <=> k = 0 \/ k = i
      BY <3>2, AfterRemovalIs
    <3> QED
      BY <2>1, <2>3, <3>1, <3>3, <3>4
  <2>5. e \in Drags
    BY <1>1, <2>1, <2>3, DragRemovalIs
  <2>6. Whole(h)
    BY <1>4, <2>2, <2>4, <2>5, WholeOf
  <2>7. ASSUME c # 0, j # 0
        PROVE  Overlap(a.ws, c, b.ws, j) /\ Overlap(a.ws, a.ws.active, b.ws, b.ws.active)
    <3>1. k = c /\ c # i /\ c \in 1 .. Len(a.ws.tabs)
      BY <1>1, <1>8, <2>4, <2>7
    <3> QED
      BY <1>1, <1>4, <1>7, <1>8, <1>9, <2>1, <2>4, <2>7, <3>1, RemovedOverlaps
  <2>8. Kept(sh, h)
    BY <1>1, <2>2, <2>6, <2>7, ShellOfIs DEF Kept, PromptKept
  <2>9. ASSUME NEW x \in 1 .. Len(a.ws.tabs), AfterRemoval(x, i) # 0
        PROVE  /\ AfterRemoval(x, i) \in 1 .. Len(b.ws.tabs)
               /\ Overlap(a.ws, x, b.ws, AfterRemoval(x, i))
    <3>1. x # i
      BY <1>7, <2>9 DEF AfterRemoval
    <3> QED
      BY <1>1, <1>4, <1>7, <1>9, <3>1, RemovedOverlaps
  <2>10. e # NoDrag => /\ AfterRemoval(d.from, i) # 0
                       /\ e.from = AfterRemoval(d.from, i)
                       /\ e.over = e.from \/ (/\ AfterRemoval(d.over, i) # 0
                                              /\ e.over = AfterRemoval(d.over, i))
    BY <1>1, <2>1, <2>3, DragRemovalIs
  <2>11. DragKept(a, d, b, e)
    BY <2>9, <2>10 DEF DragKept
  <2> QED
    BY <1>1, <2>2, <2>8, <2>11, ShellOfIs DEF HeldKept
<1>10. CASE ~Lone(a, s)
  <2>1. h = ShellOf(b, k, d)
    BY <1>1, <1>2, <1>3, <1>5, <1>6, <1>10, VanishedIs
  <2>2. /\ Len(b.ws.tabs) = Len(a.ws.tabs)
        /\ \A j \in 1 .. Len(a.ws.tabs) : Overlap(a.ws, j, b.ws, j)
    BY <1>7, <1>10 DEF StaysPut
  <2>3. Whole(h)
    BY <1>1, <1>4, <1>5, <2>1, <2>2, WholeOf
  <2>4. c # 0 => c \in 1 .. Len(a.ws.tabs)
    BY <1>1
  <2>5. Kept(sh, h)
    BY <1>1, <1>8, <2>1, <2>2, <2>3, <2>4, ShellOfIs DEF Kept, PromptKept
  <2>6. DragKept(a, d, b, d)
    BY <2>2 DEF DragKept
  <2> QED
    BY <1>1, <2>1, <2>5, <2>6, ShellOfIs DEF HeldKept
<1> QED
  BY <1>9, <1>10

(* An exit: the pane goes, or stays with its last screen. *)
LEMMA ExitKept ==
  ASSUME NEW sh, Whole(sh), NEW s, NEW clean
  PROVE  Kept(sh, ExitReport(sh, s, clean)) /\ HeldKept(sh, ExitReport(sh, s, clean))
<1>1. PICK a, c, d : /\ sh = ShellOf(a, c, d) /\ sh.app = a /\ sh.closing = c /\ sh.drag = d
                     /\ Fits(a) /\ c \in 0 .. Len(a.ws.tabs) /\ Good(a.ws)
                     /\ Len(a.ws.tabs) \in Nat
  BY WholeIs
<1>2. PICK p, r : p = PtyExited(a, s, clean) /\ r = Settled(a, p)
  OBVIOUS
<1>3. Sane(a, p)
  BY <1>1, <1>2, ExitSane
<1>4. r.app = p.app
  BY <1>2, <1>3, SettledIs DEF Sane
<1>5. Do(sh, p) = Perform(sh, r)
  BY <1>1, <1>2 DEF Do
<1>6. CASE s \in Registered(a) /\ clean /\ s \in HostedIn(a.ws)
  <2>1. p = ClosePane(a, s)
    BY <1>2, <1>6 DEF PtyExited
  <2>2. s \notin Registered(p.app)
    <3>1. p.effects # <<>> \/ s \in Registered(p.app)
      <4>1. ASSUME p.effects = <<>> PROVE Named(p.effects, "Kill") = {}
        BY <4>1 DEF Named, OfKind
      <4> QED
        BY <1>3, <1>6, <4>1 DEF Sane
    <3>2. PICK i : i = TabOf(a.ws, s)
      OBVIOUS
    <3>3. i \in 1 .. Len(a.ws.tabs) /\ s \in HostedBy(a.ws.tabs[i])
      BY <1>1, <1>6, <3>2, TabOfIs
    <3>4. PICK w : w = IF Lone(a, s) THEN CloseAt(a.ws, i) ELSE CloseLeafAt(a.ws, i, s)
      OBVIOUS
    <3>5. p.app.ws = w
      <4>1. CASE Lone(a, s)
        <5>1. p.app = CloseTab(a, i).app
          BY <1>6, <2>1, <3>2, <4>1 DEF ClosePane, Lone
        <5> QED
          BY <1>1, <3>3, <3>4, <4>1, <5>1, CloseTabIs, AppOfFields
      <4>2. CASE ~Lone(a, s)
        <5>1. p = ReleaseClosedPane(a, s, w)
          BY <1>6, <2>1, <3>2, <3>4, <4>2 DEF ClosePane, ClosePaneOf, Lone
        <5> QED
          BY <1>1, <5>1, ReleaseIs
      <4> QED
        BY <4>1, <4>2
    <3>6. s \notin HostedIn(w)
      <4>1. CASE Lone(a, s)
        BY <1>1, <3>3, <3>4, <4>1, CloseAtGood
      <4>2. CASE ~Lone(a, s)
        BY <1>1, <3>3, <3>4, <4>2, CloseLeafGood
      <4> QED
        BY <4>1, <4>2
    <3> QED
      BY <1>3, <3>5, <3>6 DEF Sane, Fits
  <2>3. r.effects # <<>>
    <3>1. ASSUME p.effects = <<>> PROVE FALSE
      <4>1. Named(p.effects, "Kill") = {}
        BY <3>1 DEF Named, OfKind
      <4> QED
        BY <1>3, <1>6, <2>2, <4>1 DEF Sane
    <3>2. NoLongerShown(a, p.app) => TabShown \in Range(r.effects)
      BY <1>2, <1>3, SettledIs DEF Sane
    <3>3. ~NoLongerShown(a, p.app) => r = p
      BY <1>2, <1>3, SettledIs DEF Sane
    <3>4. TabShown \in Range(r.effects) => r.effects # <<>>
      BY DEF Range
    <3> QED
      BY <3>1, <3>2, <3>3, <3>4
  <2>4. ExitReport(sh, s, clean) = AfterPaneVanished(a, Do(sh, ClosePane(a, s)), s)
    BY <1>1, <1>2, <1>5, <2>1, <2>3 DEF ExitReport
  <2> QED
    BY <1>1, <1>6, <2>4, ClosedPaneKept
<1>7. CASE ~(s \in Registered(a) /\ clean /\ s \in HostedIn(a.ws))
  <2>1. PICK b : p = Quiet(b) /\ b.ws = a.ws
    <3>1. CASE s \notin Registered(a)
      BY <1>2, <3>1 DEF PtyExited
    <3>2. CASE s \in Registered(a)
      <4>1. PICK b : b = [a EXCEPT !.live[s].status = "Exited"]
        OBVIOUS
      <4>2. b.ws = a.ws
        BY <1>1, <4>1 DEF Fits
      <4>3. p = Quiet(b)
        BY <1>2, <1>7, <3>2, <4>1 DEF PtyExited
      <4> QED
        BY <4>2, <4>3
    <3> QED
      BY <3>1, <3>2
  <2>2. Growing(a, p)
    BY <1>1, <1>3, <2>1, QuietGrows
  <2>3. Grown(sh, Do(sh, p))
    BY <1>1, <2>2, DoGrows
  <2>4. ~NoLongerShown(a, p.app)
    <3>1. p.app = b
      BY <2>1 DEF Quiet, Answer
    <3>2. ASSUME a.ws.tabs # <<>> PROVE ShownSession(a.ws) \in HostedBy(Shown(b.ws))
      <4>1. a.ws.active \in 1 .. Len(a.ws.tabs)
        BY <1>1, <3>2, FocusedIs
      <4> QED
        BY <1>1, <2>1, <4>1, FirstIs DEF First, ShownSession, Shown
    <3> QED
      BY <2>1, <3>1, <3>2 DEF NoLongerShown
  <2>5. r.effects = <<>>
    <3>1. r = p
      BY <1>2, <1>3, <2>4, SettledIs DEF Sane
    <3> QED
      BY <2>1, <3>1 DEF Quiet, Answer
  <2>6. ExitReport(sh, s, clean) = Do(sh, p)
    BY <1>1, <1>2, <1>5, <2>5 DEF ExitReport
  <2> QED
    BY <2>3, <2>6, GrownHeld DEF Grown
<1> QED
  BY <1>6, <1>7

-----------------------------------------------------------------------------
(***************************************************************************)
(* A pane revealed before something is done with it.                       *)
(***************************************************************************)

(* The tabs of v are those of w, perhaps elsewhere and with another focus. *)
SameTabs(w, v) ==
  /\ Len(v.tabs) = Len(w.tabs)
  /\ \A j \in 1 .. Len(v.tabs) : \E i \in 1 .. Len(w.tabs) :
       v.tabs[j].layout.at = w.tabs[i].layout.at

(* What revealing a pane answers: the same tabs, and word of another being shown. *)
Retargeted(a, rv) ==
  /\ Fits(rv.app) /\ Registered(rv.app) = Registered(a)
  /\ SameTabs(a.ws, rv.app.ws)
  /\ rv.effects \in Seq(Effect)
  /\ NoLongerShown(a, rv.app) => TabShown \in Range(rv.effects)

(* The tabs that have a session in common are one tab. *)
LEMMA SameTab ==
  ASSUME NEW a, Fits(a), NEW b, Fits(b), SameTabs(a.ws, b.ws),
         NEW i \in 1 .. Len(a.ws.tabs), NEW j \in 1 .. Len(b.ws.tabs),
         Overlap(a.ws, i, b.ws, j)
  PROVE  HostedBy(b.ws.tabs[j]) = HostedBy(a.ws.tabs[i]) /\ First(b, j) = First(a, i)
<1>1. PICK k \in 1 .. Len(a.ws.tabs) : b.ws.tabs[j].layout.at = a.ws.tabs[k].layout.at
  BY DEF SameTabs
<1>2. HostedBy(b.ws.tabs[j]) = HostedBy(a.ws.tabs[k])
  BY <1>1 DEF HostedBy, Hosted
<1>3. k = i
  BY <1>2 DEF Overlap, Fits, Good, Apart
<1>4. PICK l, m : l = a.ws.tabs[i].layout /\ m = b.ws.tabs[j].layout
  OBVIOUS
<1>5. m.at = l.at
  BY <1>1, <1>3, <1>4
<1>6. Hosted(m) = Hosted(l) /\ LeafPaths(m) = LeafPaths(l)
  BY <1>5 DEF Hosted, LeafPaths
<1>7. Descend(m, <<>>, "A") = Descend(l, <<>>, "A")
  BY <1>6, Zenon DEF Descend
<1>8. \A path : SessionAt(m, path) = SessionAt(l, path)
  BY <1>5, <1>6, Zenon DEF SessionAt
<1>9. FirstSession(m) = FirstSession(l)
  BY <1>7, <1>8 DEF FirstSession
<1> QED
  BY <1>2, <1>3, <1>4, <1>9 DEF First

(* The view told of no other tab by the reveal nor by what follows. *)
LEMMA ShownThrough ==
  ASSUME NEW a, Fits(a), NEW i \in 1 .. Len(a.ws.tabs), NEW rv, Retargeted(a, rv),
         NEW b, Fits(b), ~NoLongerShown(a, rv.app), ~NoLongerShown(rv.app, b)
  PROVE  /\ Overlap(a.ws, a.ws.active, b.ws, b.ws.active)
         /\ HostedBy(rv.app.ws.tabs[rv.app.ws.active]) = HostedBy(a.ws.tabs[a.ws.active])
         /\ First(rv.app, rv.app.ws.active) = First(a, a.ws.active)
         /\ ShownSession(rv.app.ws) \in HostedBy(b.ws.tabs[b.ws.active])
         /\ b.ws.active \in 1 .. Len(b.ws.tabs)
<1>1. PICK m : m = rv.app
  OBVIOUS
<1>2. Fits(m) /\ SameTabs(a.ws, m.ws) /\ ~NoLongerShown(a, m) /\ ~NoLongerShown(m, b)
  BY <1>1 DEF Retargeted
<1>3. a.ws.active \in 1 .. Len(a.ws.tabs)
  BY SomeTab
<1>4. /\ ShownSession(a.ws) \in HostedBy(a.ws.tabs[a.ws.active])
      /\ ShownSession(a.ws) \in HostedBy(m.ws.tabs[m.ws.active])
      /\ m.ws.active \in 1 .. Len(m.ws.tabs)
  BY <1>2, StillOverlaps
<1>5. /\ HostedBy(m.ws.tabs[m.ws.active]) = HostedBy(a.ws.tabs[a.ws.active])
      /\ First(m, m.ws.active) = First(a, a.ws.active)
  <2>1. PICK j, k : j = a.ws.active /\ k = m.ws.active
    OBVIOUS
  <2>2. j \in 1 .. Len(a.ws.tabs) /\ k \in 1 .. Len(m.ws.tabs) /\ Overlap(a.ws, j, m.ws, k)
    BY <1>3, <1>4, <2>1 DEF Overlap
  <2>3. HostedBy(m.ws.tabs[k]) = HostedBy(a.ws.tabs[j]) /\ First(m, k) = First(a, j)
    BY <1>2, <2>2, SameTab
  <2> QED
    BY <2>1, <2>3
<1>6. /\ ShownSession(m.ws) \in HostedBy(m.ws.tabs[m.ws.active])
      /\ ShownSession(m.ws) \in HostedBy(b.ws.tabs[b.ws.active])
      /\ b.ws.active \in 1 .. Len(b.ws.tabs)
  BY <1>2, <1>4, StillOverlaps
<1> QED
  BY <1>1, <1>5, <1>6 DEF Overlap

(* Showing a tab and moving the focus leave the tabs the same. *)
LEMMA RevealTabs ==
  ASSUME NEW w, Good(w), NEW s \in HostedIn(w)
  PROVE  SameTabs(w, Reveal(w, s))
<1>1. PICK i : i = TabOf(w, s)
  OBVIOUS
<1>2. i \in 1 .. Len(w.tabs) /\ s \in HostedBy(w.tabs[i])
  BY <1>1, TabOfIs
<1>3. PICK u : u = Activate(w, i)
  OBVIOUS
<1>4. /\ Good(u) /\ u.active \in 1 .. Len(u.tabs)
      /\ Shown(u).layout = w.tabs[i].layout
      /\ \E from, to \in 1 .. Len(w.tabs) : Shuffled(w, u, from, to)
  BY <1>2, <1>3, ActivateGood
<1>5. s \in HostedBy(Shown(u))
  BY <1>2, <1>4 DEF HostedBy
<1>6. PICK v : v = FocusPane(u, s)
  OBVIOUS
<1>7. SamePanes(u, v)
  BY <1>4, <1>5, <1>6, FocusMoves
<1>8. Len(u.tabs) = Len(w.tabs)
      /\ \A j \in 1 .. Len(u.tabs) : \E k \in 1 .. Len(w.tabs) :
           u.tabs[j].layout = w.tabs[k].layout
  <2>1. PICK from, to \in 1 .. Len(w.tabs) : Shuffled(w, u, from, to)
    BY <1>4
  <2>2. Len(u.tabs) = Len(w.tabs)
    BY <2>1 DEF Shuffled
  <2>3. \A j \in 1 .. Len(w.tabs) : \E k \in 1 .. Len(w.tabs) : j = ShiftIndex(k, from, to)
    BY <2>1 DEF Shuffled
  <2>4. \A k \in 1 .. Len(w.tabs) : u.tabs[ShiftIndex(k, from, to)].layout = w.tabs[k].layout
    BY <2>1 DEF Shuffled
  <2>5. ASSUME NEW j \in 1 .. Len(u.tabs)
        PROVE  \E k \in 1 .. Len(w.tabs) : u.tabs[j].layout = w.tabs[k].layout
    <3>1. PICK k \in 1 .. Len(w.tabs) : j = ShiftIndex(k, from, to)
      BY <2>2, <2>3
    <3>2. u.tabs[j].layout = w.tabs[k].layout
      BY <2>4, <3>1, Zenon
    <3> QED
      BY <3>2
  <2> QED
    BY <2>2, <2>5
<1>9. SameTabs(w, v)
  BY <1>7, <1>8 DEF SamePanes, SameTabs
<1>10. Reveal(w, s) = v
  BY <1>1, <1>3, <1>6 DEF Reveal
<1> QED
  BY <1>9, <1>10

(* Revealing nothing. *)
LEMMA QuietRetargets ==
  ASSUME NEW a, Fits(a)
  PROVE  Retargeted(a, Quiet(a)) /\ ~NoLongerShown(a, a)
<1>1. PICK rv : rv = Quiet(a)
  OBVIOUS
<1>2. rv.app = a /\ rv.effects = <<>>
  BY <1>1 DEF Quiet, Answer
<1>3. ASSUME a.ws.tabs # <<>> PROVE ShownSession(a.ws) \in HostedBy(Shown(a.ws))
  <2>1. a.ws.active \in 1 .. Len(a.ws.tabs)
    BY <1>3, FocusedIs
  <2> QED
    BY <2>1, FirstIs DEF First, ShownSession, Shown
<1>4. ~NoLongerShown(a, a)
  BY <1>3 DEF NoLongerShown
<1>5. SameTabs(a.ws, a.ws)
  BY DEF SameTabs
<1>6. <<>> \in Seq(Effect)
  OBVIOUS
<1> QED
  BY <1>1, <1>2, <1>4, <1>5, <1>6 DEF Retargeted

LEMMA RetargetIs ==
  ASSUME NEW sh, Whole(sh), NEW s
  PROVE  Retargeted(sh.app, Retarget(sh, s))
<1>1. PICK a : a = sh.app /\ Fits(a) /\ Good(a.ws)
  BY DEF Whole, Fits
<1>2. CASE s = 0 \/ s \notin HostedIn(a.ws)
  <2>1. ASSUME s # 0 PROVE Retarget(sh, s) = Settled(a, Quiet(a))
    BY <1>1, <1>2, <2>1 DEF Retarget, RevealPane
  <2>2. Quiet(a).app = a
    BY DEF Quiet, Answer
  <2>3. Settled(a, Quiet(a)) = Quiet(a)
    BY <1>1, <2>2, QuietRetargets DEF Settled
  <2>4. Retarget(sh, s) = Quiet(a)
    BY <1>1, <2>1, <2>3 DEF Retarget
  <2> QED
    BY <1>1, <2>4, QuietRetargets
<1>3. CASE s # 0 /\ s \in HostedIn(a.ws)
  <2>1. PICK w : w = Reveal(a.ws, s)
    OBVIOUS
  <2>2. PICK r : r = OnStrip(a, w)
    OBVIOUS
  <2>3. Good(w) /\ HostedIn(w) = HostedIn(a.ws) /\ SameTabs(a.ws, w)
    BY <1>1, <1>3, <2>1, RevealGood, RevealTabs
  <2>4. Sane(a, r)
    BY <1>1, <2>2, <2>3, StripSane
  <2>5. r.app.ws = w /\ Registered(r.app) = Registered(a)
    <3>1. r.app = [a EXCEPT !.ws = w]
      BY <2>2 DEF OnStrip, Quiet, Answer
    <3> QED
      BY <1>1, <3>1 DEF Fits, Registered
  <2>6. PICK rv : rv = Settled(a, r)
    OBVIOUS
  <2>7. /\ rv.app = r.app /\ rv.effects \in Seq(Effect)
        /\ NoLongerShown(a, r.app) => TabShown \in Range(rv.effects)
    BY <2>4, <2>6, SettledIs DEF Sane
  <2>8. Retarget(sh, s) = rv
    BY <1>1, <1>3, <2>1, <2>2, <2>6 DEF Retarget, RevealPane
  <2> QED
    BY <1>1, <2>3, <2>4, <2>5, <2>7, <2>8 DEF Retargeted, Sane
<1> QED
  BY <1>2, <1>3

(* The effects of the reveal and of what follows are performed in one go. *)
LEMMA PerformBoth ==
  ASSUME NEW a, NEW c, NEW d, NEW rv, Retargeted(a, rv), NEW r, Sane(rv.app, r)
  PROVE  \E k : /\ Perform(ShellOf(a, c, d),
                           Answer(r.app, rv.effects \o Settled(rv.app, r).effects))
                     = ShellOf(r.app, k, d)
                /\ \/ k = 0
                   \/ k = c /\ ~NoLongerShown(a, rv.app) /\ ~NoLongerShown(rv.app, r.app)
<1>1. PICK e, f : e = rv.effects /\ f = Settled(rv.app, r).effects
  OBVIOUS
<1>2. e \in Seq(Effect) /\ (NoLongerShown(a, rv.app) => TabShown \in Range(e))
  BY <1>1 DEF Retargeted
<1>3. f \in Seq(Effect) /\ (NoLongerShown(rv.app, r.app) => TabShown \in Range(f))
  BY <1>1, SettledIs DEF Sane
<1>4. Range(e \o f) = Range(e) \cup Range(f)
  BY <1>2, <1>3, RangeConcatenation
<1>5. PICK g : g = Answer(r.app, e \o f)
  OBVIOUS
<1>6. g.app = r.app /\ g.effects = e \o f
  BY <1>5 DEF Answer
<1>7. /\ TabShown \in Range(g.effects) => Perform(ShellOf(a, c, d), g) = ShellOf(g.app, 0, d)
      /\ TabShown \notin Range(g.effects) => Perform(ShellOf(a, c, d), g) = ShellOf(g.app, c, d)
  BY PerformIs
<1> QED
  BY <1>1, <1>2, <1>3, <1>4, <1>5, <1>6, <1>7

(* The pane in focus closed. *)
LEMMA FocusCloses ==
  ASSUME NEW m, Fits(m), m.ws.tabs # <<>>, NEW s, s = FocusedIn(m.ws), NEW i, i = m.ws.active,
         NEW b, b = CloseFocusedPane(m).app
  PROVE  /\ Fits(b)
         /\ i \in 1 .. Len(m.ws.tabs) /\ s \in HostedIn(m.ws) /\ TabOf(m.ws, s) = i /\ s # 0
         /\ HostedIn(b.ws) = HostedIn(m.ws) \ {s}
         /\ Lone(m, s) => NoLongerShown(m, b)
         /\ ~Lone(m, s) => StaysPut(m.ws, b.ws)
<1>1. Good(m.ws)
  BY DEF Fits
<1>2. i \in 1 .. Len(m.ws.tabs) /\ s \in HostedBy(m.ws.tabs[i]) /\ s \in Registered(m)
  BY FocusedIs
<1>3. s \in HostedIn(m.ws) /\ TabOf(m.ws, s) = i
  BY <1>1, <1>2, TabIsTheOne
<1>4. s # 0
  BY <1>2, IdsAre, AppAssumption DEF SessionId
<1>5. Fits(b)
  BY CloseFocusedSane DEF Sane
<1>6. PICK w : w = CloseLeafAt(m.ws, i, s)
  OBVIOUS
<1>7. b.ws = w
  <2>1. CloseFocusedPane(m) = ReleaseClosedPane(m, s, w)
    BY <1>6 DEF CloseFocusedPane
  <2> QED
    BY <2>1, ReleaseIs
<1>8. HostedIn(b.ws) = HostedIn(m.ws) \ {s}
  BY <1>1, <1>2, <1>6, <1>7, CloseLeafGood
<1>9. ASSUME Lone(m, s) PROVE NoLongerShown(m, b)
  <2>1. HostedBy(m.ws.tabs[i]) = {s}
    BY <1>3, <1>9 DEF Lone
  <2>2. First(m, i) = s
    BY <1>2, <2>1, FirstIs
  <2>3. ShownSession(m.ws) = s
    BY <2>2 DEF First, ShownSession, Shown
  <2>4. ASSUME b.ws.tabs # <<>> PROVE s \notin HostedBy(Shown(b.ws))
    <3>1. b.ws.active \in 1 .. Len(b.ws.tabs) /\ Good(b.ws)
      BY <1>5, <2>4, FocusedIs DEF Fits
    <3>2. HostedBy(Shown(b.ws)) \subseteq HostedIn(b.ws)
      BY <3>1, HostedInIs DEF Shown
    <3> QED
      BY <1>8, <3>2
  <2> QED
    BY <2>3, <2>4 DEF NoLongerShown
<1>10. ASSUME ~Lone(m, s) PROVE StaysPut(m.ws, b.ws)
  <2>1. HostedBy(m.ws.tabs[i]) # {s}
    BY <1>3, <1>10 DEF Lone
  <2> QED
    BY <1>1, <1>2, <1>6, <1>7, <2>1, LeafLeaves
<1> QED
  BY <1>2, <1>3, <1>4, <1>5, <1>8, <1>9, <1>10

(* What comes of the prompt and the drag when it closes after a reveal. *)
LEMMA ClosedAfterIs ==
  ASSUME NEW sh, Whole(sh), NEW rv, Retargeted(sh.app, rv), rv.app.ws.tabs # <<>>,
         NEW b, b = CloseFocusedPane(rv.app).app, NEW s, s = FocusedIn(rv.app.ws),
         NEW h, h = CloseFocusedAfter(sh, rv)
  PROVE  /\ Lone(rv.app, s) => \E e \in Drags : h = ShellOf(b, 0, e)
         /\ ~Lone(rv.app, s) =>
              \E k : /\ h = ShellOf(b, k, sh.drag)
                     /\ \/ k = 0
                        \/ /\ k = sh.closing /\ ~NoLongerShown(sh.app, rv.app)
                           /\ ~NoLongerShown(rv.app, b)
<1>1. PICK a, c, d : /\ sh = ShellOf(a, c, d) /\ sh.app = a /\ sh.closing = c /\ sh.drag = d
                     /\ d \in Drags
  BY WholeIs
<1>2. PICK m, i : m = rv.app /\ i = m.ws.active
  OBVIOUS
<1>3. Fits(m) /\ m.ws.tabs # <<>> /\ s = FocusedIn(m.ws) /\ b = CloseFocusedPane(m).app
  BY <1>2 DEF Retargeted
<1>4. /\ i \in 1 .. Len(m.ws.tabs) /\ s \in HostedIn(m.ws) /\ TabOf(m.ws, s) = i /\ s # 0
      /\ Lone(m, s) => NoLongerShown(m, b)
  BY <1>2, <1>3, FocusCloses
<1>5. PICK r : r = CloseFocusedPane(m)
  OBVIOUS
<1>6. Sane(rv.app, r) /\ r.app = b
  BY <1>2, <1>3, <1>5, CloseFocusedSane
<1>7. PICK p : p = Perform(sh, Answer(r.app, rv.effects \o Settled(m, r).effects))
  OBVIOUS
<1>8. PICK k : /\ p = ShellOf(r.app, k, d)
               /\ \/ k = 0
                  \/ k = c /\ ~NoLongerShown(a, rv.app) /\ ~NoLongerShown(rv.app, r.app)
  BY <1>1, <1>2, <1>6, <1>7, PerformBoth
<1>9. Settled(m, r).app = r.app
  BY <1>2, <1>6, SettledIs DEF Sane
<1>10. h = AfterPaneVanished(m, p, s)
  BY <1>2, <1>3, <1>5, <1>7, <1>9 DEF CloseFocusedAfter
<1>11. i \in Nat \ {0}
  <2>1. Len(m.ws.tabs) \in Nat
    BY <1>3, GoodStrip DEF Fits
  <2> QED
    BY <1>4, <2>1
<1>12. ASSUME Lone(m, s) PROVE \E e \in Drags : h = ShellOf(b, 0, e)
  <2>1. k = 0
    BY <1>2, <1>4, <1>6, <1>8, <1>12
  <2>2. PICK j, e : j = AfterRemoval(k, i) /\ e = DragAfterRemoval(d, i)
    OBVIOUS
  <2>3. j = 0
    BY <1>11, <2>1, <2>2 DEF AfterRemoval
  <2>4. e \in Drags
    BY <1>1, <1>11, <2>2, DragRemovalIs
  <2>5. h = ShellOf(b, j, e)
    BY <1>4, <1>6, <1>8, <1>10, <1>12, <2>2, VanishedIs
  <2> QED
    BY <2>3, <2>4, <2>5
<1>13. ASSUME ~Lone(m, s) PROVE h = ShellOf(b, k, d)
  BY <1>4, <1>6, <1>8, <1>10, <1>13, VanishedIs
<1> QED
  BY <1>1, <1>2, <1>6, <1>8, <1>12, <1>13

LEMMA CloseFocusedKept ==
  ASSUME NEW sh, Whole(sh), NEW rv, Retargeted(sh.app, rv)
  PROVE  Kept(sh, CloseFocusedAfter(sh, rv))
<1>1. PICK a, c, d : /\ sh = ShellOf(a, c, d) /\ sh.app = a /\ sh.closing = c /\ sh.drag = d
                     /\ Fits(a) /\ c \in 0 .. Len(a.ws.tabs) /\ d \in Drags
                     /\ Good(a.ws) /\ Len(a.ws.tabs) \in Nat
  BY WholeIs
<1>2. PICK m : m = rv.app
  OBVIOUS
<1>3. Fits(m) /\ Registered(m) = Registered(a) /\ SameTabs(a.ws, m.ws)
  BY <1>1, <1>2 DEF Retargeted
<1>4. PICK b, h : b = CloseFocusedPane(m).app /\ h = CloseFocusedAfter(sh, rv)
  OBVIOUS
<1>5. Fits(b)
  BY <1>3, <1>4, CloseFocusedSane DEF Sane
<1>6. CASE m.ws.tabs = <<>>
  <2>1. c = 0
    <3>1. Len(m.ws.tabs) = 0 /\ Len(a.ws.tabs) = Len(m.ws.tabs)
      BY <1>3, <1>6, NoTab DEF SameTabs
    <3> QED
      BY <1>1, <3>1
  <2>2. PICK r : r = CloseFocusedPane(m)
    OBVIOUS
  <2>3. Sane(rv.app, r) /\ r.app = b
    BY <1>2, <1>3, <1>4, <2>2, CloseFocusedSane
  <2>4. Settled(m, r).app = r.app
    BY <1>2, <2>3, SettledIs DEF Sane
  <2>5. h = Perform(sh, Answer(r.app, rv.effects \o Settled(m, r).effects))
    BY <1>2, <1>4, <1>6, <2>2, <2>4 DEF CloseFocusedAfter
  <2>6. PICK k : h = ShellOf(r.app, k, d) /\ (k = 0 \/ k = c)
    BY <1>1, <1>2, <2>3, <2>5, PerformBoth
  <2> QED
    BY <1>1, <1>4, <1>5, <2>1, <2>3, <2>6, DroppedKept
<1>7. CASE m.ws.tabs # <<>>
  <2>1. PICK s, i : s = FocusedIn(m.ws) /\ i = m.ws.active
    OBVIOUS
  <2>2. /\ i \in 1 .. Len(m.ws.tabs) /\ s \in HostedIn(m.ws) /\ TabOf(m.ws, s) = i
        /\ HostedIn(b.ws) = HostedIn(m.ws) \ {s}
        /\ ~Lone(m, s) => StaysPut(m.ws, b.ws)
    BY <1>3, <1>4, <1>7, <2>1, FocusCloses
  <2>3. CASE Lone(m, s)
    BY <1>1, <1>2, <1>4, <1>5, <1>7, <2>1, <2>3, ClosedAfterIs, DroppedKept
  <2>4. CASE ~Lone(m, s)
    <3>1. PICK k : /\ h = ShellOf(b, k, d)
                   /\ k = 0 \/ (k = c /\ ~NoLongerShown(a, m) /\ ~NoLongerShown(m, b))
      BY <1>1, <1>2, <1>4, <1>7, <2>1, <2>4, ClosedAfterIs
    <3>2. Len(b.ws.tabs) = Len(a.ws.tabs)
      BY <1>3, <2>2, <2>4 DEF StaysPut, SameTabs
    <3>3. Whole(h)
      BY <1>1, <1>5, <3>1, <3>2, WholeOf
    <3>4. ASSUME c # 0, k # 0
          PROVE  /\ Overlap(a.ws, a.ws.active, b.ws, b.ws.active)
                 /\ k = c /\ First(a, c) \in Registered(b)
      <4>1. c \in 1 .. Len(a.ws.tabs) /\ ~NoLongerShown(a, m) /\ ~NoLongerShown(m, b)
        BY <1>1, <3>1, <3>4
      <4>2. /\ Overlap(a.ws, a.ws.active, b.ws, b.ws.active)
            /\ HostedBy(m.ws.tabs[m.ws.active]) = HostedBy(a.ws.tabs[a.ws.active])
            /\ First(m, m.ws.active) = First(a, a.ws.active)
            /\ ShownSession(m.ws) \in HostedBy(b.ws.tabs[b.ws.active])
            /\ b.ws.active \in 1 .. Len(b.ws.tabs)
        BY <1>1, <1>2, <1>5, <4>1, ShownThrough
      <4>3. First(a, c) \in HostedBy(a.ws.tabs[c]) /\ First(a, c) \in Registered(a)
        BY <1>1, <4>1, FirstIs
      <4>4. First(a, c) # s
        <5>1. SUFFICES ASSUME First(a, c) = s PROVE FALSE
          OBVIOUS
        <5>2. s \in HostedBy(m.ws.tabs[i])
          BY <1>3, <2>2, TabOfIs DEF Fits
        <5>3. s \in HostedBy(a.ws.tabs[a.ws.active]) /\ a.ws.active \in 1 .. Len(a.ws.tabs)
          BY <1>1, <2>1, <4>1, <4>2, <5>2, SomeTab
        <5>4. a.ws.active = c
          <6>1. PICK j : j = a.ws.active
            OBVIOUS
          <6>2. TabOf(a.ws, s) = c
            BY <1>1, <4>1, <4>3, <5>1, TabIsTheOne
          <6>3. TabOf(a.ws, s) = j
            BY <1>1, <5>3, <6>1, TabIsTheOne
          <6> QED
            BY <6>1, <6>2, <6>3
        <5>5. ShownSession(m.ws) = s
          BY <4>2, <5>1, <5>4 DEF First, ShownSession, Shown
        <5>6. s \in HostedIn(b.ws)
          BY <1>5, <4>2, <5>5, HostedInIs DEF Fits
        <5> QED
          BY <2>2, <5>6
      <4> QED
        BY <1>3, <1>5, <2>2, <3>1, <3>4, <4>2, <4>3, <4>4 DEF Fits
    <3> QED
      BY <1>1, <1>4, <3>1, <3>3, <3>4, ShellOfIs DEF Kept, PromptKept
  <2> QED
    BY <2>3, <2>4
<1> QED
  BY <1>6, <1>7

-----------------------------------------------------------------------------
(***************************************************************************)
(* The keyboard and MCP callers.                                           *)
(***************************************************************************)

(* Nothing done takes nothing away, and neither does the prompt dropped with it. *)
LEMMA StillGrown ==
  ASSUME NEW sh, Whole(sh)
  PROVE  Grown(sh, sh)
  BY StillKept DEF Grown

LEMMA DroppedGrown ==
  ASSUME NEW sh, Whole(sh), NEW h, Grown(sh, h)
  PROVE  Grown(sh, [h EXCEPT !.closing = 0])
<1>1. PICK b, k, e : /\ h = ShellOf(b, k, e) /\ h.app = b /\ h.drag = e
                     /\ Fits(b) /\ e \in Drags
  <2>1. Whole(h)
    BY DEF Grown, Kept
  <2> QED
    BY <2>1, WholeIs
<1>2. [h EXCEPT !.closing = 0] = ShellOf(b, 0, e)
  BY <1>1, NewShellIs DEF ShellOf
<1>3. Kept(sh, ShellOf(b, 0, e))
  BY <1>1, DroppedKept
<1> QED
  BY <1>1, <1>2, <1>3, ShellOfIs DEF Grown

(* Launches and reveals. *)
LEMMA LaunchAtGrows ==
  ASSUME NEW sh, Whole(sh), NEW launch \in LaunchKind, NEW cwd \in Cwd, NEW placement
  PROVE  Grown(sh, LaunchAt(sh, launch, cwd, placement))
<1>1. PICK h : h = Do(sh, Launch(sh.app, launch, cwd, placement))
  OBVIOUS
<1>2. Grown(sh, h)
  BY <1>1, LaunchGrows, DoGrows DEF Whole
<1> QED
  BY <1>1, <1>2, DroppedGrown DEF LaunchAt

LEMMA RevealSessionGrows ==
  ASSUME NEW sh, Whole(sh), NEW s
  PROVE  Grown(sh, RevealSession(sh, s))
  BY RevealGrows, DoGrows DEF RevealSession, Whole

(* The split of a pane revealed first. *)
LEMMA ActSplitGrows ==
  ASSUME NEW sh, Whole(sh), NEW s, NEW dir \in SplitDir
  PROVE  Grown(sh, ActSplit(sh, s, dir))
<1>1. PICK a, c, d : /\ sh = ShellOf(a, c, d) /\ sh.app = a /\ sh.closing = c /\ sh.drag = d
                     /\ Fits(a) /\ c \in 0 .. Len(a.ws.tabs) /\ d \in Drags
                     /\ Len(a.ws.tabs) \in Nat
  BY WholeIs
<1>2. PICK rv : rv = Retarget(sh, s)
  OBVIOUS
<1>3. PICK m : m = rv.app
  OBVIOUS
<1>4. Retargeted(a, rv) /\ Fits(m) /\ Registered(m) = Registered(a) /\ SameTabs(a.ws, m.ws)
  BY <1>1, <1>2, <1>3, RetargetIs DEF Retargeted
<1>5. PICK r : r = SplitFocused(m, dir)
  OBVIOUS
<1>6. Growing(m, r)
  BY <1>4, <1>5, SplitGrows
<1>7. Sane(rv.app, r)
  BY <1>3, <1>6 DEF Growing
<1>8. PICK b : b = r.app
  OBVIOUS
<1>9. Fits(b) /\ Registered(a) \subseteq Registered(b) /\ Len(m.ws.tabs) <= Len(b.ws.tabs)
  BY <1>4, <1>6, <1>8, GrowingIs
<1>10. Len(m.ws.tabs) = Len(a.ws.tabs) /\ Len(b.ws.tabs) \in Nat
  BY <1>4, <1>9, GoodStrip DEF SameTabs, Fits
<1>11. PICK h : h = ActSplit(sh, s, dir)
  OBVIOUS
<1>12. h = Perform(sh, Answer(r.app, rv.effects \o Settled(m, r).effects))
  <2>1. Settled(m, r).app = r.app
    BY <1>3, <1>7, SettledIs DEF Sane
  <2> QED
    BY <1>2, <1>3, <1>5, <1>11, <2>1 DEF ActSplit
<1>13. PICK k : /\ h = ShellOf(b, k, d)
                /\ k = 0 \/ (k = c /\ ~NoLongerShown(a, m) /\ ~NoLongerShown(m, b))
  BY <1>1, <1>3, <1>4, <1>7, <1>8, <1>12, PerformBoth
<1>14. Whole(h)
  BY <1>1, <1>9, <1>10, <1>13, WholeOf
<1>15. ASSUME c # 0, k # 0
       PROVE  /\ Overlap(a.ws, a.ws.active, b.ws, b.ws.active)
              /\ k = c /\ First(a, c) \in Registered(b)
  <2>1. c \in 1 .. Len(a.ws.tabs) /\ k = c /\ ~NoLongerShown(a, m) /\ ~NoLongerShown(m, b)
    BY <1>1, <1>13, <1>15
  <2>2. Overlap(a.ws, a.ws.active, b.ws, b.ws.active)
    BY <1>1, <1>3, <1>4, <1>9, <2>1, ShownThrough
  <2> QED
    BY <1>1, <1>9, <2>1, <2>2, FirstIs
<1> QED
  BY <1>1, <1>9, <1>11, <1>13, <1>14, <1>15, ShellOfIs DEF Grown, Kept, PromptKept

(* What an action does. *)
LEMMA ActIs ==
  ASSUME NEW sh, NEW action
  PROVE  /\ action = "CloseFocused" => Act(sh, action) = CloseFocusedAction(sh)
         /\ action = "ReopenClosedTab" => Act(sh, action) = ReopenAction(sh)
         /\ action = "TogglePark" => Act(sh, action) = ToggleParkAction(sh)
         /\ action = "NextTab" => Act(sh, action) = CycleTabAction(sh, "Next")
         /\ action = "PrevTab" => Act(sh, action) = CycleTabAction(sh, "Prev")
         /\ action = "FocusNext" => Act(sh, action) = Do(sh, FocusNeighbour(sh.app, "Next"))
         /\ action = "FocusPrev" => Act(sh, action) = Do(sh, FocusNeighbour(sh.app, "Prev"))
         /\ action \in SplitDir => Act(sh, action) = Do(sh, SplitFocused(sh.app, action))
  BY SMT DEF Act, SplitDir

(* Every action but a close. *)
LEMMA ActGrows ==
  ASSUME NEW sh, Whole(sh), NEW action \in TabAction, action # "CloseFocused"
  PROVE  Grown(sh, Act(sh, action))
<1>1. Fits(sh.app)
  BY DEF Whole
<1>2. Grown(sh, ReopenAction(sh))
  BY <1>1, ReopenGrows, DoGrows, DroppedGrown, StillGrown DEF ReopenAction
<1>3. Grown(sh, ToggleParkAction(sh))
  BY <1>1, TabsGrow, DoGrows, StillGrown DEF ToggleParkAction
<1>4. ASSUME NEW step PROVE Grown(sh, CycleTabAction(sh, step))
  <2>1. PICK i : i = CycledTab(sh.app.ws, step)
    OBVIOUS
  <2>2. Grown(sh, DoGesture(sh, ActivateTab(sh.app, i)))
    BY <1>1, TabsGrow, DoGrows
  <2> QED
    BY <2>1, <2>2, StillGrown DEF CycleTabAction
<1>5. ASSUME NEW step PROVE Grown(sh, Do(sh, FocusNeighbour(sh.app, step)))
  BY <1>1, FocusGrows, DoGrows
<1>6. ASSUME NEW dir \in SplitDir PROVE Grown(sh, Do(sh, SplitFocused(sh.app, dir)))
  BY <1>1, SplitGrows, DoGrows
<1>7. \/ action \in {"ReopenClosedTab", "TogglePark", "NextTab", "PrevTab", "FocusNext", "FocusPrev"}
      \/ action \in SplitDir
  BY DEF TabAction
<1> QED
  BY <1>2, <1>3, <1>4, <1>5, <1>6, <1>7, ActIs

(* The close of the pane in focus. *)
LEMMA CloseActionKept ==
  ASSUME NEW sh, Whole(sh)
  PROVE  Kept(sh, CloseFocusedAction(sh))
<1>1. Retargeted(sh.app, Quiet(sh.app))
  BY QuietRetargets DEF Whole
<1>2. Kept(sh, CloseFocusedAfter(sh, Quiet(sh.app)))
  BY <1>1, CloseFocusedKept
<1> QED
  BY <1>2, RequestKept DEF CloseFocusedAction

LEMMA ActKept ==
  ASSUME NEW sh, Whole(sh), NEW action \in TabAction
  PROVE  Kept(sh, Act(sh, action))
<1>1. CASE action = "CloseFocused"
  BY <1>1, CloseActionKept, ActIs
<1>2. CASE action # "CloseFocused"
  BY <1>2, ActGrows DEF Grown
<1> QED
  BY <1>1, <1>2

(* One key: Enter and Escape answer the prompt, if it is up; else an action runs. *)
LEMMA PressIs ==
  ASSUME NEW sh, Whole(sh), NEW key \in {"Enter", "Escape"} \cup TabAction
  PROVE  Press(sh, key) =
           IF sh.closing # 0
           THEN IF key = "Enter" THEN CloseTabAt(sh, sh.closing)
                ELSE IF key = "Escape" THEN [sh EXCEPT !.closing = 0] ELSE sh
           ELSE IF key \in TabAction THEN Act(sh, key) ELSE sh
<1>1. PICK a, c, d : sh = ShellOf(a, c, d) /\ sh.closing = c
  BY WholeIs
<1>2. DropStaleLists(sh) = sh
  BY <1>1, NoStaleLists
<1>3. Owner(sh) = IF c # 0 THEN "TabClose" ELSE "None"
  BY <1>1, OwnerIs
<1>4. Press(sh, key) = PressKey(sh, key)
  BY <1>2 DEF Press
<1>5. key \notin DOMAIN EntryKey
  BY DEF EntryKey, TabAction, SplitDir
<1>6. "Enter" \notin TabAction /\ "Escape" \notin TabAction /\ TabAction \subseteq ActionName
  BY DEF TabAction, SplitDir, ActionName
<1>7. CASE c # 0
  <2>1. Owner(sh) = "TabClose"
    BY <1>3, <1>7
  <2>2. Answered(sh, key)
          = IF key = "Enter" THEN CloseTabAt(sh, sh.closing) ELSE [sh EXCEPT !.closing = 0]
    BY <2>1 DEF Answered
  <2>3. PressKey(sh, key) = IF key \in {"Enter", "Escape"} THEN Answered(sh, key) ELSE sh
    BY <2>1 DEF PressKey
  <2> QED
    BY <1>1, <1>4, <1>7, <2>2, <2>3
<1>8. CASE c = 0
  <2>1. Owner(sh) = "None"
    BY <1>3, <1>8
  <2>2. PressKey(sh, key) = IF key \in ActionName THEN Act(sh, key) ELSE sh
    BY <2>1 DEF PressKey
  <2>3. key \in ActionName <=> key \in TabAction
    BY <1>6 DEF ActionName, OverlayAction
  <2> QED
    BY <1>1, <1>4, <1>8, <2>2, <2>3
<1> QED
  BY <1>7, <1>8

(* The prompt dropped, and nothing else. *)
LEMMA CancelGrows ==
  ASSUME NEW sh, Whole(sh)
  PROVE  Grown(sh, [sh EXCEPT !.closing = 0])
  BY StillGrown, DroppedGrown

LEMMA PressKept ==
  ASSUME NEW sh, Whole(sh), NEW key \in {"Enter", "Escape"} \cup TabAction
  PROVE  Kept(sh, Press(sh, key))
  BY PressIs, CloseTabAtKept, CancelGrows, ActKept, StillKept DEF Grown

-----------------------------------------------------------------------------
(***************************************************************************)
(* The pointer.                                                            *)
(***************************************************************************)

(* A strip has no more tabs than there are ids, each being known by a session. *)
LEMMA TabsAreFew ==
  ASSUME NEW a, Fits(a)
  PROVE  Len(a.ws.tabs) \in 0 .. MaxId
<1>1. PICK n : n = Len(a.ws.tabs)
  OBVIOUS
<1>2. n \in Nat
  BY <1>1, GoodStrip DEF Fits
<1>3. PICK f : f = [i \in 1 .. n |-> First(a, i)]
  OBVIOUS
<1>4. ASSUME NEW i \in 1 .. n PROVE f[i] \in SessionId /\ TabOf(a.ws, f[i]) = i
  BY <1>1, <1>3, FirstIs, IdsAre
<1>5. f \in [1 .. n -> SessionId]
  BY <1>3, <1>4
<1>6. \A i, j \in 1 .. n : f[i] = f[j] => i = j
  BY <1>4
<1>7. f \in Injection(1 .. n, SessionId)
  BY <1>5, <1>6 DEF Injection, IsInjective
<1>8. IsFiniteSet(1 .. n) /\ Cardinality(1 .. n) = n
  <2>1. 1 \in Int /\ n \in Int
    BY <1>2
  <2> QED
    BY <1>2, <2>1, FS_Interval
<1>9. IsFiniteSet(SessionId) /\ Cardinality(SessionId) = MaxId
  <2>1. 1 \in Int /\ MaxId \in Int /\ MaxId \in Nat
    BY AppAssumption
  <2> QED
    BY <2>1, FS_Interval DEF SessionId
<1>10. Cardinality(1 .. n) <= Cardinality(SessionId)
  BY <1>7, <1>9, FS_Injection
<1> QED
  BY <1>1, <1>2, <1>8, <1>9, <1>10

(* A tab's index is one a drag can hold. *)
LEMMA IndexDrags ==
  ASSUME NEW a, Fits(a), NEW i \in 1 .. Len(a.ws.tabs)
  PROVE  i \in 0 .. MaxId + 1
  BY TabsAreFew, AppAssumption

(* The drag alone changed. *)
LEMMA DragSet ==
  ASSUME NEW sh, Whole(sh), NEW e \in Drags, NEW h, h = [sh EXCEPT !.drag = e]
  PROVE  Kept(sh, h) /\ h.app = sh.app /\ h.closing = sh.closing /\ h.drag = e
<1>1. PICK a, c, d : /\ sh = ShellOf(a, c, d) /\ sh.app = a /\ sh.closing = c /\ Fits(a)
                     /\ c \in 0 .. Len(a.ws.tabs)
  BY WholeIs
<1>2. h = ShellOf(a, c, e)
  BY <1>1, NewShellIs DEF ShellOf
<1>3. Whole(h)
  BY <1>1, <1>2, WholeOf
<1>4. Kept(sh, sh)
  BY StillKept
<1>5. h.app = sh.app /\ h.closing = sh.closing /\ h.drag = e
  BY <1>1, <1>2, ShellOfIs
<1> QED
  BY <1>3, <1>4, <1>5 DEF Kept

(* A chip pressed, and the pointer over another. *)
LEMMA DragStartedKept ==
  ASSUME NEW sh, Whole(sh), NEW i
  PROVE  Kept(sh, DragStarted(sh, i)) /\ DragStarted(sh, i).app = sh.app
<1>1. CASE i \in TabsOf(sh)
  <2>1. PICK e : e = [from |-> i, over |-> i]
    OBVIOUS
  <2>2. i \in 1 .. Len(sh.app.ws.tabs) /\ Fits(sh.app)
    BY <1>1, WholeIs DEF Whole
  <2>3. e \in Drags
    BY <2>1, <2>2, IndexDrags DEF Drags
  <2>4. DragStarted(sh, i) = [sh EXCEPT !.drag = e]
    BY <1>1, <2>1 DEF DragStarted
  <2> QED
    BY <2>3, <2>4, DragSet
<1>2. CASE i \notin TabsOf(sh)
  BY <1>2, StillKept DEF DragStarted
<1> QED
  BY <1>1, <1>2

LEMMA DraggedOverKept ==
  ASSUME NEW sh, Whole(sh), NEW i
  PROVE  Kept(sh, DraggedOver(sh, i)) /\ DraggedOver(sh, i).app = sh.app
<1>1. CASE sh.drag # NoDrag /\ i \in TabsOf(sh)
  <2>1. PICK e : e = [sh.drag EXCEPT !.over = i]
    OBVIOUS
  <2>2. i \in 1 .. Len(sh.app.ws.tabs) /\ Fits(sh.app) /\ sh.drag \in Drags
    BY <1>1, WholeIs DEF Whole, Drags
  <2>3. e \in Drags
    BY <2>1, <2>2, IndexDrags DEF Drags
  <2>4. DraggedOver(sh, i) = [sh EXCEPT !.drag = e]
    BY <1>1, <2>1, Zenon DEF DraggedOver
  <2> QED
    BY <2>3, <2>4, DragSet
<1>2. CASE ~(sh.drag # NoDrag /\ i \in TabsOf(sh))
  BY <1>2, StillKept DEF DraggedOver
<1> QED
  BY <1>1, <1>2

(* A message that takes nothing away from the app, whatever becomes of the drag. *)
Grew(sh, h) == Kept(sh, h) /\ Registered(sh.app) \subseteq Registered(h.app)

LEMMA NoDragIs == NoDrag \in Drags
<1>1. 0 \in 0 .. MaxId + 1
  BY AppAssumption
<1> QED
  BY <1>1 DEF NoDrag, Drags

LEMMA DragReleasedKept ==
  ASSUME NEW sh, Whole(sh)
  PROVE  Grew(sh, DragReleased(sh))
<1>1. PICK u : u = [sh EXCEPT !.drag = NoDrag]
  OBVIOUS
<1>2. Kept(sh, u) /\ u.app = sh.app /\ u.closing = sh.closing
  BY <1>1, NoDragIs, DragSet
<1>3. Whole(u) /\ Fits(sh.app)
  BY <1>2 DEF Kept, Whole
<1>4. ASSUME NEW h, Grown(u, h) PROVE Grew(sh, h)
  BY <1>2, <1>4 DEF Grew, Grown, Kept
<1>5. ASSUME NEW i, NEW j PROVE Grew(sh, Do(u, MoveTab(sh.app, i, j)))
  BY <1>2, <1>3, <1>4, TabsGrow, DoGrows
<1>6. ASSUME NEW i PROVE Grew(sh, DoGesture(u, ActivateTab(sh.app, i)))
  BY <1>2, <1>3, <1>4, TabsGrow, DoGrows
<1>7. Grew(sh, sh)
  BY StillKept DEF Grew
<1> QED
  BY <1>1, <1>5, <1>6, <1>7 DEF DragReleased

-----------------------------------------------------------------------------
(***************************************************************************)
(* The indices pointed back at their tabs.                                 *)
(***************************************************************************)

LEMMA FollowIs ==
  ASSUME NEW sh, NEW h, Whole(h), NEW f, f = Follow(sh, h)
  PROVE  /\ f = ShellOf(h.app, FollowClosing(sh, h), FollowDrag(sh, h))
         /\ f.app = h.app
         /\ f.closing = FollowClosing(sh, h)
         /\ f.drag = FollowDrag(sh, h)
<1>1. PICK b, k, e : h = ShellOf(b, k, e) /\ h.app = b
  BY WholeIs
<1>2. PICK c, d : c = FollowClosing(sh, h) /\ d = FollowDrag(sh, h)
  OBVIOUS
<1>3. f = [h EXCEPT !.closing = c, !.drag = d]
  BY <1>2 DEF Follow
<1>4. f = ShellOf(b, c, d)
  BY <1>1, <1>3, NewShellIs DEF ShellOf
<1> QED
  BY <1>1, <1>2, <1>4, ShellOfIs

(* Whatever was there before, they name tabs that are there. *)
LEMMA FollowWhole ==
  ASSUME NEW sh, NEW h, Whole(h)
  PROVE  Whole(Follow(sh, h)) /\ Follow(sh, h).app = h.app
<1>1. PICK b, k, e : /\ h = ShellOf(b, k, e) /\ h.app = b /\ h.closing = k /\ h.drag = e
                     /\ Fits(b) /\ k \in 0 .. Len(b.ws.tabs) /\ e \in Drags
                     /\ Good(b.ws) /\ Len(b.ws.tabs) \in Nat
  BY WholeIs
<1>2. PICK f : f = Follow(sh, h)
  OBVIOUS
<1>3. PICK c, d : c = FollowClosing(sh, h) /\ d = FollowDrag(sh, h)
  OBVIOUS
<1>4. f = ShellOf(b, c, d) /\ f.app = b
  BY <1>1, <1>2, <1>3, FollowIs
<1>5. ASSUME NEW s, Hosts(h, s) PROVE TabOf(b.ws, s) \in 1 .. Len(b.ws.tabs)
  BY <1>1, <1>5, TabOfIs DEF Hosts
<1>6. c \in 0 .. Len(b.ws.tabs)
  BY <1>1, <1>3, <1>5 DEF FollowClosing
<1>7. d \in Drags
  <2>1. CASE d = e
    BY <1>1, <2>1
  <2>2. CASE d # e
    <3>1. PICK s, t : Hosts(h, s) /\ Hosts(h, t)
                      /\ d = [from |-> TabOf(b.ws, s), over |-> TabOf(b.ws, t)]
      BY <1>1, <1>3, <2>2 DEF FollowDrag
    <3> QED
      BY <1>1, <1>5, <3>1, IndexDrags DEF Drags
  <2> QED
    BY <2>1, <2>2
<1> QED
  BY <1>1, <1>2, <1>4, <1>6, <1>7, WholeOf

(* The prompt is on the tab it was. *)
LEMMA FollowPrompt ==
  ASSUME NEW sh, Whole(sh), NEW h, Kept(sh, h), NEW f, f = Follow(sh, h),
         sh.closing # 0, f.closing # 0
  PROVE  /\ sh.closing \in 1 .. Len(sh.app.ws.tabs)
         /\ f.closing \in 1 .. Len(f.app.ws.tabs)
         /\ Overlap(sh.app.ws, sh.closing, f.app.ws, f.closing)
         /\ Overlap(sh.app.ws, sh.app.ws.active, f.app.ws, f.app.ws.active)
<1>1. PICK a, c, d : /\ sh = ShellOf(a, c, d) /\ sh.app = a /\ sh.closing = c /\ Fits(a)
                     /\ c \in 0 .. Len(a.ws.tabs) /\ Good(a.ws) /\ Len(a.ws.tabs) \in Nat
                     /\ TabsOf(sh) = 1 .. Len(a.ws.tabs)
  BY WholeIs
<1>2. Whole(h)
  BY DEF Kept
<1>3. PICK b, k, e : /\ h = ShellOf(b, k, e) /\ h.app = b /\ h.closing = k /\ Fits(b)
                     /\ k \in 0 .. Len(b.ws.tabs) /\ Good(b.ws) /\ Len(b.ws.tabs) \in Nat
  BY <1>2, WholeIs
<1>4. f.app = b /\ f.closing = FollowClosing(sh, h)
  BY <1>2, <1>3, FollowIs
<1>5. c \in 1 .. Len(a.ws.tabs)
  BY <1>1
<1>6. First(a, c) \in HostedBy(a.ws.tabs[c]) /\ FirstAt(sh, c) = First(a, c)
  BY <1>1, <1>5, FirstIs DEF First, FirstAt
<1>7. Anchored(sh, c)
  BY <1>1, <1>5 DEF Anchored
<1>8. CASE k = c /\ Hosts(h, First(a, c))
  <2>1. PICK j : j = TabOf(b.ws, First(a, c))
    OBVIOUS
  <2>2. j \in 1 .. Len(b.ws.tabs) /\ First(a, c) \in HostedBy(b.ws.tabs[j])
    BY <1>3, <1>8, <2>1, TabOfIs DEF Hosts
  <2>3. f.closing = j
    BY <1>1, <1>3, <1>4, <1>6, <1>7, <1>8, <2>1 DEF FollowClosing
  <2>4. Overlap(a.ws, c, b.ws, j)
    BY <1>6, <2>2 DEF Overlap
  <2>5. Overlap(a.ws, a.ws.active, b.ws, b.ws.active)
    BY <1>1, <1>3, <1>5, <1>8 DEF Kept, PromptKept
  <2> QED
    BY <1>1, <1>4, <1>5, <2>2, <2>3, <2>4, <2>5
<1>9. CASE ~(k = c /\ Hosts(h, First(a, c)))
  <2>1. f.closing = k /\ k # 0
    BY <1>1, <1>3, <1>4, <1>6, <1>7, <1>9 DEF FollowClosing
  <2>2. /\ Overlap(a.ws, c, b.ws, k) \/ (k = c /\ First(a, c) \in Registered(b))
        /\ Overlap(a.ws, a.ws.active, b.ws, b.ws.active)
    BY <1>1, <1>3, <2>1 DEF Kept, PromptKept
  <2>3. ~(k = c /\ First(a, c) \in Registered(b))
    BY <1>3, <1>9 DEF Hosts, Fits
  <2>4. k \in 1 .. Len(b.ws.tabs)
    BY <1>3, <2>1
  <2> QED
    BY <1>1, <1>4, <1>5, <2>1, <2>2, <2>3, <2>4
<1> QED
  BY <1>8, <1>9

(* So are the chips. *)
LEMMA FollowChips ==
  ASSUME NEW sh, Whole(sh), NEW h, Whole(h), HeldKept(sh, h), NEW f, f = Follow(sh, h),
         sh.drag.from \in TabsOf(sh), sh.drag.over \in TabsOf(sh), f.drag # NoDrag
  PROVE  /\ f.drag.from \in 1 .. Len(f.app.ws.tabs)
         /\ Overlap(sh.app.ws, sh.drag.from, f.app.ws, f.drag.from)
         /\ \/ f.drag.over = f.drag.from
            \/ /\ f.drag.over \in 1 .. Len(f.app.ws.tabs)
               /\ Overlap(sh.app.ws, sh.drag.over, f.app.ws, f.drag.over)
<1>1. PICK a, c, d : /\ sh.app = a /\ sh.drag = d /\ Fits(a)
                     /\ TabsOf(sh) = 1 .. Len(a.ws.tabs)
  BY WholeIs
<1>2. PICK b, k, e : /\ h.app = b /\ h.drag = e /\ Fits(b) /\ Good(b.ws)
  BY WholeIs
<1>3. f.app = b /\ f.drag = FollowDrag(sh, h)
  BY <1>2, FollowIs
<1>4. PICK i, j : i = d.from /\ j = d.over
  OBVIOUS
<1>5. i \in 1 .. Len(a.ws.tabs) /\ j \in 1 .. Len(a.ws.tabs)
  BY <1>1, <1>4
<1>6. PICK s, t : s = First(a, i) /\ t = First(a, j)
  OBVIOUS
<1>7. /\ s \in HostedBy(a.ws.tabs[i]) /\ FirstAt(sh, i) = s /\ Anchored(sh, i)
      /\ t \in HostedBy(a.ws.tabs[j]) /\ FirstAt(sh, j) = t /\ Anchored(sh, j)
  BY <1>1, <1>5, <1>6, FirstIs DEF First, FirstAt, Anchored
<1>8. FollowDrag(sh, h) = IF e = d /\ Hosts(h, s) /\ Hosts(h, t)
                          THEN [from |-> TabOf(b.ws, s), over |-> TabOf(b.ws, t)]
                          ELSE e
  BY <1>1, <1>2, <1>4, <1>7 DEF FollowDrag
<1>9. CASE e = d /\ Hosts(h, s) /\ Hosts(h, t)
  <2>1. PICK x, y : x = TabOf(b.ws, s) /\ y = TabOf(b.ws, t)
    OBVIOUS
  <2>2. /\ x \in 1 .. Len(b.ws.tabs) /\ s \in HostedBy(b.ws.tabs[x])
        /\ y \in 1 .. Len(b.ws.tabs) /\ t \in HostedBy(b.ws.tabs[y])
    BY <1>2, <1>9, <2>1, TabOfIs DEF Hosts
  <2>3. Overlap(a.ws, i, b.ws, x) /\ Overlap(a.ws, j, b.ws, y)
    BY <1>7, <2>2 DEF Overlap
  <2>4. f.drag = [from |-> x, over |-> y]
    BY <1>3, <1>8, <1>9, <2>1
  <2>5. f.drag.from = x /\ f.drag.over = y
    BY <2>4
  <2> QED
    BY <1>1, <1>3, <1>4, <2>2, <2>3, <2>5
<1>10. CASE ~(e = d /\ Hosts(h, s) /\ Hosts(h, t))
  <2>1. f.drag = e /\ e # NoDrag
    BY <1>3, <1>8, <1>10
  <2>2. DragKept(a, d, b, e)
    BY <1>1, <1>2 DEF HeldKept
  <2>3. ~(e = d /\ First(a, d.from) \in Registered(b) /\ First(a, d.over) \in Registered(b))
    BY <1>2, <1>4, <1>6, <1>10 DEF Hosts, Fits
  <2> QED
    BY <1>1, <1>3, <1>4, <1>5, <2>1, <2>2, <2>3 DEF DragKept
<1> QED
  BY <1>9, <1>10

-----------------------------------------------------------------------------
(***************************************************************************)
(* Runs of keys.  The fold of module SequencesExt recurs over the subsets  *)
(* of the run's indices, the greatest taken out first.                     *)
(***************************************************************************)

(* Induction up to n, over the set of the numbers a fact holds for. *)
LEMMA Reaches ==
  ASSUME NEW n \in Nat, NEW H, 0 \in H,
         \A k \in 1 .. n : k - 1 \in H => k \in H
  PROVE  0 .. n \subseteq H
<1>1. PICK T : T = (0 .. n) \ H
  OBVIOUS
<1>2. ASSUME T # {} PROVE FALSE
  <2>1. T \subseteq Nat
    BY <1>1
  <2>2. PICK k \in T : \A j \in T : k <= j
    BY <1>2, <2>1, Least
  <2>3. k \in 1 .. n /\ k - 1 \in 0 .. n /\ k - 1 < k
    BY <1>1, <2>1, <2>2
  <2>4. k - 1 \notin T
    BY <2>2, <2>3
  <2> QED
    BY <1>1, <2>2, <2>3, <2>4
<1> QED
  BY <1>1, <1>2

(* The greatest element of a set of numbers up to k that has k. *)
LEMMA Top ==
  ASSUME NEW k \in Nat \ {0}, NEW s \in SUBSET (1 .. k), k \in s
  PROVE  Max(s) = k
<1>1. \A y \in s : k >= y
  OBVIOUS
<1>2. Max(s) \in s /\ \A y \in s : Max(s) >= y
  BY <1>1, Zenon DEF Max
<1>3. Max(s) \in 1 .. k /\ Max(s) >= k
  BY <1>2
<1> QED
  BY <1>3

(* f gives, for each set of indices, the shell after its keys. *)
Pressing(f, sh, keys, n) ==
  f = [s \in SUBSET (1 .. n) |-> IF s = {} THEN sh ELSE Press(f[s \ {Max(s)}], keys[Max(s)])]

(* There is such an f, one key more at a time. *)
LEMMA PressingExists ==
  ASSUME NEW sh, NEW keys, NEW n \in Nat
  PROVE  \E f : Pressing(f, sh, keys, n)
<1>1. PICK H : H = {k \in 0 .. n : \E f : Pressing(f, sh, keys, k)}
  OBVIOUS
<1>2. 0 \in H
  <2>1. PICK f : f = [s \in SUBSET (1 .. 0) |-> sh]
    OBVIOUS
  <2>2. \A s \in SUBSET (1 .. 0) : s = {}
    OBVIOUS
  <2>3. Pressing(f, sh, keys, 0)
    BY <2>1, <2>2 DEF Pressing
  <2> QED
    BY <1>1, <2>3
<1>3. ASSUME NEW k \in 1 .. n, k - 1 \in H PROVE k \in H
  <2>1. PICK f : Pressing(f, sh, keys, k - 1)
    BY <1>1, <1>3
  <2>2. PICK g : g = [s \in SUBSET (1 .. k) |->
                        IF k \in s THEN Press(f[s \ {k}], keys[k]) ELSE f[s]]
    OBVIOUS
  <2>3. \A s \in SUBSET (1 .. k) : s \ {k} \in SUBSET (1 .. (k - 1))
    OBVIOUS
  <2>4. \A s \in SUBSET (1 .. k) : k \notin s => s \in SUBSET (1 .. (k - 1))
    BY <2>3
  <2>5. \A s \in SUBSET (1 .. (k - 1)) : s \in SUBSET (1 .. k) /\ k \notin s
    OBVIOUS
  <2>6. \A s \in SUBSET (1 .. (k - 1)) : g[s] = f[s]
    BY <2>2, <2>5
  <2>7. ASSUME NEW s \in SUBSET (1 .. k)
        PROVE  g[s] = IF s = {} THEN sh ELSE Press(g[s \ {Max(s)}], keys[Max(s)])
    <3>1. CASE k \in s
      <4>1. Max(s) = k
        BY <3>1, Top
      <4>2. g[s \ {k}] = f[s \ {k}]
        BY <2>3, <2>6
      <4>3. g[s] = Press(f[s \ {k}], keys[k])
        BY <2>2, <3>1
      <4> QED
        BY <3>1, <4>1, <4>2, <4>3
    <3>2. CASE k \notin s
      <4>1. s \in SUBSET (1 .. (k - 1)) /\ s \ {Max(s)} \in SUBSET (1 .. (k - 1))
        BY <2>4, <3>2
      <4>2. f[s] = IF s = {} THEN sh ELSE Press(f[s \ {Max(s)}], keys[Max(s)])
        BY <2>1, <4>1, Zenon DEF Pressing
      <4> QED
        BY <2>6, <4>1, <4>2
    <3> QED
      BY <3>1, <3>2
  <2>8. Pressing(g, sh, keys, k)
    BY <2>2, <2>7 DEF Pressing
  <2> QED
    BY <1>1, <2>8
<1>4. n \in H
  BY <1>2, <1>3, Reaches
<1> QED
  BY <1>1, <1>4

(* h are the shells on the way through a run of keys. *)
PressSteps(h, sh, keys, n) ==
  /\ h[0] = sh
  /\ h[n] = Presses(sh, keys)
  /\ \A k \in 1 .. n : h[k] = Press(h[k - 1], keys[k])

LEMMA KeyByKey ==
  ASSUME NEW sh, NEW keys, NEW n \in Nat, DOMAIN keys = 1 .. n
  PROVE  \E h : PressSteps(h, sh, keys, n)
<1>1. \E f : f = [s \in SUBSET DOMAIN keys |-> IF s = {} THEN sh
                                               ELSE Press(f[s \ {Max(s)}], keys[Max(s)])]
  <2>1. PICK f : Pressing(f, sh, keys, n)
    BY PressingExists
  <2>2. f = [s \in SUBSET (1 .. n) |-> IF s = {} THEN sh
                                       ELSE Press(f[s \ {Max(s)}], keys[Max(s)])]
    BY <2>1, Zenon DEF Pressing
  <2>3. f = [s \in SUBSET DOMAIN keys |-> IF s = {} THEN sh
                                          ELSE Press(f[s \ {Max(s)}], keys[Max(s)])]
    BY <2>2, Zenon
  <2> QED
    BY <2>3, Zenon
<1>2. PICK iter : iter = CHOOSE g : g =
                    [s \in SUBSET DOMAIN keys |-> IF s = {} THEN sh
                                                  ELSE Press(g[s \ {Max(s)}], keys[Max(s)])]
  OBVIOUS
<1>3. iter = [s \in SUBSET DOMAIN keys |-> IF s = {} THEN sh
                                           ELSE Press(iter[s \ {Max(s)}], keys[Max(s)])]
  BY <1>1, <1>2, Zenon
<1>4. Presses(sh, keys) = iter[DOMAIN keys]
  BY <1>2, Zenon DEF Presses, FoldLeft, MapThenFoldSet
<1>5. PICK h : h = [k \in 0 .. n |-> iter[1 .. k]]
  OBVIOUS
<1>6. h[0] = sh
  <2>1. iter[{}] = sh
    BY <1>3
  <2>2. 1 .. 0 = {} /\ 0 \in 0 .. n
    OBVIOUS
  <2> QED
    BY <1>5, <2>1, <2>2
<1>7. h[n] = Presses(sh, keys)
  BY <1>4, <1>5
<1>8. ASSUME NEW k \in 1 .. n PROVE h[k] = Press(h[k - 1], keys[k])
  <2>1. /\ 1 .. k \in SUBSET DOMAIN keys /\ 1 .. k # {} /\ k \in 1 .. k
        /\ (1 .. k) \ {k} = 1 .. (k - 1)
    OBVIOUS
  <2>2. Max(1 .. k) = k
    BY <2>1, Top
  <2>3. iter[1 .. k] = Press(iter[(1 .. k) \ {Max(1 .. k)}], keys[Max(1 .. k)])
    BY <1>3, <2>1
  <2>4. h[k] = iter[1 .. k] /\ h[k - 1] = iter[1 .. (k - 1)]
    BY <1>5
  <2> QED
    BY <2>1, <2>2, <2>3, <2>4
<1> QED
  BY <1>6, <1>7, <1>8 DEF PressSteps

(* A run of one key. *)
LEMMA OneKey ==
  ASSUME NEW sh, NEW keys, DOMAIN keys = 1 .. 1
  PROVE  Presses(sh, keys) = Press(sh, keys[1])
<1>1. PICK h : PressSteps(h, sh, keys, 1)
  BY KeyByKey
<1> QED
  BY <1>1 DEF PressSteps

(* Every run leaves a shell whole. *)
LEMMA PressesWhole ==
  ASSUME NEW sh, Whole(sh), NEW n \in Nat, NEW keys \in [1 .. n -> {"Enter", "Escape"} \cup TabAction]
  PROVE  Whole(Presses(sh, keys))
<1>1. PICK h : PressSteps(h, sh, keys, n)
  BY KeyByKey
<1>2. PICK H : H = {k \in 0 .. n : Whole(h[k])}
  OBVIOUS
<1>3. 0 \in H
  BY <1>1, <1>2 DEF PressSteps
<1>4. ASSUME NEW k \in 1 .. n, k - 1 \in H PROVE k \in H
  <2>1. PICK u, key : u = h[k - 1] /\ key = keys[k]
    OBVIOUS
  <2>2. Whole(u) /\ key \in {"Enter", "Escape"} \cup TabAction
    BY <1>2, <1>4, <2>1
  <2>3. h[k] = Press(u, key)
    BY <1>1, <2>1 DEF PressSteps
  <2>4. Whole(h[k])
    BY <2>2, <2>3, PressKept DEF Kept
  <2> QED
    BY <1>2, <2>4
<1>5. n \in H
  BY <1>3, <1>4, Reaches
<1> QED
  BY <1>1, <1>2, <1>5 DEF PressSteps

-----------------------------------------------------------------------------
(***************************************************************************)
(* The tabs that run something.                                            *)
(***************************************************************************)

(* Every tab of sh that runs something is still there in h, but the one the prompt
   names. *)
Spared(sh, h) ==
  \A i \in 1 .. Len(sh.app.ws.tabs) :
    TabHasRunningProcess(sh.app, i) /\ i # sh.closing =>
      \E j \in 1 .. Len(h.app.ws.tabs) : Overlap(sh.app.ws, i, h.app.ws, j)

(* None goes when no session does. *)
LEMMA GrewSpares ==
  ASSUME NEW sh, Whole(sh), NEW h, Whole(h), Registered(sh.app) \subseteq Registered(h.app)
  PROVE  Spared(sh, h)
<1>1. PICK a, b : a = sh.app /\ b = h.app
  OBVIOUS
<1>2. Fits(a) /\ Fits(b) /\ Good(b.ws) /\ HostedIn(b.ws) = Registered(b)
  BY <1>1 DEF Whole, Fits
<1>3. ASSUME NEW i \in 1 .. Len(a.ws.tabs)
      PROVE  \E j \in 1 .. Len(b.ws.tabs) : Overlap(a.ws, i, b.ws, j)
  <2>1. PICK s : s = First(a, i)
    OBVIOUS
  <2>2. s \in HostedBy(a.ws.tabs[i]) /\ s \in HostedIn(b.ws)
    BY <1>1, <1>2, <2>1, FirstIs
  <2>3. PICK j \in 1 .. Len(b.ws.tabs) : s \in HostedBy(b.ws.tabs[j])
    BY <1>2, <2>2, HostedInIs
  <2>4. Overlap(a.ws, i, b.ws, j)
    BY <2>2, <2>3 DEF Overlap
  <2> QED
    BY <2>4
<1> QED
  BY <1>1, <1>3 DEF Spared

LEMMA GrownSpares ==
  ASSUME NEW sh, Whole(sh), NEW h, Grown(sh, h)
  PROVE  Spared(sh, h)
  BY GrewSpares DEF Grown, Kept

(* Only the tab closed goes. *)
LEMMA OthersStay ==
  ASSUME NEW sh, Whole(sh), NEW i \in TabsOf(sh)
  PROVE  \A c \in 1 .. Len(sh.app.ws.tabs) :
           c # i => \E j \in 1 .. Len(CloseTabAt(sh, i).app.ws.tabs) :
                      Overlap(sh.app.ws, c, CloseTabAt(sh, i).app.ws, j)
<1>1. PICK a : a = sh.app /\ Fits(a) /\ Len(a.ws.tabs) \in Nat /\ TabsOf(sh) = 1 .. Len(a.ws.tabs)
  BY WholeIs
<1>2. PICK h : h = CloseTabAt(sh, i)
  OBVIOUS
<1>3. PICK b : h = ShellOf(b, 0, sh.drag) /\ Fits(b) /\ Removed(a.ws, b.ws, i)
  BY <1>1, <1>2, CloseTabAtIs
<1>4. h.app = b
  BY <1>3, ShellOfIs
<1>5. ASSUME NEW c \in 1 .. Len(a.ws.tabs), c # i
      PROVE  \E j \in 1 .. Len(b.ws.tabs) : Overlap(a.ws, c, b.ws, j)
  <2>1. PICK k : k = AfterRemoval(c, i)
    OBVIOUS
  <2>2. k \in 1 .. Len(b.ws.tabs) /\ Overlap(a.ws, c, b.ws, k)
    BY <1>1, <1>3, <1>5, <2>1, RemovedOverlaps
  <2> QED
    BY <2>2
<1> QED
  BY <1>1, <1>2, <1>4, <1>5

LEMMA CloseTabAtSpares ==
  ASSUME NEW sh, Whole(sh), NEW i \in TabsOf(sh),
         i = sh.closing \/ ~TabHasRunningProcess(sh.app, i)
  PROVE  Spared(sh, CloseTabAt(sh, i))
  BY OthersStay DEF Spared

(* A request that closes at once closes a tab that runs nothing. *)
LEMMA RequestSpares ==
  ASSUME ClosePolicy # "noConfirmation", NEW sh, Whole(sh), NEW i
  PROVE  Spared(sh, RequestClose(sh, i))
<1>1. Spared(sh, sh)
  BY GrewSpares
<1>2. ASSUME RequestClose(sh, i) = [sh EXCEPT !.closing = i] PROVE Spared(sh, RequestClose(sh, i))
  <2>1. PICK a, c, d : sh = ShellOf(a, c, d) /\ sh.app = a
    BY WholeIs
  <2>2. RequestClose(sh, i) = ShellOf(a, i, d)
    BY <1>2, <2>1, NewShellIs DEF ShellOf
  <2>3. RequestClose(sh, i).app = sh.app
    BY <2>1, <2>2, ShellOfIs
  <2> QED
    BY <1>1, <2>3 DEF Spared
<1>3. ASSUME i \in TabsOf(sh), ~Confirms(TabHasRunningProcess(sh.app, i))
      PROVE  Spared(sh, CloseTabAt(sh, i))
  <2>1. ~TabHasRunningProcess(sh.app, i)
    BY <1>3, ShellAssumption DEF Confirms
  <2> QED
    BY <1>3, <2>1, CloseTabAtSpares
<1>4. \/ RequestClose(sh, i) = sh
      \/ RequestClose(sh, i) = [sh EXCEPT !.closing = i]
      \/ /\ i \in TabsOf(sh) /\ ~Confirms(TabHasRunningProcess(sh.app, i))
         /\ RequestClose(sh, i) = CloseTabAt(sh, i)
  <2>1. CASE sh.closing # 0 \/ i \notin TabsOf(sh)
    BY <2>1 DEF RequestClose
  <2>2. CASE sh.closing = 0 /\ i \in TabsOf(sh)
    <3>1. CASE Confirms(TabHasRunningProcess(sh.app, i))
      BY <2>2, <3>1 DEF RequestClose
    <3>2. CASE ~Confirms(TabHasRunningProcess(sh.app, i))
      BY <2>2, <3>2 DEF RequestClose
    <3> QED
      BY <3>1, <3>2
  <2> QED
    BY <2>1, <2>2
<1> QED
  BY <1>1, <1>2, <1>3, <1>4

(* The close of one pane of several closes no tab. *)
LEMMA CloseActionSpares ==
  ASSUME ClosePolicy # "noConfirmation", NEW sh, Whole(sh)
  PROVE  Spared(sh, CloseFocusedAction(sh))
<1>1. PICK a : a = sh.app /\ Fits(a) /\ Good(a.ws) /\ Len(a.ws.tabs) \in Nat
  BY WholeIs
<1>2. CASE a.ws.tabs # <<>> /\ Cardinality(HostedBy(Shown(a.ws))) > 1
  <2>1. PICK rv : rv = Quiet(a)
    OBVIOUS
  <2>2. Retargeted(a, rv) /\ rv.app = a
    BY <1>1, <2>1, QuietRetargets DEF Quiet, Answer
  <2>3. PICK b, s, h : b = CloseFocusedPane(a).app /\ s = FocusedIn(a.ws)
                       /\ h = CloseFocusedAfter(sh, rv)
    OBVIOUS
  <2>4. ~Lone(a, s)
    <3>1. TabOf(a.ws, s) = a.ws.active
      BY <1>1, <1>2, <2>3, FocusCloses
    <3>2. HostedBy(Shown(a.ws)) # {s}
      <4>1. Cardinality({s}) = 1
        BY FS_Singleton
      <4>2. PICK T : T = HostedBy(Shown(a.ws))
        OBVIOUS
      <4>3. T # {s}
        BY <1>2, <4>1, <4>2
      <4> QED
        BY <4>2, <4>3
    <3> QED
      BY <3>1, <3>2 DEF Lone, Shown
  <2>5. PICK k : h = ShellOf(b, k, sh.drag)
    BY <1>1, <1>2, <2>2, <2>3, <2>4, ClosedAfterIs
  <2>6. h.app = b
    BY <2>5, ShellOfIs
  <2>7. StaysPut(a.ws, b.ws)
    BY <1>1, <1>2, <2>3, <2>4, FocusCloses
  <2>8. Spared(sh, h)
    BY <1>1, <2>6, <2>7 DEF StaysPut, Spared
  <2>9. CloseFocusedAction(sh) = h
    BY <1>1, <1>2, <2>1, <2>3 DEF CloseFocusedAction
  <2> QED
    BY <2>8, <2>9
<1>3. CASE ~(a.ws.tabs # <<>> /\ Cardinality(HostedBy(Shown(a.ws))) > 1)
  BY <1>1, <1>3, RequestSpares DEF CloseFocusedAction
<1> QED
  BY <1>2, <1>3

(* No key closes a tab that runs something, unless Enter answers its prompt. *)
LEMMA PressSpares ==
  ASSUME ClosePolicy # "noConfirmation", NEW sh, Whole(sh),
         NEW key \in {"Enter", "Escape"} \cup TabAction
  PROVE  Spared(sh, Press(sh, key))
<1>1. Spared(sh, sh)
  BY StillGrown, GrownSpares
<1>2. Spared(sh, [sh EXCEPT !.closing = 0])
  BY CancelGrows, GrownSpares
<1>3. ASSUME sh.closing # 0 PROVE Spared(sh, CloseTabAt(sh, sh.closing))
  <2>1. sh.closing \in TabsOf(sh)
    BY <1>3, WholeIs
  <2> QED
    BY <2>1, CloseTabAtSpares
<1>4. ASSUME key \in TabAction PROVE Spared(sh, Act(sh, key))
  <2>1. CASE key = "CloseFocused"
    BY <2>1, CloseActionSpares, ActIs
  <2>2. CASE key # "CloseFocused"
    BY <1>4, <2>2, ActGrows, GrownSpares
  <2> QED
    BY <2>1, <2>2
<1> QED
  BY <1>1, <1>2, <1>3, <1>4, PressIs

-----------------------------------------------------------------------------
(***************************************************************************)
(* Every message.                                                          *)
(***************************************************************************)

Inv == Whole(shell) /\ drawn \in 0 .. MaxId + 1

(* What a message that takes nothing away is handled to. *)
GrowingStep == \E h : shell' = Follow(shell, h) /\ Grown(shell, h)

(* One that keeps the prompt and the chips. *)
KeepingStep == \E h : shell' = Follow(shell, h) /\ Kept(shell, h) /\ HeldKept(shell, h)

(* One that keeps the prompt. *)
PromptStep == \E h : shell' = Follow(shell, h) /\ Kept(shell, h)

LEMMA GrowingSteps ==
  ASSUME Inv, GrowingStep
  PROVE  KeepingStep /\ PromptStep
  BY GrownHeld DEF Inv, GrowingStep, KeepingStep, PromptStep, Grown

LEMMA LaunchStep ==
  ASSUME Inv, NEW l \in Launches, NEW c \in Cwd, NEW p, LaunchSession(l, c, p)
  PROVE  GrowingStep
<1>1. l \in LaunchKind
  BY ShellAssumption
<1> QED
  BY <1>1, LaunchAtGrows DEF Inv, LaunchSession, Update, GrowingStep

LEMMA StatusStep ==
  ASSUME Inv, NEW s \in SessionId, NEW r \in Reports, StatusReport(s, r)
  PROVE  GrowingStep
<1>1. r \in Report
  BY ShellAssumption
<1>2. Growing(shell.app, StatusChanged(shell.app, s, r))
  BY <1>1, StatusGrows DEF Inv, Whole
<1> QED
  BY <1>2, DoGrows DEF Inv, StatusReport, Update, GrowingStep

LEMMA ExitStep ==
  ASSUME Inv, NEW s, NEW clean, Exit(s, clean)
  PROVE  KeepingStep
  BY ExitKept DEF Inv, Exit, Update, KeepingStep

LEMMA FocusSteps ==
  ASSUME Inv, NEW s, FocusPaneOf(s) \/ NotificationClicked(s) \/ McpFocus(s)
  PROVE  GrowingStep
<1>1. CASE FocusPaneOf(s)
  <2>1. Growing(shell.app, FocusPaneAt(shell.app, s))
    BY FocusGrows DEF Inv, Whole
  <2> QED
    BY <1>1, <2>1, DoGrows DEF Inv, FocusPaneOf, Update, GrowingStep
<1>2. CASE NotificationClicked(s) \/ McpFocus(s)
  BY <1>2, RevealSessionGrows DEF Inv, NotificationClicked, McpFocus, Update, GrowingStep
<1> QED
  BY <1>1, <1>2

LEMMA LinkStep ==
  ASSUME Inv, NEW path \in Cwd, OpenLink(path)
  PROVE  GrowingStep
<1>1. Growing(shell.app, OpenRepo(shell.app, path, path))
  BY OpenRepoGrows DEF Inv, Whole
<1> QED
  BY <1>1, DoGrows DEF Inv, OpenLink, Update, GrowingStep

LEMMA SplitStep ==
  ASSUME Inv, NEW s, NEW d \in SplitDirs, McpSplit(s, d)
  PROVE  GrowingStep
<1>1. d \in SplitDir
  BY ShellAssumption
<1> QED
  BY <1>1, ActSplitGrows DEF Inv, McpSplit, Update, GrowingStep

LEMMA CloseStep ==
  ASSUME Inv, NEW s, McpClose(s)
  PROVE  PromptStep
<1>1. Kept(shell, ActClose(shell, s))
  BY RetargetIs, CloseFocusedKept DEF Inv, ActClose
<1> QED
  BY <1>1 DEF McpClose, Update, PromptStep

LEMMA CloseBehindStep ==
  ASSUME Inv, NEW s, McpCloseBehind(s)
  PROVE  KeepingStep
<1>1. s \in Registered(shell.app)
  BY DEF Inv, Whole, Fits, McpCloseBehind, Hosts
<1>2. Kept(shell, ActCloseBehind(shell, s)) /\ HeldKept(shell, ActCloseBehind(shell, s))
  BY <1>1, ClosedPaneKept DEF Inv, ActCloseBehind
<1> QED
  BY <1>2 DEF McpCloseBehind, Update, KeepingStep

(* The prompt and the pointer. *)
LEMMA HandSteps ==
  ASSUME Inv,
         \/ \E i \in TabIndex : RequestCloseTab(i) \/ TabDragStart(i) \/ TabDragOver(i)
         \/ ConfirmClose \/ CancelClose \/ TabDragEnd \/ Unfocused
  PROVE  PromptStep
<1>1. ASSUME NEW i, RequestCloseTab(i) PROVE PromptStep
  BY <1>1, RequestKept DEF Inv, RequestCloseTab, Update, PromptStep
<1>2. ASSUME NEW i, TabDragStart(i) PROVE PromptStep
  BY <1>2, DragStartedKept DEF Inv, TabDragStart, Update, PromptStep
<1>3. ASSUME NEW i, TabDragOver(i) PROVE PromptStep
  BY <1>3, DraggedOverKept DEF Inv, TabDragOver, Update, PromptStep
<1>4. CASE ConfirmClose
  BY <1>4, CloseTabAtKept DEF Inv, ConfirmClose, Update, PromptStep
<1>5. CASE CancelClose
  BY <1>5, CancelGrows DEF Inv, Grown, CancelClose, Update, PromptStep
<1>6. CASE TabDragEnd
  BY <1>6, DragReleasedKept DEF Inv, Grew, TabDragEnd, Update, PromptStep
<1>7. CASE Unfocused
  BY <1>7, NoDragIs, DragSet DEF Inv, Unfocused, Update, PromptStep
<1> QED
  BY <1>1, <1>2, <1>3, <1>4, <1>5, <1>6, <1>7

(* The keys pressed are those the shell knows. *)
LEMMA KeysAre ==
  ASSUME NEW presses \in PressRuns
  PROVE  \E n \in 1 .. MaxPresses :
           n \in Nat /\ presses \in [1 .. n -> {"Enter", "Escape"} \cup TabAction]
<1>1. PICK n \in 1 .. MaxPresses : presses \in [1 .. n -> Pressed]
  BY DEF PressRuns
<1>2. n \in Nat /\ Pressed \subseteq {"Enter", "Escape"} \cup TabAction
  BY ShellAssumption
<1> QED
  BY <1>1, <1>2

LEMMA KeyStep ==
  ASSUME Inv, NEW presses \in PressRuns, Keys(presses), MaxPresses <= 1
  PROVE  PromptStep
<1>1. PICK n \in 1 .. MaxPresses :
        n \in Nat /\ presses \in [1 .. n -> {"Enter", "Escape"} \cup TabAction]
  BY KeysAre
<1>2. n = 1
  BY <1>1, ShellAssumption
<1>3. DOMAIN presses = 1 .. 1 /\ presses[1] \in {"Enter", "Escape"} \cup TabAction
  BY <1>1, <1>2
<1>4. Presses(shell, presses) = Press(shell, presses[1])
  BY <1>3, OneKey
<1>5. Kept(shell, Press(shell, presses[1]))
  BY <1>3, PressKept DEF Inv
<1> QED
  BY <1>4, <1>5 DEF Keys, Update, PromptStep

(* What the next message is. *)
LEMMA StepIs ==
  ASSUME Inv, Next
  PROVE  PromptStep \/ (\E presses \in PressRuns : Keys(presses)) \/ UNCHANGED shell
<1>1. ASSUME NEW l \in Launches, NEW c \in Cwd, NEW p, LaunchSession(l, c, p) PROVE PromptStep
  BY <1>1, LaunchStep, GrowingSteps
<1>2. ASSUME NEW s \in SessionId, FocusPaneOf(s) \/ NotificationClicked(s) \/ McpFocus(s)
      PROVE  PromptStep
  BY <1>2, FocusSteps, GrowingSteps
<1>3. ASSUME NEW s \in SessionId, NEW r \in Reports, StatusReport(s, r) PROVE PromptStep
  BY <1>3, StatusStep, GrowingSteps
<1>4. ASSUME NEW s \in SessionId, NEW clean \in BOOLEAN, Exit(s, clean) PROVE PromptStep
  BY <1>4, ExitStep DEF KeepingStep, PromptStep
<1>5. ASSUME NEW s \in SessionId \cup {0}, McpClose(s) PROVE PromptStep
  BY <1>5, CloseStep
<1>6. ASSUME NEW s \in SessionId \cup {0}, NEW d \in SplitDirs, McpSplit(s, d) PROVE PromptStep
  BY <1>6, SplitStep, GrowingSteps
<1>7. ASSUME NEW s \in SessionId, McpCloseBehind(s) PROVE PromptStep
  BY <1>7, CloseBehindStep DEF KeepingStep, PromptStep
<1>8. ASSUME NEW path \in Cwd, OpenLink(path) PROVE PromptStep
  BY <1>8, LinkStep, GrowingSteps
<1>9. ASSUME Draw PROVE UNCHANGED shell
  BY <1>9 DEF Draw
<1> QED
  BY <1>1, <1>2, <1>3, <1>4, <1>5, <1>6, <1>7, <1>8, <1>9, HandSteps DEF Next

(* The card is drawn for a tab there is, and the messages leave it as drawn. *)
LEMMA DrawnStep ==
  ASSUME Inv, Next
  PROVE  drawn' \in 0 .. MaxId + 1
<1>1. CASE Draw
  <2>1. shell.closing \in 0 .. Len(shell.app.ws.tabs) /\ Fits(shell.app)
    BY DEF Inv, Whole
  <2>2. Len(shell.app.ws.tabs) \in 0 .. MaxId /\ MaxId \in Nat
    BY <2>1, TabsAreFew, AppAssumption
  <2> QED
    BY <1>1, <2>1, <2>2 DEF Draw
<1>2. CASE ~Draw
  <2>1. UNCHANGED drawn
    BY <1>2 DEF Next, Update, LaunchSession, RequestCloseTab, TabDragStart, TabDragOver, Keys,
       FocusPaneOf, NotificationClicked, McpFocus, StatusReport, Exit, McpClose, McpSplit,
       McpCloseBehind, OpenLink, ConfirmClose, CancelClose, TabDragEnd, Unfocused
  <2> QED
    BY <2>1 DEF Inv
<1> QED
  BY <1>1, <1>2

-----------------------------------------------------------------------------
(***************************************************************************)
(* The invariant and what it gives.                                        *)
(***************************************************************************)

(* Putting back what a function holds changes nothing. *)
LEMMA PutBack ==
  ASSUME NEW S, NEW T, NEW f \in [S -> T], NEW i \in S, NEW j \in S, NEW k \in S,
         NEW u, u = f[i], NEW v, v = f[j], NEW w, w = f[k]
  PROVE  [f EXCEPT ![i] = u, ![j] = v, ![k] = w] = f
  OBVIOUS

LEMMA InitInv == Init => Inv
<1>1. PICK a, live : a = NoApp /\ live = <<>>
  OBVIOUS
<1>2. a = AppOf(EmptyWorkspace, live, 0, <<>>)
  BY <1>1 DEF NoApp, AppOf
<1>3. DOMAIN live = {} /\ <<>> \in Seq(Closed) /\ Len(<<>>) <= MaxClosed /\ 0 \in 0 .. MaxId
  BY <1>1, AppAssumption
<1>4. Fits(a)
  BY <1>2, <1>3, EmptyGood, FitsOf
<1>5. a.ws.tabs = <<>>
  BY <1>2, AppOfFields DEF EmptyWorkspace
<1>6. Len(a.ws.tabs) = 0
  BY <1>4, <1>5, NoTab
<1>7. PICK no : no = FALSE
  OBVIOUS
<1>8. NewShell =
        [app |-> NoApp, closing |-> 0, drag |-> NoDrag, rename |-> NoRename, menu |-> NoMenu,
         picker |-> 0, command |-> NoCommand, remote |-> no, ready |-> {}, left |-> {},
         typed |-> <<>>]
  BY <1>7, Zenon DEF NewShell
<1> HIDE <1>7
<1>9. NewShell = ShellOf(a, 0, NoDrag)
  <2>1. PICK sh, app, drag : sh = NewShell /\ app = NoApp /\ drag = NoDrag
    OBVIOUS
  <2>2. sh = [app |-> app, closing |-> 0, drag |-> drag, rename |-> NoRename, menu |-> NoMenu,
              picker |-> 0, command |-> NoCommand, remote |-> no, ready |-> {}, left |-> {},
              typed |-> <<>>]
    BY <1>8, <2>1, Zenon
  <2>3. [sh EXCEPT !.app = app, !.closing = 0, !.drag = drag] = sh
    <3>1. PICK i, j, k : i = "app" /\ j = "closing" /\ k = "drag"
      OBVIOUS
    <3>2. sh \in [DOMAIN sh -> {sh[name] : name \in DOMAIN sh}] /\ {i, j, k} \subseteq DOMAIN sh
      BY <2>2, <3>1
    <3>3. sh[i] = app /\ sh[j] = 0 /\ sh[k] = drag
      BY <2>2, <3>1
    <3>4. [sh EXCEPT ![i] = app, ![j] = 0, ![k] = drag] = sh
      BY <3>2, <3>3, PutBack
    <3> QED
      BY <3>1, <3>4, Zenon
  <2>4. a = app
    BY <1>1, <2>1, Zenon
  <2> QED
    BY <2>1, <2>3, <2>4, Zenon DEF ShellOf
<1>10. Whole(NewShell)
  BY <1>4, <1>6, <1>9, NoDragIs, WholeOf
<1> QED
  BY <1>10, AppAssumption DEF Init, Inv

(* Whatever the message, and however many keys it presses. *)
LEMMA StepWhole ==
  ASSUME Inv, Next
  PROVE  Whole(shell')
<1>1. CASE PromptStep
  BY <1>1, FollowWhole DEF PromptStep, Kept
<1>2. ASSUME NEW presses \in PressRuns, Keys(presses) PROVE Whole(shell')
  <2>1. PICK n : n \in Nat /\ presses \in [1 .. n -> {"Enter", "Escape"} \cup TabAction]
    BY KeysAre
  <2>2. Whole(Presses(shell, presses))
    BY <2>1, PressesWhole DEF Inv
  <2> QED
    BY <1>2, <2>2, FollowWhole DEF Keys, Update
<1>3. CASE UNCHANGED shell
  BY <1>3 DEF Inv
<1> QED
  BY <1>1, <1>2, <1>3, StepIs

(* The tabs are those of the strip, the one shown among them. *)
LEMMA TabsAre ==
  ASSUME NEW sh, Whole(sh)
  PROVE  /\ TabsOf(sh) = 1 .. Len(sh.app.ws.tabs)
         /\ \A i \in TabsOf(sh) : sh.app.ws.active \in TabsOf(sh)
         /\ sh.closing # 0 => sh.closing \in TabsOf(sh)
<1>1. PICK a, c, d : /\ sh.app = a /\ sh.closing = c /\ Fits(a) /\ c \in 0 .. Len(a.ws.tabs)
                     /\ Len(a.ws.tabs) \in Nat /\ TabsOf(sh) = 1 .. Len(a.ws.tabs)
  BY WholeIs
<1>2. \A i \in 1 .. Len(a.ws.tabs) : a.ws.active \in 1 .. Len(a.ws.tabs)
  BY <1>1, SomeTab
<1>3. c # 0 => c \in 1 .. Len(a.ws.tabs)
  BY <1>1
<1> QED
  BY <1>1, <1>2, <1>3

LEMMA TypedFacts == Inv => TypeOK
<1> SUFFICES ASSUME Inv PROVE TypeOK
  OBVIOUS
<1>1. Whole(shell) /\ Fits(shell.app)
  BY DEF Inv, Whole
<1>2. shell = [NewShell EXCEPT !.app = shell.app, !.closing = shell.closing, !.drag = shell.drag]
  BY <1>1 DEF Whole, ShellOf
<1>3. Registered(shell.app) \in SUBSET SessionId
  BY <1>1, IdsAre
<1>4. shell.closing \in Tabs \cup {0}
  BY <1>1, TabsAre DEF Tabs
<1>5. TabIndex \cup {0} = 0 .. MaxId + 1
  BY AppAssumption DEF TabIndex
<1>6. shell.drag \in [from : TabIndex \cup {0}, over : TabIndex \cup {0}]
  BY <1>1, <1>5 DEF Whole
<1>7. drawn \in TabIndex \cup {0}
  BY <1>5 DEF Inv
<1> QED
  BY <1>2, <1>3, <1>4, <1>6, <1>7 DEF TypeOK

(* A prompt that stays up is on its tab, and its tab's neighbour on screen stays. *)
LEMMA PromptFacts ==
  ASSUME Inv, Next, shell' # shell, MaxPresses <= 1, Prompting, Prompting'
  PROVE  Same(shell.closing, shell'.closing) /\ Same(shell.app.ws.active, shell'.app.ws.active)
<1>1. PICK h : shell' = Follow(shell, h) /\ Kept(shell, h)
  BY StepIs, KeyStep DEF PromptStep
<1>2. Whole(shell) /\ Whole(shell')
  BY StepWhole DEF Inv
<1>3. shell.closing # 0 /\ shell'.closing # 0
  BY DEF Prompting
<1>4. PICK f : f = shell'
  OBVIOUS
<1>5. /\ Overlap(shell.app.ws, shell.closing, f.app.ws, f.closing)
      /\ Overlap(shell.app.ws, shell.app.ws.active, f.app.ws, f.app.ws.active)
  BY <1>1, <1>2, <1>3, <1>4, FollowPrompt
<1>6. shell.closing \in TabsOf(shell) /\ shell.app.ws.active \in TabsOf(shell)
  BY <1>2, <1>3, TabsAre
<1>7. f.closing \in TabsOf(f) /\ f.app.ws.active \in TabsOf(f)
  BY <1>2, <1>3, <1>4, TabsAre
<1> QED
  BY <1>4, <1>5, <1>6, <1>7 DEF Same, Tabs, Overlap

(* What a gesture of the user leaves of the tabs that run something: all but the
   one asked about, *)
LEMMA HandSpares ==
  ASSUME Inv, ByHand, ~ConfirmClose, ClosePolicy # "noConfirmation"
  PROVE  \E h : shell' = Follow(shell, h) /\ Whole(h) /\ Spared(shell, h)
<1> DEFINE Goal == \E h : shell' = Follow(shell, h) /\ Whole(h) /\ Spared(shell, h)
<1>1. ASSUME NEW i, RequestCloseTab(i) PROVE Goal
  BY <1>1, RequestKept, RequestSpares DEF Inv, Kept, RequestCloseTab, Update
<1>2. ASSUME NEW i, TabDragStart(i) PROVE Goal
  BY <1>2, DragStartedKept, GrewSpares DEF Inv, Kept, TabDragStart, Update
<1>3. ASSUME NEW i, TabDragOver(i) PROVE Goal
  BY <1>3, DraggedOverKept, GrewSpares DEF Inv, Kept, TabDragOver, Update
<1>4. ASSUME NEW key \in Pressed, Keys(<<key>>) PROVE Goal
  <2>1. PICK presses : presses = <<key>>
    OBVIOUS
  <2>2. DOMAIN presses = 1 .. 1 /\ presses[1] = key
    BY <2>1
  <2>3. key \in {"Enter", "Escape"} \cup TabAction
    BY ShellAssumption
  <2>4. Presses(shell, presses) = Press(shell, key)
    BY <2>2, OneKey
  <2>5. shell' = Follow(shell, Press(shell, key))
    BY <1>4, <2>1, <2>4 DEF Keys, Update
  <2> QED
    BY <2>3, <2>5, PressKept, PressSpares DEF Inv, Kept
<1>5. CASE CancelClose
  BY <1>5, CancelGrows, GrownSpares DEF Inv, Grown, Kept, CancelClose, Update
<1>6. CASE TabDragEnd
  BY <1>6, DragReleasedKept, GrewSpares DEF Inv, Grew, Kept, TabDragEnd, Update
<1>7. CASE Unfocused
  BY <1>7, NoDragIs, DragSet, GrewSpares DEF Inv, Kept, Unfocused, Update
<1> QED
  BY <1>1, <1>2, <1>3, <1>4, <1>5, <1>6, <1>7 DEF ByHand

(* and a click on the card all but the one it was drawn for. *)
LEMMA ClickSpares ==
  ASSUME Inv, ConfirmClose
  PROVE  \E h : /\ shell' = Follow(shell, h) /\ Whole(h)
                /\ \A i \in 1 .. Len(shell.app.ws.tabs) :
                     TabHasRunningProcess(shell.app, i) /\ i # shell.closing /\ i # drawn =>
                       \E j \in 1 .. Len(h.app.ws.tabs) : Overlap(shell.app.ws, i, h.app.ws, j)
<1>1. PICK h : h = CloseTabAt(shell, drawn)
  OBVIOUS
<1>2. Whole(shell) /\ Whole(h) /\ shell' = Follow(shell, h)
  BY <1>1, CloseTabAtKept DEF Inv, Kept, ConfirmClose, Update
<1>3. CASE drawn \in TabsOf(shell)
  BY <1>1, <1>2, <1>3, OthersStay
<1>4. CASE drawn \notin TabsOf(shell)
  <2>1. PICK b : h = ShellOf(b, 0, shell.drag) /\ b = shell.app
    BY <1>1, <1>2, <1>4, CloseTabAtIs
  <2>2. h.app = shell.app
    BY <2>1, ShellOfIs
  <2>3. Spared(shell, h)
    BY <1>2, <2>2, GrewSpares
  <2> QED
    BY <1>2, <2>3 DEF Spared
<1> QED
  BY <1>3, <1>4

LEMMA RunningFacts ==
  ASSUME Inv, ByHand, ClosePolicy # "noConfirmation",
         NEW i \in Tabs, TabHasRunningProcess(shell.app, i), \A j \in Tabs' : ~Same(i, j)
  PROVE  shell.closing = i \/ (ConfirmClose /\ drawn = i)
<1>1. PICK h :
        /\ shell' = Follow(shell, h) /\ Whole(h)
        /\ \A c \in 1 .. Len(shell.app.ws.tabs) :
             /\ TabHasRunningProcess(shell.app, c) /\ c # shell.closing
             /\ ~(ConfirmClose /\ drawn = c)
             => \E j \in 1 .. Len(h.app.ws.tabs) : Overlap(shell.app.ws, c, h.app.ws, j)
  <2>1. CASE ConfirmClose
    BY <2>1, ClickSpares
  <2>2. CASE ~ConfirmClose
    BY <2>2, HandSpares DEF Spared
  <2> QED
    BY <2>1, <2>2
<1>2. Whole(shell') /\ shell'.app = h.app
  BY <1>1, FollowWhole
<1>3. Tabs = 1 .. Len(shell.app.ws.tabs) /\ Tabs' = 1 .. Len(h.app.ws.tabs)
  BY <1>2, TabsAre DEF Inv, Tabs
<1>4. ASSUME i # shell.closing, ~(ConfirmClose /\ drawn = i) PROVE FALSE
  <2>1. PICK j \in 1 .. Len(h.app.ws.tabs) : Overlap(shell.app.ws, i, h.app.ws, j)
    BY <1>1, <1>3, <1>4
  <2>2. Same(i, j)
    BY <1>2, <1>3, <2>1 DEF Overlap, Same
  <2> QED
    BY <1>3, <2>2
<1> QED
  BY <1>4

(* The messages behind the user's back keep the chips. *)
LEMMA BehindKeeps ==
  ASSUME Inv, Behind
  PROVE  KeepingStep
<1>1. ASSUME NEW l \in Launches, NEW c \in Cwd, NEW p, LaunchSession(l, c, p) PROVE KeepingStep
  BY <1>1, LaunchStep, GrowingSteps
<1>2. ASSUME NEW s \in SessionId, NEW r \in Reports, StatusReport(s, r) PROVE KeepingStep
  BY <1>2, StatusStep, GrowingSteps
<1>3. ASSUME NEW s \in SessionId, NEW clean \in BOOLEAN, Exit(s, clean) PROVE KeepingStep
  BY <1>3, ExitStep
<1>4. ASSUME NEW s \in SessionId, McpCloseBehind(s) PROVE KeepingStep
  BY <1>4, CloseBehindStep
<1>5. ASSUME NEW s \in SessionId, McpFocus(s) PROVE KeepingStep
  BY <1>5, FocusSteps, GrowingSteps
<1> QED
  BY <1>1, <1>2, <1>3, <1>4, <1>5 DEF Behind

LEMMA HeldFacts ==
  ASSUME Inv, DragOn, Behind
  PROVE  HeldTabKept
<1>1. PICK h : shell' = Follow(shell, h) /\ Kept(shell, h) /\ HeldKept(shell, h)
  BY BehindKeeps DEF KeepingStep
<1>2. Whole(shell) /\ Whole(h) /\ Whole(shell')
  BY <1>1, FollowWhole DEF Inv, Kept
<1>3. PICK f : f = shell'
  OBVIOUS
<1>4. /\ shell.drag.from \in TabsOf(shell) /\ shell.drag.over \in TabsOf(shell)
      /\ f.drag # NoDrag
  BY <1>3 DEF DragOn, Dragging, Tabs
<1>5. /\ f.drag.from \in 1 .. Len(f.app.ws.tabs)
      /\ Overlap(shell.app.ws, shell.drag.from, f.app.ws, f.drag.from)
      /\ \/ f.drag.over = f.drag.from
         \/ /\ f.drag.over \in 1 .. Len(f.app.ws.tabs)
            /\ Overlap(shell.app.ws, shell.drag.over, f.app.ws, f.drag.over)
  BY <1>1, <1>2, <1>3, <1>4, FollowChips
<1>6. Tabs = TabsOf(shell) /\ Tabs' = 1 .. Len(f.app.ws.tabs)
  BY <1>2, <1>3, TabsAre DEF Tabs
<1> QED
  BY <1>3, <1>4, <1>5, <1>6 DEF HeldTabKept, Same, Overlap

-----------------------------------------------------------------------------
(***************************************************************************)
(* The theorems.                                                           *)
(***************************************************************************)

(* After every message the app fits and what the shell keeps by index names tabs
   that are there: what each of them relies on. *)
THEOREM ShellInvariant == Spec => []Inv
<1>1. Inv /\ [Next]_vars => Inv'
  BY StepWhole, DrawnStep DEF Inv, vars
<1> QED
  BY <1>1, InitInv, PTL DEF Spec

(* A prompt that is up names a tab of the strip, and the indices stay in their
   types, whichever keys an MCP caller presses in a row. *)
THEOREM ShellTyped == Spec => []TypeOK
  BY ShellInvariant, TypedFacts, PTL

(* A close prompt left up by a message, an exit, an unpark, a drag or a close
   behind it, names the tab it named before (`TabAnchors::follow`).  Within one
   request of several keys it may be dropped and armed again for another tab. *)
THEOREM ShellPrompt == ASSUME MaxPresses <= 1 PROVE Spec => PromptFollowsTab
<1>1. Inv /\ [Next]_vars =>
        [Prompting /\ Prompting' => Same(shell.closing, shell'.closing)]_shell
  BY PromptFacts DEF vars
<1> QED
  BY <1>1, ShellInvariant, PTL DEF Spec, PromptFollowsTab

(* A prompt left up is drawn over the tab it was drawn over: whatever shows
   another drops it (the arm of `Effect::TabShown` in perform). *)
THEOREM ShellPromptDropped == ASSUME MaxPresses <= 1 PROVE Spec => PromptDroppedOnSwitch
<1>1. Inv /\ [Next]_vars =>
        [Prompting /\ Prompting' => Same(shell.app.ws.active, shell'.app.ws.active)]_shell
  BY PromptFacts DEF vars
<1> QED
  BY <1>1, ShellInvariant, PTL DEF Spec, PromptDroppedOnSwitch

(* Unless the setting asks for no confirmation, no gesture of the user closes a tab
   that runs something but the answer to the prompt that names it, and a click on
   the card, which closes what is by now at the index the card was drawn with. *)
THEOREM ShellRunning == ASSUME ClosePolicy # "noConfirmation" PROVE Spec => RunningTabConfirmed
<1>1. Inv /\ [Next]_vars =>
        [\/ \A i \in Tabs :
              TabHasRunningProcess(shell.app, i) /\ (\A j \in Tabs' : ~Same(i, j)) =>
                shell.closing = i \/ (ConfirmClose /\ drawn = i)
         \/ ~ByHand]_shell
  BY RunningFacts DEF vars
<1> QED
  BY <1>1, ShellInvariant, PTL DEF Spec, RunningTabConfirmed

(* Reports, exits, launches and background closes leave the chip held and the slot
   aimed at on their tabs, or end the drag, or make the release a click. *)
THEOREM ShellDrag == Spec => DragFollowsTab
<1>1. Inv /\ [Next]_vars => [HeldTabKept \/ ~(DragOn /\ Behind)]_shell
  BY HeldFacts DEF vars
<1> QED
  BY <1>1, ShellInvariant, PTL DEF Spec, DragFollowsTab

=============================================================================
