# Termherd in TLA+

Termherd is a terminal workspace for coding sessions: tabs split into panes, each
pane a PTY running a shell or a Claude, a sidebar of the conversations found on
disk, and an MCP endpoint through which agents open, read, move and close panes
beside the user. This directory models the parts of it where several actors work
on the same state, checks the models with TLC and proves with TLAPS what can be
proved of them for every value of their constants: all that is checked of the strip,
its trees of panes, the application core and what the shell keeps by tab index, the end and
the statuses of a PTY session, the edits of a document, links acted on once, the hover and the sidebar.
File paths below are relative to the repository, `crates/` being the Rust workspace.

## The system

| Part | State | Operations | What makes it hard, and correct |
|---|---|---|---|
| Pane tree (`core/src/workspace.rs`) | a binary tree of panes per tab, a path to the focused leaf | split, close a leaf, cycle, move by direction, focus a session | closing a leaf rewrites the paths of all leaves below its sibling; the path must always end on a leaf |
| Tab strip (`core/src/workspace.rs`) | tabs, unparked ones first; the active index | open, append, move, park, unpark, close, reveal | every operation shifts indices; the tab on screen must stay on screen |
| Application core (`core/src/app.rs`, `app/*.rs`) | the strip, the session registry, the reopen stack, the id counter | `App::apply(Event)` returning effects | a session is registered iff a pane hosts it; PTY reports come late; the shell is told when the shown tab changes |
| Core: metadata, titles (`core/src/metadata.rs`, `title.rs`, `app/retitle.rs`) | user's names and colours per conversation | rename, star, archive, retitle | a rename across an open session, its transcript and its recorded name |
| Core: links and hover (`core/src/app/hover.rs`, `links.rs`, `paths.rs`) | the target under the pointer, pending resolutions | hover, resolve, activate | a path is resolved off the main thread while pointer and screen move on |
| Core: sidebar, browser, keymap, snapshot | filters, cursor, chords | pure queries | - |
| Shell (`app/src/shell.rs`, `shell/*.rs`) | the core, view state keyed by tab index (close prompt, tab drag), prompts, overlays | `update(Message)` | index-keyed state must follow tabs that exits, unparks, drags and MCP callers move |
| MCP bridge (`app/src/shell/bridge.rs`, `serve.rs`) | a bounded request channel, callers waiting for a status | call, answer, sweep | a timeout races the answer; a waiter must be answered when its session goes |
| Documents editor (`app/src/shell/docs.rs`, `docs.rs`, `core/src/docscope.rs`) | the open plan or memory file, its unsaved mark, the prompt to discard it | open, edit, save, close, quit | reads and saves run elsewhere and answer late; agents write the same files |
| Launch of another instance, notifications (`instance.rs`, `link_inbox.rs`, `notify_click.rs`) | a lock file, an inbox of files, click slots | claim, deposit, drain, post | two processes, crashes between two file operations |
| PTY adapter (`pty/src/*.rs`) | per session a reader, a waiter, a watcher and a terminal thread; the map of sessions | spawn, write, resize, kill | the child's end is seen by three threads in any order; a kill races it |
| Scanner and watcher (`scan/src/*.rs`, `shell/streams.rs`) | the conversations on disk | scan, watch with debounce | file events that arrive during a scan |
| Claude codec (`claude/src/*.rs`) | - | digest of a transcript, status from a title | pure |
| Persistence (`json_store.rs`, `metadata_store.rs`, `live_settings.rs`) | JSON files | load, reload, save | files are overwritten in place; an unparseable one is set aside |
| MCP servers (`app/src/mcp/*.rs`, `mcp/src/*.rs`) | tokens that tie callers to sessions | tools | - |
| View, input geometry, platform | - | drawing, hit tests | - |

The shell is single-threaded: iced runs `update` on one message to its end, then
the next. What interleaves is the order of the messages: keys and clicks, MCP
requests (`Shell::serve`), PTY events (one unbounded channel for all sessions),
results of file and process work started by an earlier message. The core is a
pure function `App::apply(&mut self, Event) -> Vec<Effect>`; the shell carries the
effects out. So the modules' actions are whole handlers, and their
nondeterminism is which message comes next, and with which indices and session
ids: those may be stale, because the view that made them was drawn earlier and
the terminals' reports cross the user's closes.

## The modules

    PaneTree        one tab's tree of panes: pure operators
      TabStrip      the strip, the operations of `Workspace`: pure operators
        Workspace   ... as a state machine, any operation on any tab
        AppCore     `App`: registry, reopen stack, handlers with their effects
          App       ... as a state machine, any event in any order
          Overlays  what holds the keyboard: pure operators over AppCore
            ShellCore  what one message does to the shell: pure operators
              Shell    ... as a state machine: close prompt, drag, keys, MCP
              Prompts  ... as a state machine: rename, lists, Claude command
          Bridge    MCP callers, their channel and waiters over AppCore
    Activity          a session's activity: fold, hold, poll; pure operators
      PtySession      the threads of one PTY session on Unix
    SessionFeed       what the runtime relies on of a session: its abstract spec
    Documents         the document editor, its reads and saves, other writers
    Links             launches that hand a link to the running instance
    Settings          settings.json: its readers and its three writers
    Hover             the target under the pointer and its resolutions
    Scans             the file watch, the scans it asks for and the sidebar
    CoreProofs        lemmas about the operators of PaneTree, TabStrip and AppCore
    WorkspaceProofs, AppProofs, ShellProofs, BridgeProofs, PtySessionProofs,
    DocumentsProofs, TasksProofs
                      theorems
    MCWorkspace, MCApp, MCShell, MCPtySession, MCBridge, MCDocuments
                      instances for TLC
    MCPrompts         Shell and Prompts, one at a time, for TLC
    MCTasks           Links, Settings, Hover and Scans, one at a time, for TLC

**PaneTree.** The code's `Pane` is a boxed tree, and each of its walks is
recursive. The model says the same without recursion: a layout is a record `at`,
each hosted session's path from the root (a sequence of branches), `dir`, each
inner node's orientation, and `focus`, a path. `IsTree` says that such a record
is a binary tree with each session at one leaf, an invariant of Workspace
(`PanesWellFormed`). A split, `SplitFocus`, lengthens the focused leaf's path; a
close, `CloseLeaf`, cuts one branch out of every path through the sibling
(`Collapse`), and then lets the focus go where the code sends it, to its own leaf
again if that survives, else to the first leaf of the promoted sibling.
`FocusDirOf` crosses the nearest split of the axis on the wanted side, or wraps
around the outermost. Split ratios are left out: no operation reads them.

**TabStrip.** A workspace is `[tabs, active]`, a tab `[layout, parked]`; titles are
left out. Tabs count from 1, so index 0 of the code is 1 here, and `active` of an
empty strip is 1. `InsertTab`, `Relocate`, `AfterRemoval`-style index shifts and
the fallback to the nearest unparked tab are those of the code.

**AppCore, App.** An app is `[ws, live, nextId, closed]`. A handler is a function
from an app to the next app and the effects it returns; only `Spawn`, `Kill` and
`TabShown` are kept. `App` has one action per event of `App::dispatch` that
reaches this state. An action of the strip's gestures (activate, park, a link)
ends in `Gesture`, which reports `TabShown` in any case; every other ends in
`Settled`, the comparison at the end of `apply`. Sessions named by an event range
over all ids, minted or not, registered or not; indices run past the strip.

**Overlays, ShellCore.** The shell is a record: the core, the close prompt's index,
the drag, and the overlays with the pane each is anchored on. `Owner` is the ladder of
`keyboard_owner`, of whose eleven rungs five are here, in the code's order. A Claude can
take a command (`CanTake`) if it runs, is idle and shows an empty prompt; the
status and the screen that say so are one flag per session (`ready`), as each may
change in any message. What a command, a name or a colour says is left out, and so is
the selection of a list: a key of the model may be an entry (`EntryKey`), standing for
the arrows that lead to it and Enter.

**Shell.** One action per message: `Update` runs
the handler and then `Follow` (`TabAnchors::follow`), which points the prompt and
the drag back at the tabs they named when the message left them as they were.
`Keys` is one key of the user or the run of keys that one MCP `press` request
replays inside one message. Here the close prompt is the only overlay that comes up. Messages come in batches, and the
window is drawn again after each: `drawn` is the index the close card's button was drawn
with (`close_confirmation`), `Draw` the redraw, and `ConfirmClose` closes that index, which
the shell does not compare with the one it asks about. Effects are performed where the code performs them: an MCP close first
reveals the pane, and performs the reveal's effects with those of the close.

**Prompts.** The other four overlays, against a user who clicks anywhere, terminals and
MCP callers. Every message first drops the lists out of focus (`Received`); a gesture
elsewhere commits the rename (`Elsewhere`). The overlays do not hide the window from the pointer in the
model: a click may be in the batch of the message that opened one, and the close card's
button is `drawn` as in Shell. `unread` is a
ghost: a command was armed by an MCP caller, whatever the request, within the last 600 ms
(`REMOTE_ARM_GRACE`), which `GracePasses` ends. The code's own
record of that is `command.soon`.

**Activity, PtySession.** A session has four threads (`pty/src/session.rs`). The
reader (`Read`) carries the child's output, the waiter (`Wait`) sees its end, the
watcher (`Watch`) polls the foreground process; all send to the channel of the
terminal thread, as does the manager for the user's commands (`Command`). Only
the terminal thread speaks to the runtime. `Handle` is its handling of one
command, `SettleHeld` and `Flush` its two deadlines (`next_cmd`), `Drain` and
`Finish` the loop after the child's end and the exit. Channels are unbounded in
the code, so no sender ever waits. `Activity` is `status.rs`: prompt marks and Claude's
signals in a chunk are folded into a status, an idle title that ends a busy
stretch is held (`HoldAfter`) before it is published (`Settle`), a poll counts
only until the terminal has spoken for itself. A chunk is what the decoders find
in it, `[marks, signals]`. What a redraw shows is left out, that one is due is
not (`unsent`, `fresh`). Time is counted in ticks; `Tick` is the clock, `Behind`
what the terminal thread could have done already.

**SessionFeed.** The contract of a session, whatever its threads do: a status is
reported when it moved, the exit once, after the child's end and last, and once
the child is gone it is told. `PtySession` implements it with `told` and
`entry` for its variables.

**Bridge.** A caller runs a tool: a list of calls, each sent over the channel and
answered through a port of its own. `Enqueue` waits for a place, `Expire` is the
time limit, which covers the wait for the place and for the answer, and `Return`
takes the answer. `Serve` is the shell's handling of one request: it may answer at
once, park the caller in `waiters`, or start a screenshot. Whatever ends a
session or reports its activity settles the waiters in the same message, and each
served request sweeps those whose session is gone. A call is named by caller and
step, so that an answer to a call given up is not taken for the next one's.

**Documents.** `open` is the document in the main pane, `asking` and `quitting` the two
prompts. A read is two file operations (the text, then its time), a save five
(compare the times, empty the temporary file, fill it, rename it, take the new
time), each a step between which other processes write and remove files, the
user types, and the program may be killed. A text is the set of marks that were
typed or written into it; the clock that numbers the marks also gives the files
their times.

**Links.** A launch puts its link in the inbox (a draft, a hard link, the draft's
removal), then claims the lock; the instance that runs watches the directory,
coalesces events, lists the entries, reads each and acts on those it removed itself. Any
process may be killed at any step, and where the lock cannot be made two may run.

**Settings.** A write is a truncation and a fill, by the panel, an MCP server or the
user's editor; each of the first two is preceded by a read. The app loads the file at
its start, moves one that does not parse to a free name, and reloads on events.
The user's own text is a mark that must not be lost.

**Hover.** Two panes side by side, or each a tab that one canvas shows in turn (`view`),
whose texts change; the pointer, the modifier. Every canvas on screen sees a move, in the
order of the panes, and one that looks reports what it found if that is not what it
reported last (`sent`). A canvas does not look while a button is held on it, for a
selection or for the child (`gesture`), nor when the child under the pointer reads the mouse
and the modifier is up (`Claimed`; whether it reads may differ at every move). It
forgets what it sent when an event comes while it shows another session (`Remembered`), and when the focus
moves in a split, since the focused leaf has a widget more and both are built anew
(`FocusMoved`). `core` holds what is underlined, the question it waits for and
those still to be answered. `blind` is history: a canvas that missed a move or forgot, and has
reported nothing since. One button is held at a time.

**Scans.** A file is its version. A scan takes each file's signature, and reads it if the
cache has another; a scan asked for while one runs is one more scan after it.

**MCTasks.** The four last modules share no state. MCTasks has the variables of all
and in its first state chooses which of them moves (`part`); in the first states no
fair step of any is enabled, so the fairness of those that stand still
asks nothing.

## What the runs check

| Run | Instance | What it shows |
|---|---|---|
| `workspace` (Workspace.cfg) | four sessions, symmetric | zones, active index and one tab per session; trees stay trees; the shown tab stays shown; a step moves one tab at most; focus and drawing order survive collapses; directional moves can be undone |
| `app` (App.cfg) | three sessions in two tabs, of both kinds in one directory or shells in two | registry = hosted panes; spawns and kills are the registry's changes; view changes are reported; background events do not take the focus, and attention unparks; a close can be reopened; links show a pane working in the repo, or open one |
| `shell` (Shell.cfg) | three shells, keys one by one; apart from them two Claudes, or one and a shell, under every overlay | prompt and drag follow their tabs; a switch drops the prompt; a running tab is closed only after asking, or at the index of a card drawn before; a Claude command is typed only if asked about, read, and possible then; a rename keeps its tab; lists do not come back |
| `pty_session` (PtySession.cfg) | seven chunks, of which and of commands two in all, and the polls | no output of a dead child is lost; no idle between two busy stretches; attention stands until work; the contract of SessionFeed with its liveness; no screen stays unsent |
| `bridge` (Bridge.cfg) | two callers of three tools, a channel of one place, two sessions | a waiter is always still to be woken; an answer is the status of its moment; a prompt's settled status is from after its Enter; every call returns |
| `documents` (Documents.cfg) | two documents, one task in flight, four marks, a user who waits for answers | a typed edit stays in the editor or in a file; a save does not take what another process wrote unseen |
| `tasks` (Tasks.cfg) | two launches with a link each; three writers of the settings, two sets, two starts; two panes in a split or in two tabs, one spot and beside it, three texts, drags, children that read the mouse; one session file of four versions | a link is acted on, once; the user's text in settings.json survives sets and starts, and the theme follows the file; what is underlined is under the pointer as far as its canvas saw, and comes to be; the sidebar goes forward and catches up |
| `app_closed_tabs`, `shell_background`, `shell_drag`, `shell_presses`, `doc_unsaved` | as above; `doc_unsaved` with a user who does not wait | five statements of docs and comments that the code does not keep (Findings) |

**Bounds.** `MaxId` caps the id counter: it is the code's own overflow check with
a small `u64::MAX`, so the last mint failing is a checked case rather than a cut.
Three sessions suffice for two tabs of which one is split, the smallest strip in which a
pane close is not a tab close while another tab exists; with four in Workspace
there are all zone boundaries of a strip of four tabs, so that an index can lie
before, between and after two others, and trees of depth three, so that a
collapse has leaves below it and a directional move a split to skip.
`MaxClosed = 1` exercises the cap on the second close. `MaxTabs` stops launches
in App and Shell with that many tabs open; links and splits, which the code
does not cap, still open more. `MaxPresses` is 1 for the user's keys; three keys are
what the finding on `press` needs. `Reports` is `Attention` alone where the other
reports only overwrite a status. In the Shell runs every session is a shell
launch, which can be idle (closed without asking) or at work (asked for).

In the runs of Shell and Prompts a batch is one message that leaves the card behind what is
asked about, and then clicks on the card, or a redraw (`TabsNext`, `OverlaysNext`): no other message reads
`drawn`. The proofs of Shell have no such bound. In Hover only the left pane's directory has the file
(`Rooted`) and only the right pane's terminal writes URLs (`Urls`), so that each answer and each kind of
text occurs beside the other pane's; more of either in both only multiplies the states.

PtySession's tick is 50 ms: `IDLE_HOLD`, `EOF_DRAIN_QUIET` and `FOREGROUND_POLL`
are 3, 1 and 5 ticks, the code's 150, 50 and 250 ms. The reader, the waiter and
the watcher act within the tick in which they have something to do, an
assumption about the scheduler which a pause of a thread beyond 50 ms would
break; the terminal thread, which does the work, may be a tick behind
(`MaxLate`). The chunks are one of each kind and the one in which Claude turns
busy and idle at once. Two inputs are what each mutant of the properties needs;
the polls are not counted. `SCREEN_INTERVAL` is shorter than a tick.

In Prompts two sessions are two tabs or the panes of a split, so a focus that leaves and
comes back, a close beside and a heir for the rename all occur; a split's second pane is a
shell, which takes a name and a colour at once. Nothing of the overlays asks for a third,
nor for a closed tab reopened (`OverlayMaxClosed = 0`). `OverlayPressed` has one chord or
menu entry for each way to open an overlay and one that closes. Exits are clean (`OverlayExits`): a session that crashed
stays, and to the overlays is one that is not ready.

In App, directories multiply with launch kinds and reports without touching
them: `OneVaries` (MCApp) lets one of the two vary along a behaviour. In Bridge a channel of one
place is full with one request, and two callers are what a race for it, or for a session, needs.
`Patient` (Documents) is the user who waits for a save's answer before doing
anything else, and for a read's before saving: without it finding 5 is the first thing TLC
meets. `MaxClock` is four marks: an edit, its save, a write of another process and an edit
over it. In Settings one text by hand (`MaxHand`), two sets and two starts, with one
name to set a file aside under (`MaxAside`; 99 in the code), make a set during a start,
a start during a set and a corrupt file with no name left. `MaxFailed` is a removal (Links) or
a scan (Scans) that fails. Two launches suffice for two drains of one inbox.
`MaxVersion = 3` is a change before a scan, one during it and one during the scan after. A
second session file adds states and no case: files meet only in `ScanCompleted`, which takes all.

**Fairness.** The core and the shell have none: their properties are safety properties of
handlers that run to their end. In PtySession the four threads and the clock are
weakly fair, as the scheduler makes them. Nothing makes a child end, not even a
kill, whose signal the child may ignore, and nothing the user do anything. Output of a child that
is gone is finite: a grandchild that holds the terminal open and keeps writing
is not modelled, and on Windows would keep the drain going.

In Bridge only the callers' side is fair: their timers fire and their runtime
goes on. Nothing is asked of the shell, which may be wedged, nor of the
terminals, so `CallReturns` rests on the time limits alone. In Links every process that
is not killed goes on. In Settings a write once begun ends, and the app's watch
thread and message loop go on; nobody is made to write. In Hover each
resolution answers, in any order; in Scans the watch thread, the message loop and a scan go
on, and whether a scan fails, or a file changes, is not asked.

## What is proved

**The strip and its trees** (`WorkspaceProofs`): every property of the run, for any set
`Sessions`, finite or not, so for strips of any length and trees of any depth. No
constant is assumed anything of.

* `WorkspaceTyped`: `Spec => []TypeOK`;
* `WorkspaceStrip`: `Spec => []StripInv`, that is parked tabs last, the active index
  naming a tab that is unparked if any is, and no session in two tabs;
* `WorkspacePanes`: `Spec => []PanesWellFormed`, the panes of a tab are the leaves of a
  binary tree and the focus is on one of them;
* `WorkspaceShown`, `WorkspaceOrder`, `WorkspaceDrawing`: `ShownTabKept`,
  `OthersKeepOrder` and `PanesKept`, what a step may never do;
* `WorkspaceRoundTrip`: `Spec => []DirectionalRoundTrip`.

`StripInv` is not inductive as the operations see it: they count unparked tabs
(`FirstParked`) and insert, move and fall back relative to that count, so what a
step needs to know is that the count is a boundary. `PanesWellFormed` is not either: a
close and a directional move go down into a subtree to its first leaf, which exists because
the tree's paths are bounded and its leaves finitely many. The inductive invariant
`Good` of `CoreProofs` is therefore: tabs and index of their types; `Sound`, the
tabs up to a boundary unparked, all past it parked, the active index in the front part
unless that is empty; `Apart`, no session in two tabs; and `LayoutFits` of each tab, a
finite and bounded tree with its focus on a leaf.

`CoreProofs` proves of each operator, over any set of tabs and any tree, that it keeps
this and what it does to the hosted sessions. For the strip, the count is related to the boundary
by cardinalities of integer intervals (`SelectSeq` and its recursion are avoided: the
operator counts a set), removal and insertion shift it by one, and the index arithmetic
is left to SMT per case. For the trees, a split lengthens the paths below the focus and
a collapse shortens those through the sibling, both keeping two paths apart at the branch
where they part; the drawing order (`LeafOrder`) is the one sequence of the leaves sorted by
that branch. The round trip is an argument about two moves: both cross, or wrap
around, the same split, and the focus that comes back agrees with the one that left one
branch further than with where it had been.

**The application core** (`AppProofs`): every property of the run, for any number of
ids, cap of the reopen stack, directories and bound on the tabs
(`AppAssumption`, `EventAssumption`: types of the constants).

* `AppTyped`, `AppRegistry`: `TypeOK` and `RegisteredIffHosted`, a session is
  registered iff a pane hosts it, and one pane only;
* `AppPtys`: `PtysFollowRegistry`, the effects of an event spawn once each session that
  enters the registry, under an id never used, kill once each that leaves it, and no other;
* `AppShownReported`, `AppLinks`: `ShownChangeReported`, `LinkShowsRepo`;
* `AppFocus`: `FocusNotStolen`, whose two halves are that what happens elsewhere leaves the focus,
  and that an accepted report of attention leaves no parked tab over its session;
* `AppReopen`: `Spec => []CloseThenReopen`.

The inductive invariant is `Fits`: a good strip, a registry of exactly the sessions it
hosts, ids minted in order and a reopen stack of its type and within its cap. That the strip
is good is needed: a close forgets the sessions its leaves host, and in a record that is no tree a
session could be hosted at no leaf, then be forgotten and not killed. Each handler of AppCore, a
function on apps, is shown once (in `CoreProofs`) to give an answer that is `Sane` for any app that
fits, and each event is one answer, `Settled` or a `Gesture`.

**The shell's indices** (`ShellProofs`): every property of Shell the run checks, for
any number of ids, cap of the stack, directories and bound on the tabs (`ShellAssumption`:
types of the constants).

* `ShellInvariant`, `ShellTyped`: `Spec => []Inv` and from it `Spec => []TypeOK`, whatever
  runs of keys MCP callers send;
* `ShellPrompt`, `ShellPromptDropped`: `MaxPresses <= 1` implies
  `Spec => PromptFollowsTab` and `Spec => PromptDroppedOnSwitch`;
* `ShellRunning`: `ClosePolicy # "noConfirmation"` implies `Spec => RunningTabConfirmed`; with
  that setting the code does not ask. The close card's button is one drawn at any time before,
  and the theorem is that a click on it at the index it was drawn with is the one way past the prompt;
* `ShellDrag`: `Spec => DragFollowsTab`.

The bound on `MaxPresses` is one key to a message, and is no convenience: within one
request of several keys a prompt may be dropped and armed again for another tab, which is
finding 4.

The inductive invariant, `Whole` of the shell, says that no other overlay is up, that the
core `Fits`, that the prompt's index names a tab or is 0, and that the drag's are in their
range. From a shell that is whole, every message takes another app out of AppCore, then
performs its effects, then points prompt and drag back (`Follow`). What the app may
do to the tabs comes in three kinds: nothing is taken away (`Grown`: launches, reports,
parks, moves), a tab goes, or a pane of several goes and the tabs stay put
(`StaysPut`). For each, `Kept` says of the prompt, if it is still up before `Follow`,
that it has either been moved by the message to a tab that shares a session with its own, or not
been touched, and then its tab's first session is still registered, so that `Follow` finds
it; and that the tab shown shares a session with the one shown before, because
whatever shows another reports `TabShown`, which drops the prompt. `HeldKept` says the same
of the chip and the slot of a drag, `Spared` that a close by a gesture takes no tab
that runs something but the prompted one. Two facts carry the index arithmetic: sessions are in
one tab only, so that an overlap determines the tab, and a strip has no more tabs than ids
(`TabsAreFew`), so that every index of a tab is one the model's messages may carry. Runs of keys
are a fold, unrolled as for the chunks below.

**A PTY session** (`PtySessionProofs`), for any chunks, inputs, delays and deadlines
(`SessionAssumption`: the quiet is positive and below the poll interval;
`HoldAssumption`: so is the hold):

* `TrailingOutput`: `Spec => []TrailingOutputShown`;
* `FeedSafety`: the session refines SessionFeed's initial states and steps, so that the
  exit is told once, after the child's end, and no status after it;
* `SessionTyped`: `Spec => []TypeOK`;
* `IdleEarned`, `AttentionKept`: `Spec => IdleStands`, `Spec => AttentionUntilWork`.

That no output is lost is a matter of order, and the inductive invariant
(`Ordered`) states it: the waiter's word comes after the child's end, the drain
after that word, and a tick of the quiet has passed only if nothing was left to
read. `TrailingOutputShown` follows at `Finish`, where the quiet is spent.

The statuses rest on a second invariant, `Heard`: the runtime was told the status the terminal
thread knows, a hold belongs to a busy status the terminal gave itself, and what is left of the hold
and the time since work was seen together make the whole hold (`Active`). What `Observe` makes
of a chunk is a fold over its marks and one over its signals; a chunk may have any
number of them, so the fold is unrolled by induction over the natural numbers (lemmas
`Recursion`, `MarkByMark`, `SignalBySignal`, from the well-foundedness of a finite
set's subsets): a fold keeps whatever each of its steps keeps.

**Documents** (`DocumentsProofs`), for any documents and any number of tasks in flight, clock and
edits (`DocumentsAssumption`: the sentinels are told apart from the data):

* `DocumentsTyped`: `Spec => []TypeOK`, whether the user waits or not;
* `PatientEditsKept`: for the user who waits for answers, `Patient` implies
  `Spec => []EditsKept`;
* `PatientOutsideKept`: the same of `OutsideKept`.

Neither of the last two is inductive, and they need each other. The invariant says what a task
in flight knows: a read has seen all that was in the file and must not be lost
(`ReadInv`); the open document holds what its file did at its time (`OpenInv`); and a save under
way is alone, saves what is open, has checked that it takes nothing of others', has
the text in the temporary file before the rename and in the file after it (`SaveInv`).
Without `Patient` the first of these to fail is that the text saved is the text open: finding 5.

**The bridge** (`BridgeProofs`), for any callers, any capacity of the channel, any number of
sessions and any targets of a wait (`AppAssumption`, `BridgeAssumption`: types of the
constants, and a channel of at least one place):

* `BridgeTyped`: `Spec => []TypeOK`, with the channel's bound;
* `NobodyForgotten`: `Spec => []NoWaiterForgotten`;
* `WaitsAnsweredTruly`, `PromptWaitsForWork`: `Spec => AnswersTrue`, `Spec => PromptSawWork`.

`NoWaiterForgotten` is not inductive, for two reasons. A waiter whose caller gave up may be
parked still, and its port must not come to be waited on again: `CallsMade` says that every
call in the channel or parked was made, and the steps of a tool are ranked, so that no
caller comes back to one it left. And a close by the user tells no waiter: `EndsToCome` says
that a session still registered has told its end or will, so that a waiter it did not
settle has that end to come. The core enters through four lemmas (`LaunchLive`,
`StatusChangedLive`, `PtyExitedLive`, `CloseTabLive`), what each handler does to the registry, which
need nothing of the strip. `PromptInv` is what a prompt knows of its session from its Enter
on.

**Links, settings, hover, sidebar** (`TasksProofs`), each with the types of its constants
assumed:

* `LinkOnce`: `L!Spec => L!ActedOnce`, for any set of launches, any of which may be
  killed at any step, and any number of instances. A link taken is in the
  drain of one instance only, is out of the inbox, and has not been acted on; a link acted on
  stays taken. No constant is assumed anything of.
* `HandTextLasts`: `S!Spec => []S!HandTextKept`, the safety half of `SettingsKept`, for any texts
  and any number of edits, sets, starts and names to set files aside under. The invariant
  (`SettingsInv`) follows where the kept text can be: a set that read it writes it back whole
  or with one option changed, into the file it opened, which by then may have been moved
  aside (`InFile`, `InAside`).
* `NothingLeftUnderlined`: `H!Spec => []H!HoverUnderPointer`, for any
  spots and candidates. The invariant `Under` holds of the question as well as of what is
  underlined, unless its canvas is `blind`: each is what its pane's canvas sent last, and its place
  is where the pointer is, or was when it left the window, or would be if another tab did not
  hide its pane.
* `SidebarNeverBack`: `C!Spec => C!SidebarForward`, for any files and versions.
  What is shown is never newer than the file, what a scan has found lies
  between the two, and the cache is what is shown.
* `TasksTyped`: `Spec => []TypeOK` of MCTasks, all four together, for finitely many launches
  (a stamp is one of as many as there are launches). `LinksRest`,
  `HoverRest` and `ScansRest` are what the types need beyond the invariants above: that the
  lock is held by a launch that lives, and that a rescan is owed only during a scan.

**Only model-checked:** `CommandsAnswered` and `OverlaysAnchored`, that is everything of
Prompts, whose four overlays with their anchors need an invariant of their own over the
same lemmas; and all liveness, which needs
`ENABLED` of the fair actions and so is out of the
provers' reach: `ScreenCatchesUp` and the liveness half of `FeedImplemented` (PtySession),
`CallReturns` (Bridge), the second halves of `LinksActedOn`, `SettingsKept`,
`UnderlineFollows` and `SidebarFollows` (MCTasks).

## Findings

1. `app_closed_tabs`: closing the focused lone pane from the core's
   `CloseFocusedPane` drops its tab without remembering it on the reopen stack
   (`core/src/app.rs:262`). `docs/src/mcp/live-bridge.md:127` says of a background close that the tab goes
   "onto the reopen stack like any tab close"; a background close and a clean exit do remember
   it, and what the code breaks is the rule in the last words. One message reaches it,
   the MCP close in the foreground (`act_close`, `app/src/shell/orchestrate.rs:222`): from the
   keyboard and the menu a lone pane is closed as a tab.
2. `shell_background`: a background close of the first pane of the split tab
   on screen drops a close prompt, since the shown tab is recognised by its first
   session; the same line of the docs says the prompt stays.
3. `shell_drag`: `close_tab` leaves a drag of the closed tab holding its old index,
   which names the neighbour from then on.
4. `shell_presses`: within one `press` request a prompt dropped and re-armed at the
   same index is taken for an untouched one and moved to another tab.

5. `doc_unsaved`: `on_doc_saved` clears the unsaved mark on the answer of any save
   (`app/src/shell/docs.rs:149`), though the editor took edits while it ran; closing the
   document then discards them with no prompt, where the comment at `docs.rs:39`
   says each way out of a modified document asks.

## What a property does not say

`IdleStands` is about a session that reads busy. A chunk that starts and ends
work in one, arriving when the status is not yet `Busy`, is published idle at once, since
there is no busy reading to hold.

`EditsKept` and `OutsideKept` leave out what nothing in the code keeps: a write of
another process between a save's comparison of the times and its rename; a document
whose text was read just before such a write and its time just after; two
saves under way at once, which share the temporary file `.name.termherd.tmp`.

`CommandAnswered` says that a command goes with its pane, and leaves a way for it to outlive it:
`close_tab`, unlike the other closes, does not drop a command armed for a session of the
tab. It needs a close prompt and a command up at once, which takes a click in the
batch of the message that arms the command; Enter is then refused, and Escape lets go.
`RenameKept` says nothing of a rename ended by the user, or by a gesture
elsewhere, which commits it.

`RunningTabConfirmed` lets one close pass unasked, because the code does: the card's button sends the index
it was drawn with (`view/modals.rs:88`) and `shell.rs:1273` closes that index. When an exit or a move
comes before the click in one batch, the tab closed is the one now at that index, whether or not it
runs something, and whatever the prompt, which follows its tab, names by then. No comment or document
says otherwise, so this is no finding; what is shown is that no other gesture does it.

`HandTextKept` speaks of a text written with no set under way: `set_option_at` is a
read, then a write, with no lock, so of two sets, or a set and an edit by hand, the
later write wins. `SettingsFollowed` leaves out a change made after the startup load and before the
watch (`missed`), which waits for the next change.

`HoverUnderPointer` speaks of what a canvas saw (`~blind`). A hover outlives the pointer when the modifier is let
go and the pointer moves over a child that reads the mouse, when it moves in a drag,
after a switch to another tab and back with a mouse event between, and after a change of the focus in
a split: nobody sends the report that would clear it, until the canvas
reports again. The underline is drawn while the modifier is held, so it shows again when that is pressed, and goes,
or is replaced, with the next report.

`HoverUnderPointer` holds for the place. The file that was resolved is that of the
directories of the moment the question was asked; if they change, a
question with the same text is not asked anew. `SidebarFollows` takes two versions of a file
to differ in size or time, which is what the cache compares.

## Not modelled yet, and the plan

The order of what follows is that of how much can go wrong:

1. **PtyIo** and **Runtime**: the write path with the manager's locks; sessions
   that keep SessionFeed composed with the core and the shell's cache of screens,
   where the last screen of a killed session comes after the shell forgot it.
2. **The rest of the ladder**: the session rename, the archive and quit prompts and
   the settings panel beside the overlays of Prompts.
3. **Metadata and titles**: a rename across a live session, its transcript and its
   recorded name; **notification slots**.
4. **Documents, the discovery**: the lists of two `discover` tasks may come in either order
   (`shell.rs` keeps the last to come).
5. **Pure algorithms**: sidebar filtering, chord resolution, transcript digest,
   escape-sequence parsing, selection geometry, against reference definitions.
6. **Proofs**: the types of Prompts, `RenameKept` and `ReadBeforeEnter`, over the lemmas of
   CoreProofs and ShellProofs.

Out of scope: drawing, platform calls, key encodings, JSON and tool schemas, the
terminal emulator, which is an external crate. Liveness under fairness is TLC's alone: the
provers do not do `ENABLED`. Nor do they instantiate an induction theorem with an operator: the
induction the proofs use is stated over sets.
