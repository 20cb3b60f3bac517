-------------------------------- MODULE App ---------------------------------
(***************************************************************************)
(* The application core as a state machine: every event of `App::dispatch` *)
(* that reaches the strip, the registry or the reopen stack, in any order. *)
(*                                                                         *)
(* Events that name a session come from the PTY adapter, a click or an MCP *)
(* caller and may be late: the session named may have left the registry,   *)
(* or never have been minted.  Events that name a tab may be late as well: *)
(* the index may be past the strip, or name another tab by now.            *)
(***************************************************************************)
EXTENDS AppCore

CONSTANTS
  Launches,   \* the kinds of launch asked for
  SplitDirs,  \* the orientations of the splits asked for
  Reports,    \* the activity the PTY adapter reports
  MaxTabs     \* no launch is asked for with more tabs open

ASSUME EventAssumption ==
  /\ Launches \subseteq LaunchKind
  /\ SplitDirs \subseteq SplitDir
  /\ Reports \subseteq Report
  /\ MaxTabs \in Nat

VARIABLES
  app,  \* the app
  out   \* the effects the last event returned

vars == <<app, out>>

Tabs == DOMAIN app.ws.tabs
TabIndex == 1 .. MaxId + 1

Init == app = NoApp /\ out = <<>>

(* Apply an event, given its handler's answer. *)
Apply(r) == app' = Settled(app, r).app /\ out' = Settled(app, r).effects
ApplyGesture(r) == app' = r.app /\ out' = Gesture(r).effects

-----------------------------------------------------------------------------
LaunchSession(launch, cwd, placement) ==
  Len(app.ws.tabs) < MaxTabs /\ Apply(Launch(app, launch, cwd, placement))
Split(dir) == Apply(SplitFocused(app, dir))
Close(i) == Apply(CloseTab(app, i))
CloseSession(s) == Apply(ClosePane(app, s))
CloseFocused == Apply(CloseFocusedPane(app))
Reopen == Len(app.ws.tabs) < MaxTabs /\ Apply(ReopenClosedTab(app))

StatusReport(s, status) == Apply(StatusChanged(app, s, status))
Exit(s, clean) == Apply(PtyExited(app, s, clean))
CwdReport(s, cwd) == Apply(SessionCwdChanged(app, s, cwd))

ActivateAt(i) == ApplyGesture(ActivateTab(app, i))
TogglePark(i) == ApplyGesture(ToggleParkTab(app, i))
MoveFrom(from, to) == Apply(MoveTab(app, from, to))
OpenLink(path, resolved) == ApplyGesture(OpenRepo(app, path, resolved))

RevealPaneOf(s) == Apply(RevealPane(app, s))
FocusPaneOf(s) == Apply(FocusPaneAt(app, s))
FocusStep(step) == Apply(FocusNeighbour(app, step))
FocusDirection(dir) == Apply(FocusTowards(app, dir))

Next ==
  \/ \E l \in Launches, c \in Cwd, p \in {"Foreground", "Background"} :
       LaunchSession(l, c, p)
  \/ \E d \in SplitDirs : Split(d)
  \/ \E i \in TabIndex : Close(i) \/ ActivateAt(i) \/ TogglePark(i)
  \/ \E from, to \in TabIndex : MoveFrom(from, to)
  \/ \E s \in SessionId : CloseSession(s) \/ RevealPaneOf(s) \/ FocusPaneOf(s)
  \/ \E s \in SessionId, r \in Reports : StatusReport(s, r)
  \/ \E s \in SessionId, clean \in BOOLEAN : Exit(s, clean)
  \/ \E s \in SessionId, c \in Cwd : CwdReport(s, c)
  \/ \E p, r \in Cwd : OpenLink(p, r)
  \/ \E step \in {"Next", "Prev"} : FocusStep(step)
  \/ \E d \in Direction : FocusDirection(d)
  \/ CloseFocused
  \/ Reopen

Spec == Init /\ [][Next]_vars

-----------------------------------------------------------------------------
(***************************************************************************)
(* Safety.                                                                 *)
(***************************************************************************)

TypeOK ==
  /\ app = [ws |-> app.ws, live |-> app.live, nextId |-> app.nextId,
            closed |-> app.closed]
  /\ Registered(app) \in SUBSET SessionId
  /\ \A s \in Registered(app) : app.live[s] \in Session
  /\ app.nextId \in 0 .. MaxId
  /\ app.closed \in Seq(Closed) /\ Len(app.closed) <= MaxClosed
  /\ out \in Seq(Effect)

(* A live session is registered iff a pane hosts it (the invariant `Sessions`
   names), and one tab at most does: whichever of the twelve ways a pane or a
   tab opened and closed, with ids that were minted and never since. *)
RegisteredIffHosted ==
  /\ Registered(app) = HostedIn(app.ws)
  /\ Registered(app) \subseteq 1 .. app.nextId
  /\ \A i, j \in Tabs :
       HostedBy(app.ws.tabs[i]) \cap HostedBy(app.ws.tabs[j]) # {} => i = j

(* Closing a tab can be undone: with an id left to mint, what was running in its
   first pane is what reopen starts, in front. *)
CloseThenReopen ==
  app.nextId < MaxId /\ MaxClosed > 0 =>
    \A i \in Tabs :
      LET first == app.live[FirstSession(app.ws.tabs[i].layout)]
          reopened == ReopenClosedTab(CloseTab(app, i).app).app
      IN reopened.live[FocusedIn(reopened.ws)] = Starting(first.launch, first.cwd)

-----------------------------------------------------------------------------
(***************************************************************************)
(* What an event may never do.                                             *)
(***************************************************************************)

Effects(kind) == {n \in DOMAIN out : out[n].kind = kind}
SessionsOf(kind) == {out[n].session : n \in Effects(kind)}

(* Every session that enters the registry is spawned, every one that leaves it
   is killed, each once and nothing else is: no PTY outlives its pane, none is
   killed twice, and an id is never handed out again. *)
PtysFollowRegistry ==
  [][/\ SessionsOf("Spawn")' = Registered(app)' \ Registered(app)
     /\ SessionsOf("Kill")' = Registered(app) \ Registered(app)'
     /\ \A k \in {"Spawn", "Kill"} :
          Cardinality(Effects(k)') = Cardinality(SessionsOf(k)')
     /\ \A s \in Registered(app)' \ Registered(app) : s > app.nextId]_vars

(* The tab shown before the step is shown after it. *)
StillShown ==
  /\ app.ws.tabs # <<>> /\ app'.ws.tabs # <<>>
  /\ HostedBy(Shown(app.ws)) \cap HostedBy(Shown(app'.ws)) # {}

(* The view is told whenever another tab comes to be shown, whichever event
   moved it: the shell sizes the panes and drops prompts on that word alone. *)
ShownChangeReported ==
  [][app.ws.tabs # <<>> /\ ~StillShown => TabShown \in Range(out')]_vars

(* Reports, background launches and closes of a pane elsewhere. *)
Unasked ==
  \/ \E l \in Launches, c \in Cwd : LaunchSession(l, c, "Background")
  \/ \E s \in SessionId, r \in Reports : StatusReport(s, r)
  \/ \E s \in SessionId : s \notin HostedBy(Shown(app.ws)) /\ (Exit(s, TRUE) \/ CloseSession(s))
  \/ \E i \in Tabs \ {app.ws.active} : Close(i)

(* A report of attention that is accepted, and the sessions of parked tabs. *)
AttentionAsked(s) ==
  s \in Registered(app) /\ app.live[s].status # "Exited" /\ StatusReport(s, "Attention")
ParkedSessions == UNION {HostedBy(app.ws.tabs[i]) : i \in {k \in Tabs : app.ws.tabs[k].parked}}

(* None of them takes the focus from the pane the user types in, and an
   accepted report of attention leaves no parked tab over its session.  A tab
   that is parked is shown only while all are: there the one unparked takes
   over, as the user guide says. *)
FocusNotStolen ==
  [][/\ \/ app.ws.tabs = <<>>
        \/ app'.ws.tabs # <<>> /\ FocusedIn(app'.ws) = FocusedIn(app.ws)
        \/ /\ \A i \in Tabs : app.ws.tabs[i].parked
           /\ \E i \in Tabs' : ~app'.ws.tabs[i].parked
        \/ ~Unasked
     /\ \A s \in ParkedSessions' : ~AttentionAsked(s)]_vars

ShowsRepo(path, resolved) ==
  LET working == WorkingIn(app, path) \cup WorkingIn(app, resolved)
      Focused(sessions) == app'.ws.tabs # <<>> /\ FocusedIn(app'.ws) \in sessions
  IN IF working # {} THEN Focused(working)
     ELSE app.nextId < MaxId => Focused(WorkingIn(app', path) \ Registered(app))

(* Following a link to a repo ends in a pane working there, under one spelling
   of it or the other, and opens a new one only when no pane worked there. *)
LinkShowsRepo ==
  [][\A path, resolved \in Cwd : ShowsRepo(path, resolved) \/ ~OpenLink(path, resolved)]_vars

-----------------------------------------------------------------------------
(***************************************************************************)
(* What the docs say of an event and the code does not do.                 *)
(***************************************************************************)

(* "A lone pane takes its tab with it, onto the reopen stack like any tab
   close" (docs/src/mcp/live-bridge.md): a tab that closes can be reopened. *)
EveryClosedTabRemembered ==
  [][\A i \in Tabs :
       LET first == FirstSession(app.ws.tabs[i].layout)
       IN HostedBy(app.ws.tabs[i]) \cap Registered(app)' = {} =>
            /\ app'.closed # <<>>
            /\ Last(app'.closed) = [launch |-> app.live[first].launch,
                                   cwd |-> app.live[first].cwd]]_vars
=============================================================================
