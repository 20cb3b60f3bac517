------------------------------ MODULE AppCore -------------------------------
(***************************************************************************)
(* The headless application core (crates/core/src/app.rs and app/*.rs):    *)
(* `App::apply` as functions of an app a = [ws, live, nextId, closed].     *)
(*                                                                         *)
(*   ws      the tab strip (module TabStrip)                               *)
(*   live    the session registry: id -> [status, launch, cwd]             *)
(*   nextId  the last id minted                                            *)
(*   closed  the reopen stack, newest last: entries [launch, cwd]          *)
(*                                                                         *)
(* A handler returns the next app and the effects the runtime must carry   *)
(* out, in order.  Only the effects that reach a PTY or the view are kept; *)
(* titles, colours, the sidebar and the metadata overlay are left out.  A  *)
(* directory stands for the repo it lies in, a Claude launch for any       *)
(* conversation.                                                           *)
(***************************************************************************)
EXTENDS TabStrip

CONSTANTS
  MaxId,      \* the last id the counter can mint: u64::MAX in the code
  MaxClosed,  \* MAX_CLOSED_TABS, 16 in the code
  Cwd         \* working directories

ASSUME AppAssumption == MaxId \in Nat /\ MaxClosed \in Nat

SessionId == 1 .. MaxId
LaunchKind == {"Shell", "Claude"}
Report == {"Busy", "Idle", "Attention"}
Status == Report \cup {"Starting", "Exited"}

NoApp == [ws |-> EmptyWorkspace, live |-> <<>>, nextId |-> 0, closed |-> <<>>]

Registered(a) == DOMAIN a.live

(* The effects. *)
Spawn(id) == [kind |-> "Spawn", session |-> id]
Kill(id) == [kind |-> "Kill", session |-> id]
TabShown == [kind |-> "TabShown"]

(* A session, an entry of the reopen stack and an effect. *)
Session == [status : Status, launch : LaunchKind, cwd : Cwd]
Closed == [launch : LaunchKind, cwd : Cwd]
Effect == [kind : {"Spawn", "Kill"}, session : SessionId] \cup {TabShown}

Answer(a, effects) == [app |-> a, effects |-> effects]
Quiet(a) == Answer(a, <<>>)
OnStrip(a, w) == Quiet([a EXCEPT !.ws = w])

(***************************************************************************)
(* The registry.                                                           *)
(***************************************************************************)

Starting(launch, cwd) == [status |-> "Starting", launch |-> launch, cwd |-> cwd]

Register(a, id, session) ==
  [a EXCEPT !.nextId = id,
            !.live = [s \in DOMAIN @ \cup {id} |->
                        IF s = id THEN session ELSE @[s]]]

Forget(a, ids) == [a EXCEPT !.live = [s \in DOMAIN @ \ ids |-> @[s]]]

(* A Claude is a running process until its PTY exits; a shell only while it is
   known to be at work. *)
HasRunningProcess(session) ==
  /\ session.status # "Exited"
  /\ session.launch = "Claude" \/ session.status \in {"Busy", "Attention"}

TabHasRunningProcess(a, i) ==
  \E s \in HostedBy(a.ws.tabs[i]) \cap Registered(a) : HasRunningProcess(a.live[s])

(***************************************************************************)
(* Launching.  With the id counter at its end nothing happens at all.      *)
(***************************************************************************)

Launch(a, launch, cwd, placement) ==
  LET id == a.nextId + 1
      strip == IF placement = "Foreground" THEN OpenTab(a.ws, id) ELSE AppendTab(a.ws, id)
  IN IF a.nextId = MaxId THEN Quiet(a)
     ELSE Answer([Register(a, id, Starting(launch, cwd)) EXCEPT !.ws = strip],
                 <<Spawn(id)>>)

(* The new pane is a shell in the focused pane's directory.  Without a tab the
   id is minted all the same, and lost. *)
SplitFocused(a, dir) ==
  LET id == a.nextId + 1
      shell == Starting("Shell", a.live[FocusedIn(a.ws)].cwd)
  IN CASE a.nextId = MaxId -> Quiet(a)
       [] a.nextId # MaxId /\ a.ws.tabs = <<>> -> Quiet([a EXCEPT !.nextId = id])
       [] OTHER -> Answer([Register(a, id, shell) EXCEPT !.ws = SplitShown(a.ws, dir, id)],
                          <<Spawn(id)>>)

(***************************************************************************)
(* Closing and reopening.                                                  *)
(***************************************************************************)

(* Mutant of RememberClosedTab: the cap is checked before the push. *)
RememberPastCap(a, i) ==
  LET first == FirstSession(a.ws.tabs[i].layout)
      entry == [launch |-> a.live[first].launch, cwd |-> a.live[first].cwd]
  IN IF first \notin Registered(a) THEN a
     ELSE [a EXCEPT !.closed =
             Append(IF Len(a.closed) > MaxClosed THEN Tail(a.closed) ELSE a.closed, entry)]

(* Mutant of RememberClosedTab: the focused pane is remembered. *)
RememberFocused(a, i) ==
  LET s == FocusedSession(a.ws.tabs[i].layout)
      stack == Append(a.closed, [launch |-> a.live[s].launch, cwd |-> a.live[s].cwd])
  IN [a EXCEPT !.closed = IF Len(stack) > MaxClosed THEN Tail(stack) ELSE stack]

(* A tab is remembered as its first pane: reopen restores one terminal. *)
RememberClosedTab(a, i) ==
  LET first == FirstSession(a.ws.tabs[i].layout)
      entry == [launch |-> a.live[first].launch, cwd |-> a.live[first].cwd]
      stack == Append(a.closed, entry)
  IN IF first \notin Registered(a) THEN a
     ELSE [a EXCEPT !.closed = IF Len(stack) > MaxClosed THEN Tail(stack) ELSE stack]

(* Mutant of CloseTab: only the first pane's session is forgotten and killed. *)
CloseTabOfOne(a, i) ==
  LET first == FirstSession(a.ws.tabs[i].layout)
  IN IF i \notin DOMAIN a.ws.tabs THEN Quiet(a)
     ELSE Answer(Forget([RememberClosedTab(a, i) EXCEPT !.ws = CloseAt(@, i)], {first}),
                 <<Kill(first)>>)

(* An index past the strip is a no-op. *)
CloseTab(a, i) ==
  LET dying == HostedBy(a.ws.tabs[i])
      order == LeafOrder(a.ws.tabs[i].layout)
      kills == [n \in DOMAIN order |-> Kill(SessionAt(a.ws.tabs[i].layout, order[n]))]
      gone == Forget([RememberClosedTab(a, i) EXCEPT !.ws = CloseAt(@, i)], dying)
  IN IF i \in DOMAIN a.ws.tabs THEN Answer(gone, kills) ELSE Quiet(a)

(* Mutant of ReleaseClosedPane: a session that has exited is not killed. *)
ReleaseRunningPane(a, s, w) ==
  Answer(Forget([a EXCEPT !.ws = w], {s}),
         IF a.live[s].status = "Exited" THEN <<>> ELSE <<Kill(s)>>)

ReleaseClosedPane(a, s, w) == Answer(Forget([a EXCEPT !.ws = w], {s}), <<Kill(s)>>)

(* Close the pane of a session wherever it is; its tab when it is alone there. *)
ClosePane(a, s) ==
  CASE s \notin HostedIn(a.ws) -> Quiet(a)
    [] s \in HostedIn(a.ws) /\ HostedBy(a.ws.tabs[TabOf(a.ws, s)]) = {s} ->
         CloseTab(a, TabOf(a.ws, s))
    [] OTHER -> ReleaseClosedPane(a, s, ClosePaneOf(a.ws, s))

(* Close the pane in focus.  A lone pane takes its tab along, which the reopen
   stack does not hear of. *)
CloseFocusedPane(a) ==
  IF a.ws.tabs = <<>> THEN Quiet(a)
  ELSE LET s == FocusedIn(a.ws)
       IN ReleaseClosedPane(a, s, CloseLeafAt(a.ws, a.ws.active, s))

ReopenClosedTab(a) ==
  IF a.closed = <<>> THEN Quiet(a)
  ELSE Launch([a EXCEPT !.closed = Front(@)],
              Last(a.closed).launch, Last(a.closed).cwd, "Foreground")

(***************************************************************************)
(* Reports of the PTY adapter, which may be late.                          *)
(***************************************************************************)

(* Mutant of UnparkTabOf: the tab is brought to the front. *)
ActivateTabOf(w, s) == IF s \in HostedIn(w) THEN Activate(w, TabOf(w, s)) ELSE w

UnparkTabOf(w, s) ==
  IF s \in HostedIn(w) /\ w.tabs[TabOf(w, s)].parked THEN Unpark(w, TabOf(w, s)) ELSE w

(* An exited session stays exited; one asking for attention unparks its tab. *)
StatusChanged(a, s, status) ==
  IF s \notin Registered(a) \/ a.live[s].status = "Exited" THEN Quiet(a)
  ELSE Quiet([a EXCEPT !.live[s].status = status,
                       !.ws = IF status = "Attention" THEN UnparkTabOf(@, s) ELSE @])

(* A clean exit closes the pane, any other leaves the dead terminal on screen. *)
PtyExited(a, s, clean) ==
  CASE s \notin Registered(a) -> Quiet(a)
    [] s \in Registered(a) /\ clean /\ s \in HostedIn(a.ws) -> ClosePane(a, s)
    [] OTHER -> Quiet([a EXCEPT !.live[s].status = "Exited"])

SessionCwdChanged(a, s, cwd) ==
  IF s \in Registered(a) THEN Quiet([a EXCEPT !.live[s].cwd = cwd]) ELSE Quiet(a)

(***************************************************************************)
(* The strip and the panes.  What the workspace refuses changes nothing.   *)
(***************************************************************************)

InStrip(a, i, w) == IF i \in DOMAIN a.ws.tabs THEN OnStrip(a, w) ELSE Quiet(a)

ActivateTab(a, i) == InStrip(a, i, Activate(a.ws, i))
ToggleParkTab(a, i) == InStrip(a, i, ToggleParked(a.ws, i))
MoveTab(a, from, to) ==
  IF to \in DOMAIN a.ws.tabs THEN InStrip(a, from, Move(a.ws, from, to)) ELSE Quiet(a)

RevealPane(a, s) == IF s \in HostedIn(a.ws) THEN OnStrip(a, Reveal(a.ws, s)) ELSE Quiet(a)

OnShown(a, w) == IF a.ws.tabs = <<>> THEN Quiet(a) ELSE OnStrip(a, w)

FocusPaneAt(a, s) ==
  IF a.ws.tabs # <<>> /\ s \in HostedBy(Shown(a.ws)) THEN OnStrip(a, FocusPane(a.ws, s))
  ELSE Quiet(a)
FocusNeighbour(a, step) == OnShown(a, CyclePanes(a.ws, step))
FocusTowards(a, dir) == OnShown(a, FocusDir(a.ws, dir))

(***************************************************************************)
(* A termherd://open link.                                                 *)
(***************************************************************************)

WorkingIn(a, dir) == {s \in HostedIn(a.ws) \cap Registered(a) : a.live[s].cwd = dir}

(* The first of some hosted sessions, in strip order. *)
FirstOf(w, sessions) ==
  CHOOSE s \in sessions : \A t \in sessions \ {s} :
    \/ TabOf(w, s) < TabOf(w, t)
    \/ /\ TabOf(w, s) = TabOf(w, t)
       /\ LET at == w.tabs[TabOf(w, s)].layout.at IN Before(at[s], at[t])

SessionWorkingIn(a, dir) ==
  IF FocusedIn(a.ws) \in WorkingIn(a, dir) THEN FocusedIn(a.ws)
  ELSE FirstOf(a.ws, WorkingIn(a, dir))

(* Mutant of OpenRepo: the resolved spelling is not tried. *)
OpenRepoAsSpelled(a, path, resolved) ==
  IF WorkingIn(a, path) # {} THEN RevealPane(a, SessionWorkingIn(a, path))
  ELSE Launch(a, "Shell", path, "Foreground")

(* Show the pane working in the repo, under the link's spelling of it first,
   else under the resolved one; with none open a shell there. *)
OpenRepo(a, path, resolved) ==
  CASE WorkingIn(a, path) # {} -> RevealPane(a, SessionWorkingIn(a, path))
    [] WorkingIn(a, path) = {} /\ WorkingIn(a, resolved) # {} ->
         RevealPane(a, SessionWorkingIn(a, resolved))
    [] OTHER -> Launch(a, "Shell", path, "Foreground")

(***************************************************************************)
(* `apply`: what every event ends with.                                    *)
(***************************************************************************)

(* Mutant of NoLongerShown: the active index is compared, not the tab. *)
IndexMoved(a, b) == a.ws.tabs # <<>> /\ (b.ws.tabs # <<>> => a.ws.active # b.ws.active)

(* The tab shown before, recognised by its first session, is shown no more. *)
NoLongerShown(a, b) ==
  /\ a.ws.tabs # <<>>
  /\ b.ws.tabs # <<>> => ShownSession(a.ws) \notin HostedBy(Shown(b.ws))

Settled(a, r) ==
  IF NoLongerShown(a, r.app) THEN [r EXCEPT !.effects = Append(@, TabShown)] ELSE r

(* A tab gesture settles the view even on the tab it shows. *)
Gesture(r) == [r EXCEPT !.effects = Append(@, TabShown)]
=============================================================================
