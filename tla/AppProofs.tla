----------------------------- MODULE AppProofs ------------------------------
(***************************************************************************)
(* The app's invariants and action properties, for any number of ids, any  *)
(* cap of the reopen stack and any directories: the registry follows the   *)
(* panes, the effects of an event spawn and kill exactly what enters and   *)
(* leaves the registry, a close can be undone, and neither the focus nor a *)
(* link goes astray.                                                       *)
(*                                                                         *)
(* Every event applies one sane answer (module CoreProofs) to an app that  *)
(* fits, the inductive invariant.                                          *)
(***************************************************************************)
EXTENDS App, CoreProofs

-----------------------------------------------------------------------------
(***************************************************************************)
(* What every event ends with.                                             *)
(***************************************************************************)

(* A step of the app: the answer to the event, the view told or not that
   another tab is shown. *)
Step(a, b, effects) ==
  \E r : /\ Sane(a, r)
         /\ b = r.app
         /\ \/ effects = Append(r.effects, TabShown)
            \/ effects = r.effects /\ ~NoLongerShown(a, b)

(* An answer, settled or not, makes a step. *)
LEMMA ApplyStep ==
  ASSUME NEW r, Sane(app, r)
  PROVE  /\ Apply(r) => Step(app, app', out')
         /\ ApplyGesture(r) => Step(app, app', out')
<1>1. r = [app |-> r.app, effects |-> r.effects]
  BY DEF Sane
<1>2. PICK told : told = [r EXCEPT !.effects = Append(@, TabShown)]
  OBVIOUS
<1>3. told.app = r.app /\ told.effects = Append(r.effects, TabShown)
  BY <1>1, <1>2
<1>4. Settled(app, r).app = r.app
  BY <1>2, <1>3 DEF Settled
<1>5. \/ Settled(app, r).effects = Append(r.effects, TabShown)
      \/ Settled(app, r).effects = r.effects /\ ~NoLongerShown(app, r.app)
  BY <1>2, <1>3 DEF Settled
<1>6. Gesture(r).effects = Append(r.effects, TabShown)
  BY <1>2, <1>3 DEF Gesture
<1> QED
  BY <1>4, <1>5, <1>6 DEF Step, Apply, ApplyGesture

(* Every event is one. *)
LEMMA NextStep ==
  ASSUME Fits(app), Next
  PROVE  Step(app, app', out')
<1>1. ASSUME NEW l \in Launches, NEW c \in Cwd, NEW p, LaunchSession(l, c, p)
      PROVE  Step(app, app', out')
  <2>1. Sane(app, Launch(app, l, c, p))
    BY LaunchSane, EventAssumption
  <2> QED
    BY <1>1, <2>1, ApplyStep DEF LaunchSession
<1>2. ASSUME NEW d \in SplitDirs, Split(d) PROVE Step(app, app', out')
  <2>1. Sane(app, SplitFocused(app, d))
    BY SplitSane, EventAssumption
  <2> QED
    BY <1>2, <2>1, ApplyStep DEF Split
<1>3. ASSUME NEW i, Close(i) \/ ActivateAt(i) \/ TogglePark(i) PROVE Step(app, app', out')
  <2>1. Sane(app, CloseTab(app, i)) /\ Sane(app, ActivateTab(app, i))
    BY CloseTabSane, ActivateSane
  <2>2. Sane(app, ToggleParkTab(app, i))
    BY ParkSane
  <2> QED
    BY <1>3, <2>1, <2>2, ApplyStep DEF Close, ActivateAt, TogglePark
<1>4. ASSUME NEW from, NEW to, MoveFrom(from, to) PROVE Step(app, app', out')
  BY <1>4, MoveSane, ApplyStep DEF MoveFrom
<1>5. ASSUME NEW s, CloseSession(s) \/ RevealPaneOf(s) \/ FocusPaneOf(s)
      PROVE  Step(app, app', out')
  <2>1. Sane(app, ClosePane(app, s)) /\ Sane(app, RevealPane(app, s))
    BY ClosePaneSane, RevealSane
  <2>2. Sane(app, FocusPaneAt(app, s))
    BY FocusSane
  <2> QED
    BY <1>5, <2>1, <2>2, ApplyStep DEF CloseSession, RevealPaneOf, FocusPaneOf
<1>6. ASSUME NEW s, NEW r \in Reports, StatusReport(s, r) PROVE Step(app, app', out')
  <2>1. Sane(app, StatusChanged(app, s, r))
    BY StatusSane, EventAssumption
  <2> QED
    BY <1>6, <2>1, ApplyStep DEF StatusReport
<1>7. ASSUME NEW s, NEW clean, Exit(s, clean) PROVE Step(app, app', out')
  BY <1>7, ExitSane, ApplyStep DEF Exit
<1>8. ASSUME NEW s, NEW c \in Cwd, CwdReport(s, c) PROVE Step(app, app', out')
  BY <1>8, CwdSane, ApplyStep DEF CwdReport
<1>9. ASSUME NEW p \in Cwd, NEW r, OpenLink(p, r) PROVE Step(app, app', out')
  BY <1>9, OpenRepoSane, ApplyStep DEF OpenLink
<1>10. ASSUME NEW step, FocusStep(step) PROVE Step(app, app', out')
  BY <1>10, FocusSane, ApplyStep DEF FocusStep
<1>11. ASSUME NEW d \in Direction, FocusDirection(d) PROVE Step(app, app', out')
  BY <1>11, FocusSane, ApplyStep DEF FocusDirection
<1>12. ASSUME CloseFocused PROVE Step(app, app', out')
  BY <1>12, CloseFocusedSane, ApplyStep DEF CloseFocused
<1>13. ASSUME Reopen PROVE Step(app, app', out')
  BY <1>13, ReopenSane, ApplyStep DEF Reopen
<1> QED
  BY <1>1, <1>2, <1>3, <1>4, <1>5, <1>6, <1>7, <1>8, <1>9, <1>10, <1>11, <1>12, <1>13 DEF Next

-----------------------------------------------------------------------------
(***************************************************************************)
(* The invariant.                                                          *)
(***************************************************************************)

Inv == Fits(app) /\ out \in Seq(Effect)

(* The app starts with an empty strip and an empty registry. *)
LEMMA InitInv == Init => Inv
<1> SUFFICES ASSUME Init PROVE Inv
  OBVIOUS
<1>1. DOMAIN <<>> = {} /\ <<>> \in Seq(Closed) /\ <<>> \in Seq(Effect) /\ Len(<<>>) = 0
  OBVIOUS
<1>2. app = AppOf(EmptyWorkspace, <<>>, 0, <<>>)
  BY DEF Init, NoApp, AppOf
<1>3. Good(EmptyWorkspace) /\ HostedIn(EmptyWorkspace) = DOMAIN <<>>
  BY <1>1, EmptyGood
<1>4. 0 \in 0 .. MaxId /\ 0 <= MaxClosed
  BY AppAssumption
<1>5. Fits(app)
  BY <1>1, <1>2, <1>3, <1>4, FitsOf
<1> QED
  BY <1>1, <1>5 DEF Inv, Init

(* A step leaves an app that fits. *)
LEMMA StepInv ==
  ASSUME NEW a, NEW b, NEW effects, Step(a, b, effects)
  PROVE  Fits(b) /\ effects \in Seq(Effect)
<1>1. PICK r : Sane(a, r) /\ b = r.app
                   /\ (effects = r.effects \/ effects = Append(r.effects, TabShown))
  BY DEF Step
<1>2. TabShown \in Effect /\ r.effects \in Seq(Effect)
  BY <1>1 DEF Effect, Sane
<1>3. Append(r.effects, TabShown) \in Seq(Effect)
  BY <1>2, AppendProperties
<1> QED
  BY <1>1, <1>2, <1>3 DEF Sane

(* No event breaks the invariant. *)
LEMMA NextInv == Inv /\ [Next]_vars => Inv'
<1> SUFFICES ASSUME Inv, [Next]_vars PROVE Inv'
  OBVIOUS
<1>1. CASE Next
  BY <1>1, NextStep, StepInv DEF Inv
<1>2. CASE UNCHANGED vars
  BY <1>2 DEF vars, Inv, Fits, Registered
<1> QED
  BY <1>1, <1>2

(* What the invariant says of types. *)
LEMMA TypedFacts == Inv => TypeOK
<1> SUFFICES ASSUME Inv PROVE TypeOK
  OBVIOUS
<1>1. Fits(app) /\ out \in Seq(Effect)
  BY DEF Inv
<1>2. Registered(app) \subseteq SessionId
  BY <1>1, IdsAre
<1> QED
  BY <1>1, <1>2 DEF TypeOK, Fits

(* What the invariant says of the registry. *)
LEMMA HostedFacts == Inv => RegisteredIffHosted
<1> SUFFICES ASSUME Inv PROVE RegisteredIffHosted
  OBVIOUS
<1>1. Fits(app) /\ Good(app.ws)
  BY DEF Inv, Fits
<1>2. Tabs = 1 .. Len(app.ws.tabs) /\ Apart(app.ws.tabs)
  BY <1>1, GoodStrip DEF Tabs
<1>3. ASSUME NEW i \in Tabs, NEW j \in Tabs,
             HostedBy(app.ws.tabs[i]) \cap HostedBy(app.ws.tabs[j]) # {}
      PROVE  i = j
  BY <1>2, <1>3 DEF Apart
<1> QED
  BY <1>1, <1>3 DEF RegisteredIffHosted, Fits

(* The word to the view spawns and kills nothing. *)
LEMMA ToldIs ==
  ASSUME NEW e \in Seq(Effect), NEW kind \in {"Spawn", "Kill"}
  PROVE  /\ OfKind(Append(e, TabShown), kind) = OfKind(e, kind)
         /\ Named(Append(e, TabShown), kind) = Named(e, kind)
         /\ Once(Append(e, TabShown), kind) <=> Once(e, kind)
<1>1. PICK told : told = Append(e, TabShown)
  OBVIOUS
<1>2. PICK n : n = Len(e)
  OBVIOUS
<1>3. n \in Nat /\ DOMAIN e = 1 .. n
  BY <1>2
<1>4. TabShown \in Effect /\ TabShown.kind # kind
  BY DEF Effect, TabShown
<1>5. DOMAIN told = 1 .. n + 1
  BY <1>1, <1>2, <1>3
<1>6. told[n + 1] = TabShown
  BY <1>1, <1>2, <1>4, AppendProperties
<1>7. \A k \in 1 .. n : told[k] = e[k]
  BY <1>1, <1>2, <1>4, AppendProperties
<1>8. OfKind(told, kind) = OfKind(e, kind)
  <2>1. ASSUME NEW k PROVE k \in OfKind(told, kind) <=> k \in OfKind(e, kind)
    <3>1. k \in 1 .. n + 1 <=> k \in 1 .. n \/ k = n + 1
      BY <1>3
    <3> QED
      BY <1>3, <1>4, <1>5, <1>6, <1>7, <3>1 DEF OfKind
  <2> QED
    BY <2>1
<1>9. OfKind(e, kind) \subseteq 1 .. n
  BY <1>3 DEF OfKind
<1> QED
  BY <1>1, <1>7, <1>8, <1>9 DEF Named, Once

(* As many effects as sessions they name. *)
LEMMA OnceCounts ==
  ASSUME NEW e \in Seq(Effect), NEW kind, Once(e, kind)
  PROVE  Cardinality(OfKind(e, kind)) = Cardinality(Named(e, kind))
<1>1. PICK D : D = OfKind(e, kind)
  OBVIOUS
<1>2. PICK f : f = [n \in D |-> e[n].session]
  OBVIOUS
<1>3. IsFiniteSet(D)
  <2>1. Len(e) \in Nat /\ DOMAIN e = 1 .. Len(e)
    OBVIOUS
  <2>2. IsFiniteSet(1 .. Len(e))
    BY <2>1, FS_Interval
  <2>3. D \subseteq 1 .. Len(e)
    BY <1>1, <2>1 DEF OfKind
  <2> QED
    BY <2>2, <2>3, FS_Subset
<1>4. f \in Bijection(D, Named(e, kind))
  <2>1. f \in [D -> Named(e, kind)]
    BY <1>1, <1>2 DEF Named
  <2>2. \A m, n \in D : f[m] = f[n] => m = n
    BY <1>1, <1>2 DEF Once
  <2>3. \A s \in Named(e, kind) : \E n \in D : f[n] = s
    BY <1>1, <1>2 DEF Named
  <2> QED
    BY <2>1, <2>2, <2>3 DEF Bijection, Injection, Surjection, IsInjective
<1> QED
  BY <1>1, <1>3, <1>4, FS_Bijection DEF ExistsBijection

(* A step spawns and kills what enters and leaves the registry. *)
LEMMA StepPtys ==
  ASSUME Inv, Step(app, app', out')
  PROVE  /\ SessionsOf("Spawn")' = Registered(app)' \ Registered(app)
         /\ SessionsOf("Kill")' = Registered(app) \ Registered(app)'
         /\ \A k \in {"Spawn", "Kill"} :
              Cardinality(Effects(k)') = Cardinality(SessionsOf(k)')
         /\ \A s \in Registered(app)' \ Registered(app) : s > app.nextId
<1>1. PICK r : /\ Sane(app, r) /\ app' = r.app
               /\ out' = r.effects \/ out' = Append(r.effects, TabShown)
  BY DEF Step
<1>2. PICK e : e = out'
  OBVIOUS
<1>3. r.effects \in Seq(Effect) /\ e \in Seq(Effect)
  BY <1>1, <1>2, StepInv DEF Sane
<1>4. ASSUME NEW k \in {"Spawn", "Kill"}
      PROVE  Named(e, k) = Named(r.effects, k) /\ Once(e, k)
  <2>1. Once(r.effects, k)
    BY <1>1 DEF Sane
  <2>2. Named(Append(r.effects, TabShown), k) = Named(r.effects, k)
    BY <1>3, ToldIs
  <2>3. Once(Append(r.effects, TabShown), k)
    BY <1>3, <2>1, ToldIs
  <2> QED
    BY <1>1, <1>2, <2>1, <2>2, <2>3
<1>5. ASSUME NEW k
      PROVE  SessionsOf(k)' = Named(e, k) /\ Effects(k)' = OfKind(e, k)
  BY <1>2 DEF SessionsOf, Effects, Named, OfKind
<1>6. Registered(app)' = Registered(r.app)
  BY <1>1 DEF Registered
<1>7. SessionsOf("Spawn")' = Registered(app)' \ Registered(app)
  BY <1>1, <1>4, <1>5, <1>6 DEF Sane
<1>8. SessionsOf("Kill")' = Registered(app) \ Registered(app)'
  BY <1>1, <1>4, <1>5, <1>6 DEF Sane
<1>9. ASSUME NEW k \in {"Spawn", "Kill"}
      PROVE  Cardinality(Effects(k)') = Cardinality(SessionsOf(k)')
  BY <1>3, <1>4, <1>5, OnceCounts
<1>10. \A s \in Registered(app)' \ Registered(app) : s > app.nextId
  BY <1>1, <1>6 DEF Sane
<1> QED
  BY <1>7, <1>8, <1>9, <1>10

(* A step that shows another tab says so. *)
LEMMA StepReported ==
  ASSUME Inv, Step(app, app', out'), app.ws.tabs # <<>>, ~StillShown
  PROVE  TabShown \in Range(out')
<1>1. PICK r : /\ Sane(app, r) /\ app' = r.app
               /\ \/ out' = Append(r.effects, TabShown)
                  \/ out' = r.effects /\ ~NoLongerShown(app, app')
  BY DEF Step
<1>2. Fits(app) /\ Good(app.ws)
  BY DEF Inv, Fits
<1>3. PICK i : i = app.ws.active
  OBVIOUS
<1>4. i \in 1 .. Len(app.ws.tabs)
  BY <1>2, <1>3, FocusedIs
<1>5. ShownSession(app.ws) \in HostedBy(Shown(app.ws))
  <2>1. LayoutFits(app.ws.tabs[i].layout)
    BY <1>2, <1>4, LayoutOfTab
  <2> QED
    BY <1>3, <2>1, FirstSessionIs DEF ShownSession, Shown, HostedBy
<1>6. NoLongerShown(app, app')
  BY <1>5 DEF StillShown, NoLongerShown
<1>7. out' = Append(r.effects, TabShown)
  BY <1>1, <1>6
<1>8. TabShown \in Effect /\ r.effects \in Seq(Effect)
  BY <1>1 DEF Effect, Sane
<1>9. PICK e : e = Append(r.effects, TabShown)
  OBVIOUS
<1>10. e \in Seq(Effect) /\ Len(e) = Len(r.effects) + 1 /\ e[Len(r.effects) + 1] = TabShown
  BY <1>8, <1>9, AppendProperties
<1>11. Len(e) \in DOMAIN e /\ e[Len(e)] = TabShown
  BY <1>8, <1>10
<1> QED
  BY <1>7, <1>9, <1>11 DEF Range

-----------------------------------------------------------------------------
(***************************************************************************)
(* The focus.                                                              *)
(***************************************************************************)

(* An answer that leaves the strip alone leaves the focus. *)
LEMMA SameStripKeeps ==
  ASSUME NEW a, Fits(a), a.ws.tabs # <<>>
  PROVE  FocusStays(a.ws, a.ws)
BY FocusedIs, SameShown

(* A launch behind. *)
LEMMA BackgroundKeeps ==
  ASSUME NEW a, Fits(a), a.ws.tabs # <<>>, NEW launch, NEW cwd
  PROVE  FocusStays(a.ws, Launch(a, launch, cwd, "Background").app.ws)
<1>1. CASE a.nextId = MaxId
  <2>1. Launch(a, launch, cwd, "Background").app = a
    BY <1>1 DEF Launch, Quiet, Answer
  <2> QED
    BY <2>1, SameStripKeeps
<1>2. CASE a.nextId # MaxId
  <2>1. PICK id : id = a.nextId + 1
    OBVIOUS
  <2>2. PICK b : b = Launch(a, launch, cwd, "Background").app
    OBVIOUS
  <2>3. PICK w : w = AppendTab(a.ws, id)
    OBVIOUS
  <2>4. w = IF "Background" = "Foreground" THEN OpenTab(a.ws, id) ELSE AppendTab(a.ws, id)
    BY <2>3
  <2>5. b.ws = w
    BY <1>2, <2>1, <2>2, <2>4, LaunchIs
  <2>6. Good(a.ws) /\ id \notin HostedIn(a.ws)
    BY <2>1, IdsAre DEF Fits
  <2>7. FocusStays(a.ws, w)
    BY <2>3, <2>6, FocusedIs, AppendKeeps
  <2> QED
    BY <2>2, <2>5, <2>7
<1> QED
  BY <1>1, <1>2

(* What a report that is accepted leaves of the strip. *)
LEMMA StatusStrip ==
  ASSUME NEW a, Fits(a), NEW s \in Registered(a), a.live[s].status # "Exited", NEW status
  PROVE  StatusChanged(a, s, status).app.ws
           = IF status = "Attention" THEN UnparkTabOf(a.ws, s) ELSE a.ws
<1>1. PICK w : w = IF status = "Attention" THEN UnparkTabOf(a.ws, s) ELSE a.ws
  OBVIOUS
<1>2. PICK live : live = [a.live EXCEPT ![s] = [a.live[s] EXCEPT !.status = status]]
  OBVIOUS
<1>3. [a EXCEPT !.live[s].status = status,
                !.ws = IF status = "Attention" THEN UnparkTabOf(@, s) ELSE @]
        = [[a EXCEPT !.live = live] EXCEPT !.ws = w]
  BY <1>1, <1>2 DEF Fits
<1>4. PICK b : b = [a EXCEPT !.live = live]
  OBVIOUS
<1>5. b = AppOf(a.ws, live, a.nextId, a.closed)
  BY <1>4 DEF AppOf, Fits
<1>6. [b EXCEPT !.ws = w].ws = w
  BY <1>5 DEF AppOf
<1> QED
  BY <1>1, <1>3, <1>4, <1>6 DEF StatusChanged, Quiet, Answer

(* A report of activity, of attention included. *)
LEMMA StatusKeeps ==
  ASSUME NEW a, Fits(a), a.ws.tabs # <<>>, NEW s, NEW status
  PROVE  FocusStays(a.ws, StatusChanged(a, s, status).app.ws)
<1>1. CASE s \notin Registered(a) \/ a.live[s].status = "Exited"
  <2>1. StatusChanged(a, s, status).app = a
    BY <1>1 DEF StatusChanged, Quiet, Answer
  <2> QED
    BY <2>1, SameStripKeeps
<1>2. CASE ~(s \notin Registered(a) \/ a.live[s].status = "Exited")
  <2>1. PICK w : w = IF status = "Attention" THEN UnparkTabOf(a.ws, s) ELSE a.ws
    OBVIOUS
  <2>3. StatusChanged(a, s, status).app.ws = w
    BY <1>2, <2>1, StatusStrip
  <2>4. CASE s \in HostedIn(a.ws) /\ a.ws.tabs[TabOf(a.ws, s)].parked
    <3>1. PICK i : i = TabOf(a.ws, s)
      OBVIOUS
    <3>2. Good(a.ws)
      BY DEF Fits
    <3>3. i \in 1 .. Len(a.ws.tabs) /\ a.ws.tabs[i].parked
      BY <2>4, <3>1, <3>2, TabOfIs
    <3>4. FocusStays(a.ws, Unpark(a.ws, i))
      BY <3>2, <3>3, FocusedIs, UnparkKeeps
    <3>5. w = Unpark(a.ws, i) \/ w = a.ws
      BY <2>1, <2>4, <3>1 DEF UnparkTabOf
    <3> QED
      BY <2>3, <3>4, <3>5, SameStripKeeps
  <2>5. CASE ~(s \in HostedIn(a.ws) /\ a.ws.tabs[TabOf(a.ws, s)].parked)
    <3>1. w = a.ws
      BY <2>1, <2>5 DEF UnparkTabOf
    <3> QED
      BY <2>3, <3>1, SameStripKeeps
  <2> QED
    BY <2>4, <2>5
<1> QED
  BY <1>1, <1>2

(* The close of a tab that is not shown. *)
LEMMA CloseTabKeeps ==
  ASSUME NEW a, Fits(a), a.ws.tabs # <<>>, NEW i \in 1 .. Len(a.ws.tabs), a.ws.active # i
  PROVE  FocusStays(a.ws, CloseTab(a, i).app.ws)
<1>1. Good(a.ws)
  BY DEF Fits
<1>2. CloseTab(a, i).app.ws = CloseAt(a.ws, i)
  BY CloseTabIs, AppOfFields
<1>3. FocusStays(a.ws, CloseAt(a.ws, i))
  BY <1>1, FocusedIs, CloseAtKeeps
<1> QED
  BY <1>2, <1>3

(* The close of a pane of such a tab. *)
LEMMA ClosePaneKeeps ==
  ASSUME NEW a, Fits(a), a.ws.tabs # <<>>, NEW s, s \notin HostedBy(Shown(a.ws))
  PROVE  FocusStays(a.ws, ClosePane(a, s).app.ws)
<1>1. CASE s \notin HostedIn(a.ws)
  <2>1. ClosePane(a, s).app = a
    BY <1>1 DEF ClosePane, Quiet, Answer
  <2> QED
    BY <2>1, SameStripKeeps
<1>2. CASE s \in HostedIn(a.ws)
  <2>1. PICK i : i = TabOf(a.ws, s)
    OBVIOUS
  <2>2. Good(a.ws)
    BY DEF Fits
  <2>3. i \in 1 .. Len(a.ws.tabs) /\ s \in HostedBy(a.ws.tabs[i])
    BY <1>2, <2>1, <2>2, TabOfIs
  <2>4. a.ws.active # i
    BY <2>3 DEF Shown
  <2>5. CASE HostedBy(a.ws.tabs[i]) = {s}
    <3>1. ClosePane(a, s) = CloseTab(a, i)
      BY <1>2, <2>1, <2>5 DEF ClosePane
    <3> QED
      BY <2>3, <2>4, <3>1, CloseTabKeeps
  <2>6. CASE HostedBy(a.ws.tabs[i]) # {s}
    <3>1. ClosePane(a, s) = ReleaseClosedPane(a, s, CloseLeafAt(a.ws, i, s))
      BY <1>2, <2>1, <2>6 DEF ClosePane, ClosePaneOf
    <3>2. ClosePane(a, s).app.ws = CloseLeafAt(a.ws, i, s)
      BY <3>1, ReleaseIs
    <3>3. FocusStays(a.ws, CloseLeafAt(a.ws, i, s))
      BY <2>2, <2>3, <2>4, FocusedIs, CloseLeafKeeps
    <3> QED
      BY <3>2, <3>3
  <2> QED
    BY <2>5, <2>6
<1> QED
  BY <1>1, <1>2

(* A clean exit of a session of such a tab. *)
LEMMA ExitKeeps ==
  ASSUME NEW a, Fits(a), a.ws.tabs # <<>>, NEW s, s \notin HostedBy(Shown(a.ws))
  PROVE  FocusStays(a.ws, PtyExited(a, s, TRUE).app.ws)
<1>1. CASE s \notin Registered(a)
  <2>1. PtyExited(a, s, TRUE).app = a
    BY <1>1 DEF PtyExited, Quiet, Answer
  <2> QED
    BY <2>1, SameStripKeeps
<1>2. CASE s \in Registered(a)
  <2>1. PtyExited(a, s, TRUE) = ClosePane(a, s)
    BY <1>2 DEF PtyExited, Fits
  <2> QED
    BY <2>1, ClosePaneKeeps
<1> QED
  BY <1>1, <1>2

(* The tab of a session that asks for attention ends unparked. *)
LEMMA AttentionUnparks ==
  ASSUME NEW w, Good(w), NEW s, NEW v, v = UnparkTabOf(w, s),
         NEW j \in 1 .. Len(v.tabs), s \in HostedBy(v.tabs[j])
  PROVE  ~v.tabs[j].parked
<1>1. CASE s \in HostedIn(w) /\ w.tabs[TabOf(w, s)].parked
  <2>1. PICK i : i = TabOf(w, s)
    OBVIOUS
  <2>2. /\ i \in 1 .. Len(w.tabs) /\ w.tabs[i].parked /\ s \in HostedBy(w.tabs[i])
        /\ v = Unpark(w, i)
    BY <1>1, <2>1, TabOfIs DEF UnparkTabOf
  <2>3. PICK n \in Nat : Boundary(w.tabs, n) /\ ShownFits(w, n)
    BY DEF Good, Sound
  <2>4. PICK to : to = n + 1
    OBVIOUS
  <2>5. to \in 1 .. Len(v.tabs) /\ Boundary(v.tabs, to)
    BY <2>2, <2>3, <2>4, GoodStrip, UnparkIs
  <2>6. to \in 1 .. Len(w.tabs) /\ FALSE \in BOOLEAN
    BY <2>2, <2>3, <2>4, GoodStrip DEF Boundary
  <2>7. v = Relocate(w, i, to, FALSE)
    BY <2>2, <2>3, <2>4, GoodStrip, FirstParkedIs DEF Unpark
  <2>8. Shuffled(w, v, i, to) /\ ShiftIndex(i, i, to) = to
    <3>1. i \in Nat /\ to \in Nat
      BY <2>2, <2>6
    <3> QED
      BY <2>2, <2>6, <2>7, <3>1, RelocateShuffles, ShiftIndexMoved
  <2>9. s \in HostedBy(v.tabs[to])
    BY <2>2, <2>8 DEF Shuffled, HostedBy
  <2>10. Good(v)
    BY UnparkTabGood
  <2>11. j = to
    BY <2>5, <2>9, <2>10, TabIsTheOne
  <2> QED
    BY <2>5, <2>11 DEF Boundary
<1>2. CASE ~(s \in HostedIn(w) /\ w.tabs[TabOf(w, s)].parked)
  <2>1. v = w
    BY <1>2 DEF UnparkTabOf
  <2> QED
    BY <1>2, <2>1, TabIsTheOne
<1> QED
  BY <1>1, <1>2

(* What nobody asked for leaves the focus. *)
LEMMA UnaskedKeeps ==
  ASSUME Inv, app.ws.tabs # <<>>, Unasked
  PROVE  FocusStays(app.ws, app'.ws)
<1>0. Fits(app) /\ Tabs = 1 .. Len(app.ws.tabs)
  BY GoodStrip DEF Inv, Fits, Tabs
<1>1. ASSUME NEW r, Apply(r), r = [app |-> r.app, effects |-> r.effects]
      PROVE  app' = r.app
  BY <1>1 DEF Apply, Settled
<1>2. ASSUME NEW l \in Launches, NEW c \in Cwd, LaunchSession(l, c, "Background")
      PROVE  FocusStays(app.ws, app'.ws)
  <2>1. PICK r : r = Launch(app, l, c, "Background")
    OBVIOUS
  <2>2. Sane(app, r)
    BY <1>0, <2>1, LaunchSane, EventAssumption
  <2>3. app' = r.app
    BY <1>1, <1>2, <2>1, <2>2 DEF LaunchSession, Sane
  <2> QED
    BY <1>0, <2>1, <2>3, BackgroundKeeps
<1>3. ASSUME NEW s \in SessionId, NEW x \in Reports, StatusReport(s, x)
      PROVE  FocusStays(app.ws, app'.ws)
  <2>1. PICK r : r = StatusChanged(app, s, x)
    OBVIOUS
  <2>2. Sane(app, r)
    BY <1>0, <2>1, StatusSane, EventAssumption
  <2>3. app' = r.app
    BY <1>1, <1>3, <2>1, <2>2 DEF StatusReport, Sane
  <2> QED
    BY <1>0, <2>1, <2>3, StatusKeeps
<1>4. ASSUME NEW s \in SessionId, s \notin HostedBy(Shown(app.ws)), Exit(s, TRUE)
      PROVE  FocusStays(app.ws, app'.ws)
  <2>1. PICK r : r = PtyExited(app, s, TRUE)
    OBVIOUS
  <2>2. Sane(app, r)
    BY <1>0, <2>1, ExitSane
  <2>3. app' = r.app
    BY <1>1, <1>4, <2>1, <2>2 DEF Exit, Sane
  <2> QED
    BY <1>0, <1>4, <2>1, <2>3, ExitKeeps
<1>5. ASSUME NEW s \in SessionId, s \notin HostedBy(Shown(app.ws)), CloseSession(s)
      PROVE  FocusStays(app.ws, app'.ws)
  <2>1. PICK r : r = ClosePane(app, s)
    OBVIOUS
  <2>2. Sane(app, r)
    BY <1>0, <2>1, ClosePaneSane
  <2>3. app' = r.app
    BY <1>1, <1>5, <2>1, <2>2 DEF CloseSession, Sane
  <2> QED
    BY <1>0, <1>5, <2>1, <2>3, ClosePaneKeeps
<1>6. ASSUME NEW i \in Tabs \ {app.ws.active}, Close(i)
      PROVE  FocusStays(app.ws, app'.ws)
  <2>1. PICK r : r = CloseTab(app, i)
    OBVIOUS
  <2>2. Sane(app, r)
    BY <1>0, <2>1, CloseTabSane
  <2>3. app' = r.app
    BY <1>1, <1>6, <2>1, <2>2 DEF Close, Sane
  <2> QED
    BY <1>0, <2>1, <2>3, CloseTabKeeps
<1> QED
  BY <1>2, <1>3, <1>4, <1>5, <1>6 DEF Unasked

-----------------------------------------------------------------------------
(***************************************************************************)
(* Undoing a close.                                                        *)
(***************************************************************************)

(* The tab that closed last is the one reopened, under a new id. *)
LEMMA ReopenIs ==
  ASSUME NEW a, Fits(a), a.closed # <<>>, a.nextId # MaxId,
         NEW last, last = Last(a.closed), NEW b, b = ReopenClosedTab(a).app
  PROVE  b.live[FocusedIn(b.ws)] = Starting(last.launch, last.cwd)
<1>1. PICK rest : rest = Front(a.closed)
  OBVIOUS
<1>2. PICK c : c = AppOf(a.ws, a.live, a.nextId, rest)
  OBVIOUS
<1>3. Fits(c)
  BY <1>1, <1>2, FrontFits
<1>4. c.nextId = a.nextId /\ c.ws = a.ws
  BY <1>2, AppOfFields
<1>5. [a EXCEPT !.closed = Front(@)] = c
  BY <1>1, <1>2 DEF Fits, AppOf
<1>6. b = Launch(c, last.launch, last.cwd, "Foreground").app
  BY <1>5 DEF ReopenClosedTab
<1>7. PICK id : id = a.nextId + 1
  OBVIOUS
<1>8. PICK w : w = OpenTab(c.ws, id)
  OBVIOUS
<1>9. w = IF "Foreground" = "Foreground" THEN OpenTab(c.ws, id) ELSE AppendTab(c.ws, id)
  BY <1>8
<1>10. b.ws = w /\ b.live[id] = Starting(last.launch, last.cwd)
  BY <1>3, <1>4, <1>6, <1>7, <1>9, LaunchIs
<1>11. Good(c.ws) /\ id \notin HostedIn(c.ws)
  BY <1>3, <1>4, <1>7, IdsAre DEF Fits
<1>12. FocusedIn(w) = id
  BY <1>8, <1>11, OpenShows
<1> QED
  BY <1>10, <1>12

(* What the invariant says of a close undone at once. *)
LEMMA ReopenFacts == Inv => CloseThenReopen
<1> SUFFICES ASSUME Inv, app.nextId < MaxId, MaxClosed > 0, NEW i \in Tabs,
                    NEW first, first = app.live[FirstSession(app.ws.tabs[i].layout)],
                    NEW reopened, reopened = ReopenClosedTab(CloseTab(app, i).app).app
             PROVE  reopened.live[FocusedIn(reopened.ws)] = Starting(first.launch, first.cwd)
  BY DEF CloseThenReopen
<1>1. Fits(app) /\ i \in 1 .. Len(app.ws.tabs)
  BY GoodStrip DEF Inv, Fits, Tabs
<1>2. PICK closed : closed = RememberClosedTab(app, i).closed
  OBVIOUS
<1>3. PICK b : b = CloseTab(app, i).app
  OBVIOUS
<1>4. Fits(b)
  BY <1>1, <1>3, CloseTabSane DEF Sane
<1>5. b.closed = closed /\ b.nextId = app.nextId
  <2>1. b = AppOf(CloseAt(app.ws, i), Without(app.live, HostedBy(app.ws.tabs[i])),
                  app.nextId, closed)
    BY <1>1, <1>2, <1>3, CloseTabIs
  <2> QED
    BY <2>1, AppOfFields
<1>6. PICK last : last = Last(closed)
  OBVIOUS
<1>7. closed # <<>> /\ last = [launch |-> first.launch, cwd |-> first.cwd]
  BY <1>1, <1>2, <1>6, RememberedIs
<1>8. b.nextId # MaxId
  BY <1>1, <1>5 DEF Fits
<1>9. reopened.live[FocusedIn(reopened.ws)] = Starting(last.launch, last.cwd)
  BY <1>3, <1>4, <1>5, <1>6, <1>7, <1>8, ReopenIs
<1>10. last.launch = first.launch /\ last.cwd = first.cwd
  BY <1>7
<1> QED
  BY <1>9, <1>10

-----------------------------------------------------------------------------
(***************************************************************************)
(* Links.                                                                  *)
(***************************************************************************)

(* Some of the sessions a strip hosts have a first one: a tab that comes first,
   and in it a pane drawn first. *)
LEMMA FirstOfIs ==
  ASSUME NEW w, Good(w), NEW S, S \subseteq HostedIn(w), S # {}
  PROVE  FirstOf(w, S) \in S
<1> DEFINE Tab(s) == TabOf(w, s)
<1>1. \A s \in S : Tab(s) \in 1 .. Len(w.tabs) /\ s \in HostedBy(w.tabs[Tab(s)])
  BY TabOfIs
<1>2. Len(w.tabs) \in Nat
  BY GoodStrip
<1>3. PICK T : T = {Tab(s) : s \in S}
  OBVIOUS
<1>4. T \subseteq Nat /\ T # {}
  BY <1>1, <1>2, <1>3
<1>5. PICK i \in T : \A j \in T : i <= j
  BY <1>4, Least
<1>6. PICK l : l = w.tabs[i].layout
  OBVIOUS
<1>7. PICK here : here = {s \in S : Tab(s) = i}
  OBVIOUS
<1>8. here # {}
  BY <1>3, <1>5, <1>7
<1>9. i \in 1 .. Len(w.tabs) /\ here \subseteq Hosted(l)
  BY <1>1, <1>3, <1>5, <1>6, <1>7 DEF HostedBy
<1>10. LayoutFits(l)
  BY <1>6, <1>9, LayoutOfTab
<1>11. IsTree(l) /\ IsFiniteSet(LeafPaths(l))
  <2>1. PICK f : f = [s \in Hosted(l) |-> l.at[s]]
    OBVIOUS
  <2>2. f \in Surjection(Hosted(l), LeafPaths(l))
    BY <2>1 DEF Surjection, LeafPaths
  <2>3. IsFiniteSet(Hosted(l)) /\ IsTree(l)
    BY <1>10 DEF LayoutFits
  <2> QED
    BY <2>2, <2>3, FS_Surjection DEF ExistsSurjection
<1>12. PICK V : V = {l.at[s] : s \in here}
  OBVIOUS
<1>13. V \in SUBSET LeafPaths(l) /\ V # {}
  BY <1>8, <1>9, <1>12 DEF LeafPaths
<1>14. PICK p : DrawnFirst(V, p)
  BY <1>11, <1>13, FirstExists
<1>15. PICK s \in here : l.at[s] = p
  BY <1>12, <1>14 DEF DrawnFirst
<1>16. s \in S /\ Tab(s) = i
  BY <1>7, <1>15
<1>17. ASSUME NEW t \in S \ {s}
       PROVE  \/ Tab(s) < Tab(t)
              \/ /\ Tab(s) = Tab(t)
                 /\ Before(w.tabs[Tab(s)].layout.at[s], w.tabs[Tab(s)].layout.at[t])
  <2>1. Tab(t) \in T /\ Tab(t) \in Nat /\ i \in Nat
    BY <1>3, <1>4
  <2>2. CASE Tab(t) # i
    BY <1>5, <1>16, <2>1, <2>2
  <2>3. CASE Tab(t) = i
    <3>1. t \in here
      BY <1>7, <2>3
    <3>2. l.at[t] \in V /\ l.at[t] # p
      BY <1>9, <1>11, <1>12, <1>15, <3>1 DEF IsTree
    <3>3. Before(p, l.at[t])
      BY <1>14, <3>2 DEF DrawnFirst
    <3> QED
      BY <1>6, <1>15, <1>16, <2>3, <3>3
  <2> QED
    BY <2>2, <2>3
<1> HIDE DEF Tab
<1>18. \E u \in S : \A t \in S \ {u} :
         \/ TabOf(w, u) < TabOf(w, t)
         \/ /\ TabOf(w, u) = TabOf(w, t)
            /\ Before(w.tabs[TabOf(w, u)].layout.at[u], w.tabs[TabOf(w, u)].layout.at[t])
  BY <1>16, <1>17 DEF Tab
<1> QED
  BY <1>18, Zenon DEF FirstOf

(* A session working in a directory, when there is one. *)
LEMMA SessionWorkingInIs ==
  ASSUME NEW a, Fits(a), NEW dir, WorkingIn(a, dir) # {}
  PROVE  SessionWorkingIn(a, dir) \in WorkingIn(a, dir)
<1>1. Good(a.ws)
  BY DEF Fits
<1>2. WorkingIn(a, dir) \subseteq HostedIn(a.ws)
  BY DEF WorkingIn
<1>3. FirstOf(a.ws, WorkingIn(a, dir)) \in WorkingIn(a, dir)
  BY <1>1, <1>2, FirstOfIs
<1> QED
  BY <1>3 DEF SessionWorkingIn

(* A pane revealed has the focus. *)
LEMMA RevealShows ==
  ASSUME NEW a, Fits(a), NEW s \in HostedIn(a.ws), NEW b, b = RevealPane(a, s).app
  PROVE  b.ws.tabs # <<>> /\ FocusedIn(b.ws) = s
<1>1. Good(a.ws)
  BY DEF Fits
<1>2. PICK w : w = Reveal(a.ws, s)
  OBVIOUS
<1>3. w.active \in 1 .. Len(w.tabs) /\ FocusedIn(w) = s
  BY <1>1, <1>2, RevealGood
<1>4. b = [a EXCEPT !.ws = w]
  BY <1>2 DEF RevealPane, OnStrip, Quiet, Answer
<1>5. b.ws = w
  BY <1>4 DEF Fits
<1>6. w.tabs # <<>>
  <2> SUFFICES ASSUME w.tabs = <<>> PROVE FALSE
    OBVIOUS
  <2>1. Len(w.tabs) = 0
    OBVIOUS
  <2> QED
    BY <1>3, <2>1
<1> QED
  BY <1>3, <1>5, <1>6

(* A link shows a pane working in the repo, or with an id left opens one. *)
LEMMA OpenRepoShows ==
  ASSUME NEW a, Fits(a), NEW path, NEW resolved, NEW b, b = OpenRepo(a, path, resolved).app,
         NEW working, working = WorkingIn(a, path) \cup WorkingIn(a, resolved)
  PROVE  /\ working # {} => b.ws.tabs # <<>> /\ FocusedIn(b.ws) \in working
         /\ working = {} /\ a.nextId < MaxId =>
              b.ws.tabs # <<>> /\ FocusedIn(b.ws) \in WorkingIn(b, path) \ Registered(a)
<1>1. ASSUME NEW dir, WorkingIn(a, dir) # {},
             OpenRepo(a, path, resolved) = RevealPane(a, SessionWorkingIn(a, dir))
      PROVE  b.ws.tabs # <<>> /\ FocusedIn(b.ws) \in WorkingIn(a, dir)
  <2>1. PICK s : s = SessionWorkingIn(a, dir)
    OBVIOUS
  <2>2. s \in WorkingIn(a, dir)
    BY <1>1, <2>1, SessionWorkingInIs
  <2>3. s \in HostedIn(a.ws)
    BY <2>2 DEF WorkingIn
  <2>4. b = RevealPane(a, s).app
    BY <1>1, <2>1
  <2> QED
    BY <2>2, <2>3, <2>4, RevealShows
<1>2. CASE WorkingIn(a, path) # {}
  BY <1>1, <1>2 DEF OpenRepo
<1>3. CASE WorkingIn(a, path) = {} /\ WorkingIn(a, resolved) # {}
  BY <1>1, <1>3 DEF OpenRepo
<1>4. CASE WorkingIn(a, path) = {} /\ WorkingIn(a, resolved) = {}
  <2> SUFFICES ASSUME a.nextId < MaxId
               PROVE  b.ws.tabs # <<>> /\ FocusedIn(b.ws) \in WorkingIn(b, path) \ Registered(a)
    BY <1>4
  <2>1. b = Launch(a, "Shell", path, "Foreground").app
    BY <1>4 DEF OpenRepo
  <2>2. PICK id : id = a.nextId + 1
    OBVIOUS
  <2>3. PICK w : w = OpenTab(a.ws, id)
    OBVIOUS
  <2>4. w = IF "Foreground" = "Foreground" THEN OpenTab(a.ws, id) ELSE AppendTab(a.ws, id)
    BY <2>3
  <2>5. a.nextId # MaxId
    BY AppAssumption DEF Fits
  <2>6. b.ws = w /\ id \in Registered(b)
    BY <2>1, <2>2, <2>4, <2>5, LaunchIs
  <2>7. b.live[id] = Starting("Shell", path)
    BY <2>1, <2>2, <2>4, <2>5, LaunchIs
  <2>8. Good(a.ws) /\ id \notin HostedIn(a.ws)
    BY <2>2, IdsAre DEF Fits
  <2>9. w.active \in 1 .. Len(w.tabs) /\ FocusedIn(w) = id
    BY <2>3, <2>8, OpenShows
  <2>10. w.tabs # <<>>
    <3> SUFFICES ASSUME w.tabs = <<>> PROVE FALSE
      OBVIOUS
    <3>1. Len(w.tabs) = 0
      OBVIOUS
    <3> QED
      BY <2>9, <3>1
  <2>11. id \in HostedIn(w)
    BY <2>3, <2>8, OpenGood
  <2>12. id \in WorkingIn(b, path)
    BY <2>6, <2>7, <2>11 DEF WorkingIn, Starting
  <2>13. id \notin Registered(a)
    BY <2>2, IdsAre
  <2> QED
    BY <2>6, <2>9, <2>10, <2>12, <2>13
<1> QED
  BY <1>2, <1>3, <1>4

(* Following a link ends in a pane working in the repo. *)
LEMMA LinkShows ==
  ASSUME Inv, NEW path \in Cwd, NEW resolved \in Cwd, OpenLink(path, resolved)
  PROVE  ShowsRepo(path, resolved)
<1>1. Fits(app)
  BY DEF Inv
<1>2. PICK b : b = OpenRepo(app, path, resolved).app
  OBVIOUS
<1>3. app' = b
  BY <1>2 DEF OpenLink, ApplyGesture
<1>4. PICK working : working = WorkingIn(app, path) \cup WorkingIn(app, resolved)
  OBVIOUS
<1>5. working # {} => b.ws.tabs # <<>> /\ FocusedIn(b.ws) \in working
  BY <1>1, <1>2, <1>4, OpenRepoShows
<1>6. working = {} /\ app.nextId < MaxId =>
        b.ws.tabs # <<>> /\ FocusedIn(b.ws) \in WorkingIn(b, path) \ Registered(app)
  BY <1>1, <1>2, <1>4, OpenRepoShows
<1> QED
  BY <1>3, <1>4, <1>5, <1>6 DEF ShowsRepo

-----------------------------------------------------------------------------
(* `Inv` holds in every reachable state. *)
THEOREM AppInvariant == Spec => []Inv
BY InitInv, NextInv, PTL DEF Spec

(* The app, and the effects it returns, have their types: ids stay within the
   counter, the reopen stack within its cap. *)
THEOREM AppTyped == Spec => []TypeOK
BY AppInvariant, TypedFacts, PTL

(* A session is registered iff a pane hosts it, in one tab only, whatever the
   order of launches, splits, closes, exits and late reports. *)
THEOREM AppRegistry == Spec => []RegisteredIffHosted
BY AppInvariant, HostedFacts, PTL

(* Each session that enters the registry is spawned once under an id never
   used, each that leaves it is killed once, and nothing else is. *)
THEOREM AppPtys == Spec => PtysFollowRegistry
<1>1. Inv /\ [Next]_vars =>
        [/\ SessionsOf("Spawn")' = Registered(app)' \ Registered(app)
         /\ SessionsOf("Kill")' = Registered(app) \ Registered(app)'
         /\ \A k \in {"Spawn", "Kill"} :
              Cardinality(Effects(k)') = Cardinality(SessionsOf(k)')
         /\ \A s \in Registered(app)' \ Registered(app) : s > app.nextId]_vars
  <2> SUFFICES ASSUME Inv, Next
               PROVE  /\ SessionsOf("Spawn")' = Registered(app)' \ Registered(app)
                      /\ SessionsOf("Kill")' = Registered(app) \ Registered(app)'
                      /\ \A k \in {"Spawn", "Kill"} :
                           Cardinality(Effects(k)') = Cardinality(SessionsOf(k)')
                      /\ \A s \in Registered(app)' \ Registered(app) : s > app.nextId
    OBVIOUS
  <2>1. Step(app, app', out')
    BY NextStep DEF Inv
  <2> QED
    BY <2>1, StepPtys
<1> QED
  BY <1>1, AppInvariant, PTL DEF Spec, PtysFollowRegistry

(* The view is told whenever another tab comes to be shown. *)
THEOREM AppShownReported == Spec => ShownChangeReported
<1>1. Inv /\ [Next]_vars =>
        [app.ws.tabs # <<>> /\ ~StillShown => TabShown \in Range(out')]_vars
  <2> SUFFICES ASSUME Inv, Next, app.ws.tabs # <<>>, ~StillShown
               PROVE  TabShown \in Range(out')
    OBVIOUS
  <2>1. Step(app, app', out')
    BY NextStep DEF Inv
  <2> QED
    BY <2>1, StepReported
<1> QED
  BY <1>1, AppInvariant, PTL DEF Spec, ShownChangeReported

(* A report of attention that is accepted leaves no parked tab over its session. *)
LEMMA AttentionKeeps ==
  ASSUME Inv, Inv', NEW s, AttentionAsked(s)
  PROVE  s \notin ParkedSessions'
<1>1. Fits(app) /\ Good(app.ws) /\ "Attention" \in Report
  BY DEF Inv, Fits, Report
<1>2. PICK r : r = StatusChanged(app, s, "Attention")
  OBVIOUS
<1>3. Sane(app, r)
  BY <1>1, <1>2, StatusSane
<1>4. app' = r.app
  BY <1>2, <1>3 DEF AttentionAsked, StatusReport, Apply, Settled, Sane
<1>5. app'.ws = UnparkTabOf(app.ws, s)
  BY <1>1, <1>2, <1>4, StatusStrip DEF AttentionAsked
<1>6. Tabs' = 1 .. Len(app'.ws.tabs)
  BY GoodStrip DEF Inv, Fits, Tabs
<1> QED
  BY <1>1, <1>5, <1>6, AttentionUnparks DEF ParkedSessions

(* No launch behind, no report, no exit and no close elsewhere takes the focus
   from the pane the user types in, whatever the strip, and the tab of a session
   that asks for attention ends unparked: `apply` reaches the focus only through
   the operations that ask for it. *)
THEOREM AppFocus == Spec => FocusNotStolen
<1>1. Inv /\ Inv' /\ [Next]_vars =>
        [/\ \/ app.ws.tabs = <<>>
            \/ app'.ws.tabs # <<>> /\ FocusedIn(app'.ws) = FocusedIn(app.ws)
            \/ /\ \A i \in Tabs : app.ws.tabs[i].parked
               /\ \E i \in Tabs' : ~app'.ws.tabs[i].parked
            \/ ~Unasked
         /\ \A s \in ParkedSessions' : ~AttentionAsked(s)]_vars
  <2>0. ASSUME Inv, Inv', app.ws.tabs # <<>>, Unasked
        PROVE  \/ app'.ws.tabs # <<>> /\ FocusedIn(app'.ws) = FocusedIn(app.ws)
               \/ /\ \A i \in Tabs : app.ws.tabs[i].parked
                  /\ \E i \in Tabs' : ~app'.ws.tabs[i].parked
    <3>1. Tabs = 1 .. Len(app.ws.tabs)
      BY <2>0, GoodStrip DEF Inv, Fits, Tabs
    <3>2. Tabs' = 1 .. Len(app'.ws.tabs)
      BY <2>0, GoodStrip DEF Inv, Fits, Tabs
    <3>3. FocusStays(app.ws, app'.ws)
      BY <2>0, UnaskedKeeps
    <3>4. ASSUME app'.ws.active \in 1 .. Len(app'.ws.tabs) PROVE app'.ws.tabs # <<>>
      <4> SUFFICES ASSUME app'.ws.tabs = <<>> PROVE FALSE
        OBVIOUS
      <4>1. Len(app'.ws.tabs) = 0
        OBVIOUS
      <4> QED
        BY <3>4, <4>1
    <3> QED
      BY <3>1, <3>2, <3>3, <3>4 DEF FocusStays
  <2> QED
    BY <2>0, AttentionKeeps
<1> QED
  BY <1>1, AppInvariant, PTL DEF Spec, FocusNotStolen

(* In every reachable state, for any cap of the reopen stack but 0, closing any
   tab and then reopening starts again in front what ran in its first pane:
   `remember_closed_tab` drops the oldest entry and never the one it pushes. *)
THEOREM AppReopen == Spec => []CloseThenReopen
BY AppInvariant, ReopenFacts, PTL

(* Following a termherd://open link ends in a pane working in the repo, under
   one spelling of it or the other, in a new pane only when none worked there:
   there is always a first such pane to reveal. *)
THEOREM AppLinks == Spec => LinkShowsRepo
<1>1. Inv /\ [Next]_vars =>
        [\A path, resolved \in Cwd : ShowsRepo(path, resolved) \/ ~OpenLink(path, resolved)]_vars
  BY LinkShows
<1> QED
  BY <1>1, AppInvariant, PTL DEF Spec, LinkShowsRepo
=============================================================================
