---------------------------- MODULE BridgeProofs ----------------------------
(***************************************************************************)
(* The live bridge, for any callers, any capacity of its channel and any   *)
(* number of sessions: no waiter is forgotten, an answer to a wait is true *)
(* of the moment it is given, and a prompt is not reported settled before  *)
(* its session began.                                                      *)
(*                                                                         *)
(* The proofs look at the core through four facts only: what a launch, a   *)
(* status, an end and a close do to the registry.  That no waiter is       *)
(* forgotten rests on two more: a call once made stays made, since a       *)
(* caller never comes back to a step, and a session still registered has   *)
(* told its end, or will.                                                  *)
(***************************************************************************)
EXTENDS Bridge, TLAPS

(* A registry whose ids are minted, with statuses that are. *)
LiveOK(live, n) ==
  /\ live = [s \in DOMAIN live |-> live[s]]
  /\ DOMAIN live \subseteq 1 .. n
  /\ \A s \in DOMAIN live :
       /\ live[s] = [status |-> live[s].status, launch |-> live[s].launch, cwd |-> live[s].cwd]
       /\ live[s].status \in Status

AppOf(ws, live, n, closed) == [ws |-> ws, live |-> live, nextId |-> n, closed |-> closed]

AppOK(a) ==
  /\ a = AppOf(a.ws, a.live, a.nextId, a.closed)
  /\ a.nextId \in 0 .. MaxId
  /\ LiveOK(a.live, a.nextId)

(* How far a tool is: it takes each of its steps once, in this order. *)
Rank(step) ==
  CASE step = "Ready" -> 0 [] step = "Sessions" -> 1 [] step = "Type" -> 2
    [] step = "Enter" -> 3 [] step = "Start" -> 4 [] step = "Wait" -> 5
    [] step = "ReadBack" -> 6 [] step \in {"Read", "Shot"} -> 7
    [] step \in {"Done", "Failed"} -> 8

CallerRec == [tool : {"None"} \cup Tools, session : SessionId \cup {0}, step : Step,
              sent : BOOLEAN, reply : Reply]
PortRec == [caller : Caller, step : Step \ {"Ready"}]

(* The caller made this call, and may have gone on since. *)
Behind(p) ==
  \/ Rank(caller[p.caller].step) > Rank(p.step)
  \/ caller[p.caller].step = p.step /\ caller[p.caller].sent

BridgeTypes ==
  /\ AppOK(app) /\ running \subseteq 1 .. app.nextId
  /\ caller \in [Caller -> CallerRec]
  /\ queue \in Seq(PortRec) /\ Len(queue) <= Capacity
  /\ waiters \subseteq {p \in PortRec : p.step \in {"Start", "Wait"}}
  /\ shots \subseteq {p \in PortRec : p.step = "Shot"}
  /\ begun \in [Caller -> {"No", "Typed", "Left"}]

Queued == {queue[n] : n \in DOMAIN queue}

CallsMade == \A p \in waiters \cup shots \cup Queued : Behind(p)

(* A session still registered has told its end, or will. *)
EndsToCome == \A s \in Registered(app) : s \in running \/ app.live[s].status = "Exited"

(* A prompt waits for its start once its Enter is typed; and the answer that it
   started comes once its session left the targets, or tells its end. *)
PromptUnderWay(c) ==
  /\ caller[c].step = "Start" => begun[c] # "No"
  /\ caller[c].step = "Enter" /\ caller[c].reply \notin {NoReply, Rejected} => begun[c] # "No"
  /\ caller[c].step = "Start" /\ caller[c].reply.kind = "Waited"
       => begun[c] = "Left" \/ caller[c].reply.status = "Exited"

BridgeInv ==
  /\ BridgeTypes
  /\ CallsMade
  /\ EndsToCome
  /\ NoWaiterForgotten

PromptInv == \A c \in Caller : PromptUnderWay(c)

-----------------------------------------------------------------------------
(* The core, as far as the bridge looks at it.                              *)

(* An app put together from sound parts is sound. *)
LEMMA AppOKOf ==
  ASSUME NEW ws, NEW live, NEW n \in 0 .. MaxId, NEW closed, LiveOK(live, n)
  PROVE  AppOK(AppOf(ws, live, n, closed))
BY DEF AppOK, AppOf

(* What a handler may leave of the registry: the same sessions or fewer, as they were. *)
Fewer(a, b) ==
  /\ AppOK(b) /\ b.nextId = a.nextId
  /\ Registered(b) \subseteq Registered(a)
  /\ \A s \in Registered(b) : b.live[s] = a.live[s]

Without(a, b, ids) == Fewer(a, b) /\ Registered(b) = Registered(a) \ ids

(* A launch mints an id nobody has, or nothing happens. *)
LEMMA LaunchLive ==
  ASSUME AppAssumption, NEW a, AppOK(a), NEW launch, NEW cwd, NEW placement,
         NEW r, r = Launch(a, launch, cwd, placement)
  PROVE  \/ r.app = a /\ r.effects = <<>>
         \/ /\ AppOK(r.app)
            /\ r.app.nextId = a.nextId + 1 /\ r.app.nextId \in 1 .. MaxId
            /\ r.effects = <<Spawn(a.nextId + 1)>>
            /\ Registered(r.app) = Registered(a) \cup {a.nextId + 1}
            /\ \A s \in Registered(a) : r.app.live[s] = a.live[s]
<1>1. CASE a.nextId = MaxId
  BY <1>1 DEF Launch, Quiet, Answer
<1>2. CASE a.nextId # MaxId
  <2>1. PICK id : id = a.nextId + 1
    OBVIOUS
  <2>2. id \in 1 .. MaxId /\ id \notin DOMAIN a.live /\ DOMAIN a.live \subseteq 1 .. id
    BY <1>2, <2>1 DEF AppOK, LiveOK, AppAssumption
  <2>3. PICK strip : strip = IF placement = "Foreground" THEN OpenTab(a.ws, id)
                             ELSE AppendTab(a.ws, id)
    OBVIOUS
  <2>4. PICK session : session = Starting(launch, cwd)
    OBVIOUS
  <2>5. PICK live : live = [s \in DOMAIN a.live \cup {id} |-> IF s = id THEN session ELSE a.live[s]]
    OBVIOUS
  <2>6. PICK b : b = AppOf(strip, live, id, a.closed)
    OBVIOUS
  <2>7. r = [app |-> b, effects |-> <<Spawn(id)>>]
    <3>1. r = Answer([Register(a, id, session) EXCEPT !.ws = strip], <<Spawn(id)>>)
      BY <1>2, <2>1, <2>3, <2>4 DEF Launch
    <3>2. Register(a, id, session) = [a EXCEPT !.nextId = id, !.live = live]
      BY <2>5 DEF Register
    <3>3. PICK g : g = [a EXCEPT !.nextId = id, !.live = live]
      OBVIOUS
    <3>4. g = AppOf(a.ws, live, id, a.closed)
      BY <3>3 DEF AppOK, AppOf
    <3>5. [g EXCEPT !.ws = strip] = b
      BY <2>6, <3>4 DEF AppOf
    <3>6. r = Answer([g EXCEPT !.ws = strip], <<Spawn(id)>>)
      BY <3>1, <3>2, <3>3
    <3> QED
      BY <3>5, <3>6 DEF Answer
  <2>8. /\ DOMAIN live = DOMAIN a.live \cup {id}
        /\ \A s \in DOMAIN a.live : live[s] = a.live[s]
        /\ live[id] = session
    BY <2>2, <2>5
  <2>9. session = [status |-> session.status, launch |-> session.launch, cwd |-> session.cwd]
        /\ session.status \in Status
    BY <2>4 DEF Starting, Status
  <2>10. LiveOK(live, id)
    <3>1. live = [s \in DOMAIN live |-> live[s]] /\ DOMAIN live \subseteq 1 .. id
      BY <2>2, <2>5, <2>8
    <3> QED
      BY <2>8, <2>9, <3>1 DEF AppOK, LiveOK
  <2>11. AppOK(b)
    BY <2>2, <2>6, <2>10, AppOKOf
  <2> QED
    BY <2>1, <2>2, <2>6, <2>7, <2>8, <2>11 DEF Registered, AppOf
<1> QED
  BY <1>1, <1>2

(* Sessions forgotten. *)
LEMMA ForgetLive ==
  ASSUME NEW a, AppOK(a), NEW w, NEW closed, NEW ids
  PROVE  Without(a, Forget(AppOf(w, a.live, a.nextId, closed), ids), ids)
<1> DEFINE b == Forget(AppOf(w, a.live, a.nextId, closed), ids)
<1>1. PICK live : live = [s \in DOMAIN a.live \ ids |-> a.live[s]]
  OBVIOUS
<1>2. b = AppOf(w, live, a.nextId, closed)
  BY <1>1 DEF Forget, AppOf
<1>3. DOMAIN live = DOMAIN a.live \ ids /\ \A s \in DOMAIN live : live[s] = a.live[s]
  BY <1>1
<1>4. live = [s \in DOMAIN live |-> live[s]]
  BY <1>1
<1>5. LiveOK(live, a.nextId) /\ a.nextId \in 0 .. MaxId
  BY <1>3, <1>4 DEF AppOK, LiveOK
<1>6. AppOK(b)
  BY <1>2, <1>5, AppOKOf
<1> QED
  BY <1>2, <1>3, <1>6 DEF Without, Fewer, Registered, AppOf

(* A tab closed: what it hosts is forgotten. *)
LEMMA CloseTabLive ==
  ASSUME NEW a, AppOK(a), NEW i, NEW b, b = CloseTab(a, i).app
  PROVE  /\ Fewer(a, b)
         /\ i \in DOMAIN a.ws.tabs => Registered(b) = Registered(a) \ HostedBy(a.ws.tabs[i])
<1>1. CASE i \notin DOMAIN a.ws.tabs
  <2>1. b = a
    BY <1>1 DEF CloseTab, Quiet, Answer
  <2> QED
    BY <1>1, <2>1 DEF Fewer
<1>2. CASE i \in DOMAIN a.ws.tabs
  <2>1. PICK d : d = RememberClosedTab(a, i)
    OBVIOUS
  <2>2. PICK closed : d = AppOf(a.ws, a.live, a.nextId, closed)
    <3>1. PICK stack : d = a \/ d = [a EXCEPT !.closed = stack]
      BY <2>1 DEF RememberClosedTab
    <3> QED
      BY <3>1 DEF AppOK, AppOf
  <2>3. PICK w : w = CloseAt(a.ws, i)
    OBVIOUS
  <2>4. PICK c : c = [d EXCEPT !.ws = CloseAt(@, i)]
    OBVIOUS
  <2>5. c = AppOf(w, a.live, a.nextId, closed)
    BY <2>2, <2>3, <2>4 DEF AppOf
  <2>6. PICK ids : ids = HostedBy(a.ws.tabs[i])
    OBVIOUS
  <2>7. b = Forget(c, ids)
    BY <1>2, <2>1, <2>4, <2>6 DEF CloseTab, Answer
  <2>8. b = Forget(AppOf(w, a.live, a.nextId, closed), ids)
    BY <2>5, <2>7
  <2>9. Without(a, b, ids)
    BY <2>8, ForgetLive
  <2> QED
    BY <2>6, <2>9 DEF Without
<1> QED
  BY <1>1, <1>2

(* A pane closed: its session, which it hosts, is forgotten and no other. *)
LEMMA ClosePaneLive ==
  ASSUME NEW a, AppOK(a), NEW s \in HostedIn(a.ws), NEW b, b = ClosePane(a, s).app
  PROVE  Fewer(a, b) /\ Registered(b) = Registered(a) \ {s}
<1>1. PICK i : i = TabOf(a.ws, s)
  OBVIOUS
<1>2. i \in DOMAIN a.ws.tabs
  <2>1. \E n \in DOMAIN a.ws.tabs : s \in HostedBy(a.ws.tabs[n])
    BY DEF HostedIn
  <2> QED
    BY <1>1, <2>1, Zenon DEF TabOf
<1>3. CASE HostedBy(a.ws.tabs[i]) = {s}
  <2>1. b = CloseTab(a, i).app
    BY <1>1, <1>3 DEF ClosePane
  <2> QED
    BY <1>2, <1>3, <2>1, CloseTabLive
<1>4. CASE HostedBy(a.ws.tabs[i]) # {s}
  <2>1. PICK w : w = ClosePaneOf(a.ws, s)
    OBVIOUS
  <2>2. PICK c, ids : c = [a EXCEPT !.ws = w] /\ ids = {s}
    OBVIOUS
  <2>3. b = Forget(c, ids)
    BY <1>1, <1>4, <2>1, <2>2 DEF ClosePane, ReleaseClosedPane, Answer
  <2>4. c = AppOf(w, a.live, a.nextId, a.closed)
    BY <2>2 DEF AppOK, AppOf
  <2>5. b = Forget(AppOf(w, a.live, a.nextId, a.closed), ids)
    BY <2>3, <2>4
  <2>6. Without(a, b, ids)
    BY <2>5, ForgetLive
  <2> QED
    BY <2>2, <2>6 DEF Without
<1> QED
  BY <1>3, <1>4

(* A status set: no other session hears of it. *)
Set(a, b, s) ==
  /\ AppOK(b) /\ b.nextId = a.nextId
  /\ Registered(b) = Registered(a)
  /\ \A t \in Registered(a) \ {s} : b.live[t] = a.live[t]

SetTo(a, s, status, w) == [a EXCEPT !.live[s].status = status, !.ws = w]

(* A status set on a session registered is read back, and nothing else changes. *)
LEMMA StatusSet ==
  ASSUME NEW a, AppOK(a), NEW s \in Registered(a), NEW status \in Status, NEW w, NEW b,
         b = SetTo(a, s, status, w)
  PROVE  Set(a, b, s) /\ b.live[s].status = status
<1>1. PICK was : was = a.live[s]
  OBVIOUS
<1>2. PICK now : now = [status |-> status, launch |-> was.launch, cwd |-> was.cwd]
  OBVIOUS
<1>3. was = [status |-> was.status, launch |-> was.launch, cwd |-> was.cwd]
  BY <1>1 DEF AppOK, LiveOK, Registered
<1>4. [was EXCEPT !.status = status] = now
  BY <1>2, <1>3
<1>5. PICK live : live = [a.live EXCEPT ![s] = now]
  OBVIOUS
<1>6. b = AppOf(w, live, a.nextId, a.closed)
  <2>1. b = [a EXCEPT !.live = [a.live EXCEPT ![s] = [was EXCEPT !.status = status]], !.ws = w]
    BY <1>1 DEF SetTo
  <2>2. b = [a EXCEPT !.live = live, !.ws = w]
    BY <1>4, <1>5, <2>1
  <2> QED
    BY <2>2 DEF AppOK, AppOf
<1>7. /\ DOMAIN live = DOMAIN a.live /\ live[s] = now
      /\ \A t \in DOMAIN a.live \ {s} : live[t] = a.live[t]
      /\ live = [t \in DOMAIN live |-> live[t]]
  <2>1. a.live = [t \in DOMAIN a.live |-> a.live[t]] /\ s \in DOMAIN a.live
    BY DEF AppOK, LiveOK, Registered
  <2> QED
    BY <1>5, <2>1
<1>8. AppOK(b)
  <2>1. LiveOK(live, a.nextId) /\ a.nextId \in 0 .. MaxId
    BY <1>2, <1>7 DEF AppOK, LiveOK
  <2> QED
    BY <1>6, <2>1, AppOKOf
<1> QED
  BY <1>2, <1>6, <1>7, <1>8 DEF Set, Registered, AppOf

(* A status reported changes one session at most. *)
LEMMA StatusChangedLive ==
  ASSUME NEW a, AppOK(a), NEW s, NEW status \in Status, NEW b,
         b = StatusChanged(a, s, status).app
  PROVE  /\ Set(a, b, s)
         /\ s \in Registered(a) /\ a.live[s].status = "Exited" => b.live[s] = a.live[s]
<1>1. CASE s \notin Registered(a) \/ a.live[s].status = "Exited"
  <2>1. b = a
    BY <1>1 DEF StatusChanged, Quiet, Answer
  <2> QED
    BY <2>1 DEF Set
<1>2. CASE s \in Registered(a) /\ a.live[s].status # "Exited"
  <2>1. PICK w : w = IF status = "Attention" THEN UnparkTabOf(a.ws, s) ELSE a.ws
    OBVIOUS
  <2>2. b = SetTo(a, s, status, w)
    BY <1>2, <2>1 DEF StatusChanged, Quiet, Answer, SetTo
  <2> QED
    BY <1>2, <2>2, StatusSet
<1> QED
  BY <1>1, <1>2

(* An end: the session is gone or reads as exited. *)
LEMMA PtyExitedLive ==
  ASSUME NEW a, AppOK(a), NEW s, NEW clean, NEW b, b = PtyExited(a, s, clean).app
  PROVE  /\ AppOK(b) /\ b.nextId = a.nextId
         /\ Registered(b) \subseteq Registered(a) /\ Registered(a) \ {s} \subseteq Registered(b)
         /\ \A t \in Registered(a) \ {s} : b.live[t] = a.live[t]
         /\ StatusOf(b, s) = "Exited"
<1>1. CASE s \notin Registered(a)
  <2>1. b = a
    BY <1>1 DEF PtyExited, Quiet, Answer
  <2> QED
    BY <1>1, <2>1 DEF StatusOf
<1>2. CASE s \in Registered(a) /\ clean /\ s \in HostedIn(a.ws)
  <2>1. b = ClosePane(a, s).app
    BY <1>2 DEF PtyExited
  <2>2. Fewer(a, b) /\ Registered(b) = Registered(a) \ {s}
    BY <1>2, <2>1, ClosePaneLive
  <2> QED
    BY <2>2 DEF Fewer, StatusOf
<1>3. CASE s \in Registered(a) /\ ~(clean /\ s \in HostedIn(a.ws))
  <2>1. b = [a EXCEPT !.live[s].status = "Exited"]
    BY <1>3 DEF PtyExited, Quiet, Answer
  <2>2. b = SetTo(a, s, "Exited", a.ws)
    BY <2>1 DEF AppOK, AppOf, SetTo
  <2>3. Set(a, b, s) /\ b.live[s].status = "Exited"
    BY <1>3, <2>2, StatusSet DEF Status
  <2> QED
    BY <2>3 DEF Set, StatusOf
<1> QED
  BY <1>1, <1>2, <1>3

-----------------------------------------------------------------------------
(* Calls.                                                                   *)

(* How a caller's record may change: it is answered, or it goes on. *)
Goes(r, n) ==
  \/ /\ n.step = r.step /\ n.session = r.session
     /\ r.sent => n.sent
     /\ n.reply = NoReply => r.reply = NoReply
  \/ Rank(n.step) > Rank(r.step) /\ (n.session = r.session \/ r.step = "Ready")

(* Every step has its rank. *)
LEMMA RankTyped ==
  ASSUME NEW step \in Step
  PROVE  Rank(step) \in 0 .. 8 /\ (step # "Ready" => Rank(step) > 0)
<1>1. /\ Rank("Ready") = 0 /\ Rank("Sessions") = 1 /\ Rank("Type") = 2 /\ Rank("Enter") = 3
      /\ Rank("Start") = 4 /\ Rank("Wait") = 5 /\ Rank("ReadBack") = 6 /\ Rank("Read") = 7
      /\ Rank("Shot") = 7 /\ Rank("Done") = 8 /\ Rank("Failed") = 8
  BY DEF Rank
<1> QED
  BY <1>1 DEF Step

(* A call once made stays made, and one given up stays given up: its caller never
   comes back to the step. *)
LEMMA CallStays ==
  ASSUME caller \in [Caller -> CallerRec], caller' \in [Caller -> CallerRec],
         NEW p \in PortRec, Behind(p), Goes(caller[p.caller], caller'[p.caller])
  PROVE  /\ Behind(p)'
         /\ ~Abandoned(p)' => ~Abandoned(p) /\ SessionOf(p)' = SessionOf(p)
<1>1. PICK r \in CallerRec, n \in CallerRec : r = caller[p.caller] /\ n = caller'[p.caller]
  BY DEF PortRec
<1>2. /\ r.step \in Step /\ n.step \in Step /\ p.step \in Step /\ p.step # "Ready"
      /\ r.sent \in BOOLEAN /\ n.sent \in BOOLEAN
  BY <1>1 DEF CallerRec, PortRec
<1>3. /\ Rank(r.step) \in 0 .. 8 /\ Rank(n.step) \in 0 .. 8 /\ Rank(p.step) \in 1 .. 8
      /\ (r.step = "Ready" => Rank(r.step) = 0)
  <2>1. Rank("Ready") = 0
    BY DEF Rank
  <2> QED
    BY <1>2, <2>1, RankTyped
<1>4. Rank(r.step) > Rank(p.step) \/ (r.step = p.step /\ r.sent)
  BY <1>1 DEF Behind
<1>5. CASE /\ n.step = r.step /\ n.session = r.session
           /\ r.sent => n.sent
           /\ n.reply = NoReply => r.reply = NoReply
  BY <1>1, <1>3, <1>4, <1>5 DEF Behind, Abandoned, SessionOf
<1>6. CASE Rank(n.step) > Rank(r.step) /\ (n.session = r.session \/ r.step = "Ready")
  <2>1. Rank(n.step) > Rank(p.step)
    BY <1>3, <1>4, <1>6
  <2>2. n.step # p.step
    BY <1>3, <2>1
  <2> QED
    BY <1>1, <2>1, <2>2 DEF Behind, Abandoned
<1> QED
  BY <1>1, <1>5, <1>6 DEF Goes

(* The steps of a tool go on. *)
LEMMA StepsGoOn ==
  ASSUME NEW r \in CallerRec, r.step \notin Over
  PROVE  /\ StepAfterReply(r) \in Step /\ Rank(StepAfterReply(r)) > Rank(r.step)
         /\ StepAfterTimeout(r) \in Step /\ Rank(StepAfterTimeout(r)) > Rank(r.step)
         /\ StepAfterReply(r) = "Start" => r.step = "Enter" /\ r.reply # Rejected
         /\ StepAfterTimeout(r) # "Start"
<1>1. r.step \in {"Sessions", "Type", "Enter", "Start", "Wait", "ReadBack", "Read", "Shot"}
  BY DEF CallerRec, Step, Over
<1>2. AfterWait(r.tool) \in {"Read", "Done"}
  BY DEF AfterWait
<1>3. PICK step, later : step = StepAfterReply(r) /\ later = StepAfterTimeout(r)
  OBVIOUS
<1>4. \/ step = "Failed"
      \/ r.step = "Sessions" /\ step = "Type"
      \/ r.step = "Type" /\ step = "Enter"
      \/ r.step = "Enter" /\ r.reply # Rejected /\ step = "Start"
      \/ r.step = "Start" /\ step = "Wait"
      \/ r.step \in {"ReadBack", "Wait"} /\ step \in {"Read", "Done"}
      \/ step = "Done"
  BY <1>1, <1>2, <1>3 DEF StepAfterReply
<1>5. \/ r.step = "Start" /\ later = "Wait"
      \/ r.step = "Wait" /\ later = "ReadBack"
      \/ r.step = "ReadBack" /\ later \in {"Read", "Done"}
      \/ later = "Failed"
  BY <1>1, <1>2, <1>3 DEF StepAfterTimeout
<1> QED
  BY <1>1, <1>3, <1>4, <1>5 DEF Step, Rank

(* A caller's record, its fields changed. *)
Moved(r, step) == [r EXCEPT !.step = step, !.sent = FALSE, !.reply = NoReply]
AsSent(r) == [r EXCEPT !.sent = TRUE]
Replied(r, reply) == [r EXCEPT !.reply = reply]

(* A record that went on keeps its session, and its new call is not answered. *)
LEMMA MovedIs ==
  ASSUME NEW r \in CallerRec, NEW step \in Step
  PROVE  /\ Moved(r, step) \in CallerRec
         /\ Moved(r, step).step = step /\ Moved(r, step).session = r.session
         /\ Moved(r, step).reply = NoReply
<1>1. NoReply \in Reply
  BY DEF Reply
<1> QED
  BY <1>1 DEF CallerRec, Moved

(* A record whose call is sent is otherwise as it was. *)
LEMMA SentIs ==
  ASSUME NEW r \in CallerRec
  PROVE  /\ AsSent(r) \in CallerRec
         /\ AsSent(r).step = r.step /\ AsSent(r).session = r.session
         /\ AsSent(r).sent /\ AsSent(r).reply = r.reply
BY DEF CallerRec, AsSent

(* A record whose call is answered is otherwise as it was. *)
LEMMA RepliedIs ==
  ASSUME NEW r \in CallerRec, NEW reply \in Reply
  PROVE  /\ Replied(r, reply) \in CallerRec
         /\ Replied(r, reply).step = r.step /\ Replied(r, reply).session = r.session
         /\ Replied(r, reply).sent = r.sent /\ Replied(r, reply).reply = reply
BY DEF CallerRec, Replied

(* The caller goes on to a later step. *)
LEMMA GoToGoes ==
  ASSUME caller \in [Caller -> CallerRec], NEW c \in Caller, NEW step \in Step,
         Rank(step) > Rank(caller[c].step), GoTo(c, step)
  PROVE  /\ caller' \in [Caller -> CallerRec]
         /\ \A d \in Caller : Goes(caller[d], caller'[d])
         /\ caller'[c].step = step /\ caller'[c].reply = NoReply
         /\ \A d \in Caller \ {c} : caller'[d] = caller[d]
<1>1. PICK r \in CallerRec : r = caller[c]
  OBVIOUS
<1>2. PICK n : n = Moved(r, step)
  OBVIOUS
<1>3. /\ n \in CallerRec /\ n.step = step /\ n.session = r.session
      /\ n.reply = NoReply
  BY <1>2, MovedIs
<1>4. caller' = [caller EXCEPT ![c] = n]
  BY <1>1, <1>2 DEF GoTo, Moved
<1>5. caller'[c] = n /\ \A d \in Caller \ {c} : caller'[d] = caller[d]
  BY <1>4
<1>6. Goes(r, n)
  BY <1>1, <1>3 DEF Goes
<1>7. \A d \in Caller : Goes(caller[d], caller'[d])
  BY <1>1, <1>5, <1>6 DEF Goes
<1> QED
  BY <1>3, <1>4, <1>5, <1>7

(* What an answer does to a caller: nothing, or it is the reply to the call made. *)
LEMMA AnsweredIs ==
  ASSUME caller \in [Caller -> CallerRec], NEW answers, NEW c \in Caller
  PROVE  \/ Answered(answers)[c] = caller[c]
         \/ \E a \in answers :
              /\ a.port = Port(c) /\ caller[c].reply = NoReply
              /\ Answered(answers)[c] = Replied(caller[c], a.reply)
<1>1. CASE \E a \in answers : a.port = Port(c) /\ ~Abandoned(a.port)
  <2>1. PICK a : a = CHOOSE x \in answers : x.port = Port(c)
    OBVIOUS
  <2>2. a \in answers /\ a.port = Port(c)
    BY <1>1, <2>1
  <2>3. Answered(answers)[c] = Replied(caller[c], a.reply)
    BY <1>1, <2>1 DEF Answered, Replied
  <2>4. caller[c].reply = NoReply
    BY <1>1 DEF Abandoned, Port
  <2> QED
    BY <2>2, <2>3, <2>4
<1>2. CASE ~\E a \in answers : a.port = Port(c) /\ ~Abandoned(a.port)
  BY <1>2 DEF Answered
<1> QED
  BY <1>1, <1>2

(* Answers leave every caller at its step. *)
LEMMA AnsweredGoes ==
  ASSUME caller \in [Caller -> CallerRec], NEW answers, \A a \in answers : a.reply \in Reply,
         caller' = Answered(answers)
  PROVE  /\ caller' \in [Caller -> CallerRec]
         /\ \A d \in Caller : Goes(caller[d], caller'[d])
<1>1. ASSUME NEW d \in Caller
      PROVE  caller'[d] \in CallerRec /\ Goes(caller[d], caller'[d])
  <2>1. PICK r \in CallerRec : r = caller[d]
    OBVIOUS
  <2>2. CASE caller'[d] = r
    BY <2>1, <2>2 DEF Goes
  <2>3. ASSUME NEW a \in answers, r.reply = NoReply, caller'[d] = Replied(r, a.reply)
        PROVE  caller'[d] \in CallerRec /\ Goes(r, caller'[d])
    <3>1. PICK n : n = Replied(r, a.reply)
      OBVIOUS
    <3>2. n \in CallerRec /\ n.step = r.step /\ n.session = r.session /\ n.sent = r.sent
      BY <3>1, RepliedIs
    <3> QED
      BY <2>3, <3>1, <3>2 DEF Goes
  <2>4. \/ caller'[d] = r
        \/ \E a \in answers : r.reply = NoReply /\ caller'[d] = Replied(r, a.reply)
    <3>1. CASE Answered(answers)[d] = caller[d]
      BY <2>1, <3>1
    <3>2. ASSUME NEW a \in answers, caller[d].reply = NoReply,
                 Answered(answers)[d] = Replied(caller[d], a.reply)
          PROVE  r.reply = NoReply /\ caller'[d] = Replied(r, a.reply)
      BY <2>1, <3>2
    <3> QED
      BY <3>1, <3>2, AnsweredIs
  <2> QED
    BY <2>1, <2>2, <2>3, <2>4
<1>2. caller' = [c \in Caller |-> caller'[c]]
  BY DEF Answered
<1> QED
  BY <1>1, <1>2

(* An answer to a wait tells the status of its session, and one that settles it. *)
TrueAnswer(a, x) ==
  /\ x.reply \in Reply
  /\ x.reply.kind = "Waited" =>
       /\ x.reply.status = StatusOf(a, SessionOf(x.port))
       /\ Settles(x.port.step, x.reply.status)

(* A session reads as one of the statuses, gone or not. *)
LEMMA StatusTyped ==
  ASSUME NEW a, AppOK(a), NEW s
  PROVE  StatusOf(a, s) \in Status
BY DEF AppOK, LiveOK, StatusOf, Registered, Status

(* What the answer to a wait carries. *)
LEMMA WaitedIs ==
  ASSUME NEW status \in Status
  PROVE  /\ Waited(status) \in Reply /\ Waited(status).kind = "Waited"
         /\ Waited(status).status = status
BY DEF Waited, Reply

(* Waiters told of a session that settles them are told the truth. *)
LEMMA ToldTrue ==
  ASSUME NEW a, AppOK(a), NEW ports, \A p \in ports : Settles(p.step, StatusOf(a, SessionOf(p))),
         NEW x \in Told(a, ports)
  PROVE  TrueAnswer(a, x) /\ x.port \in ports
<1>1. PICK p \in ports : x = [port |-> p, reply |-> Waited(StatusOf(a, SessionOf(p)))]
  BY DEF Told
<1>2. x.port = p /\ x.reply = Waited(StatusOf(a, SessionOf(p)))
  BY <1>1
<1> QED
  BY <1>2, StatusTyped, WaitedIs DEF TrueAnswer

(* A true answer is what its caller reads. *)
LEMMA AnsweredTrue ==
  ASSUME caller \in [Caller -> CallerRec], NEW a, NEW answers,
         \A x \in answers : TrueAnswer(a, x), caller' = Answered(answers),
         NEW c \in Caller, caller[c].reply = NoReply, caller'[c].reply.kind = "Waited"
  PROVE  /\ caller'[c].reply.status = StatusOf(a, caller[c].session)
         /\ Settles(caller[c].step, caller'[c].reply.status)
<1>1. PICK r \in CallerRec : r = caller[c]
  OBVIOUS
<1>2. caller'[c] # r
  BY <1>1 DEF NoReply
<1>3. PICK x \in answers : x.port = Port(c) /\ caller'[c] = Replied(r, x.reply)
  BY <1>1, <1>2, AnsweredIs
<1>4. TrueAnswer(a, x)
  BY <1>3
<1>5. caller'[c].reply = x.reply
  BY <1>3, <1>4, RepliedIs DEF TrueAnswer
<1>6. SessionOf(x.port) = r.session /\ x.port.step = r.step
  BY <1>1, <1>3 DEF Port, SessionOf
<1> QED
  BY <1>1, <1>4, <1>5, <1>6 DEF TrueAnswer

(* History keeps what it knows; it learns that a session left the targets. *)
LEMMA BegunStays ==
  ASSUME begun \in [Caller -> {"No", "Typed", "Left"}], NEW a, NEW typed,
         begun' = Begun(a, typed), NEW c \in Caller
  PROVE  /\ begun'[c] \in {"No", "Typed", "Left"}
         /\ begun[c] # "No" => begun'[c] # "No"
         /\ begun[c] = "Left" => begun'[c] = "Left"
         /\ c \in typed => begun'[c] # "No"
         /\ begun[c] # "No" /\ StatusOf(a, caller[c].session) \notin Targets => begun'[c] = "Left"
<1>1. begun[c] \in {"No", "Typed", "Left"}
  OBVIOUS
<1>2. begun'[c] = IF begun[c] # "Left" /\ (c \in typed \/ begun[c] = "Typed")
                  THEN IF StatusOf(a, caller[c].session) \in Targets THEN "Typed" ELSE "Left"
                  ELSE begun[c]
  BY DEF Begun
<1> QED
  BY <1>1, <1>2

(* Answers keep a prompt under way. *)
LEMMA AnsweredPrompt ==
  ASSUME caller \in [Caller -> CallerRec], begun \in [Caller -> {"No", "Typed", "Left"}],
         NEW a, AppOK(a), NEW answers, \A x \in answers : TrueAnswer(a, x),
         caller' = Answered(answers),
         NEW typed, begun' = Begun(a, typed),
         \A x \in answers : x.port.step = "Enter" /\ x.reply # Rejected
                            => x.port.caller \in typed,
         NEW c \in Caller, PromptUnderWay(c)
  PROVE  PromptUnderWay(c)'
<1>1. PICK r \in CallerRec : r = caller[c]
  OBVIOUS
<1>2. CASE caller'[c] = r
  BY <1>1, <1>2, BegunStays DEF PromptUnderWay
<1>3. ASSUME NEW x \in answers, x.port = Port(c), r.reply = NoReply,
             caller'[c] = Replied(r, x.reply)
      PROVE  PromptUnderWay(c)'
  <2>1. TrueAnswer(a, x)
    BY <1>3
  <2>2. caller'[c].reply = x.reply /\ caller'[c].step = r.step
    BY <1>3, <2>1, RepliedIs DEF TrueAnswer
  <2>3. SessionOf(x.port) = r.session /\ x.port.step = r.step /\ x.port.caller = c
    BY <1>1, <1>3 DEF Port, SessionOf
  <2>4. r.step = "Start" => begun'[c] # "No"
    BY <1>1, BegunStays DEF PromptUnderWay
  <2>5. r.step = "Enter" /\ x.reply # Rejected => begun'[c] # "No"
    BY <1>3, <2>3, BegunStays
  <2>6. ASSUME r.step = "Start", x.reply.kind = "Waited"
        PROVE  begun'[c] = "Left" \/ x.reply.status = "Exited"
    <3>1. PICK status : status = StatusOf(a, r.session)
      OBVIOUS
    <3>2. Settles("Start", status) /\ x.reply.status = status
      BY <2>1, <2>3, <2>6, <3>1 DEF TrueAnswer
    <3>3. status \notin Targets \/ status = "Exited"
      BY <3>2 DEF Settles, Targeted
    <3>4. begun[c] # "No"
      BY <1>1, <2>6 DEF PromptUnderWay
    <3> QED
      BY <1>1, <3>1, <3>2, <3>3, <3>4, BegunStays
  <2> QED
    BY <2>2, <2>4, <2>5, <2>6 DEF PromptUnderWay
<1> QED
  BY <1>1, <1>2, <1>3, AnsweredIs

-----------------------------------------------------------------------------
(* The invariant, step by step.                                             *)

(* Whatever the callers do, the calls made stay made. *)
LEMMA CallsStay ==
  ASSUME BridgeTypes, caller' \in [Caller -> CallerRec],
         \A d \in Caller : Goes(caller[d], caller'[d]), NEW p \in PortRec, Behind(p)
  PROVE  /\ Behind(p)'
         /\ ~Abandoned(p)' => ~Abandoned(p) /\ SessionOf(p)' = SessionOf(p)
BY CallStays DEF BridgeTypes, PortRec

(* A step of the callers: the shell is as it was. *)
LEMMA CallersStep ==
  ASSUME BridgeInv, UNCHANGED shellVars, caller' \in [Caller -> CallerRec],
         \A d \in Caller : Goes(caller[d], caller'[d]),
         queue' \in Seq(PortRec), Len(queue') <= Capacity,
         \A p \in Queued' \ Queued : Behind(p)'
  PROVE  BridgeInv'
<1>1. UNCHANGED <<app, running, waiters, shots, begun>>
  BY DEF shellVars
<1>2. BridgeTypes'
  BY <1>1 DEF BridgeInv, BridgeTypes
<1>3. CallsMade'
  <2>1. ASSUME NEW p \in waiters' \cup shots' \cup Queued'
        PROVE  Behind(p)'
    <3>1. CASE p \in Queued' \ Queued
      BY <3>1
    <3>2. CASE p \in waiters \cup shots \cup Queued
      <4>1. p \in PortRec /\ Behind(p)
        BY <3>2 DEF BridgeInv, BridgeTypes, CallsMade, Queued
      <4> QED
        BY <4>1, CallsStay DEF BridgeInv
    <3> QED
      BY <1>1, <2>1, <3>1, <3>2
  <2> QED
    BY <2>1 DEF CallsMade
<1>4. EndsToCome'
  BY <1>1 DEF BridgeInv, EndsToCome
<1>5. NoWaiterForgotten'
  <2> SUFFICES ASSUME NEW p \in waiters, ~Abandoned(p)'
               PROVE  IF SessionOf(p)' \in Registered(app)
                      THEN ~Settles(p.step, app.live[SessionOf(p)'].status)
                      ELSE SessionOf(p)' \in running
    BY <1>1 DEF NoWaiterForgotten
  <2>1. ~Abandoned(p) /\ SessionOf(p)' = SessionOf(p)
    BY CallsStay DEF BridgeInv, BridgeTypes, CallsMade
  <2> QED
    BY <2>1 DEF BridgeInv, NoWaiterForgotten
<1> QED
  BY <1>2, <1>3, <1>4, <1>5 DEF BridgeInv

(* What a caller's own step does. *)
LEMMA CallersSteps ==
  ASSUME BridgeInv, NEW c \in Caller
  PROVE  /\ \A tool \in Tools, s \in SessionId : Begin(c, tool, s) =>
              /\ BridgeInv' /\ UNCHANGED <<app, begun>>
              /\ caller'[c].reply = NoReply /\ caller'[c].step \notin {"Start", "Enter"}
              /\ \A d \in Caller \ {c} : caller'[d] = caller[d]
         /\ Enqueue(c) =>
              /\ BridgeInv' /\ UNCHANGED <<app, begun>>
              /\ caller'[c].reply = caller[c].reply /\ caller'[c].step = caller[c].step
              /\ \A d \in Caller \ {c} : caller'[d] = caller[d]
         /\ Return(c) \/ Expire(c) =>
              /\ BridgeInv' /\ UNCHANGED <<app, begun>>
              /\ caller'[c].reply = NoReply
              /\ caller'[c].step = "Start"
                   => caller[c].step = "Enter" /\ caller[c].reply \notin {NoReply, Rejected}
              /\ \A d \in Caller \ {c} : caller'[d] = caller[d]
<1>1. PICK r \in CallerRec : r = caller[c]
  BY DEF BridgeInv, BridgeTypes
<1>2. /\ caller \in [Caller -> CallerRec] /\ queue \in Seq(PortRec) /\ Len(queue) <= Capacity
  BY DEF BridgeInv, BridgeTypes
<1>3. ASSUME NEW tool \in Tools, NEW s \in SessionId, Begin(c, tool, s)
      PROVE  /\ BridgeInv' /\ UNCHANGED <<app, begun>>
             /\ caller'[c].reply = NoReply /\ caller'[c].step \notin {"Start", "Enter"}
             /\ \A d \in Caller \ {c} : caller'[d] = caller[d]
  <2>1. PICK n : n = [Idle EXCEPT !.tool = tool, !.session = s, !.step = FirstStep(tool)]
    OBVIOUS
  <2>2. FirstStep(tool) \in {"Wait", "Sessions", "Shot"}
    BY BridgeAssumption DEF FirstStep
  <2>3. /\ n \in CallerRec /\ n.step = FirstStep(tool) /\ n.reply = NoReply
    <3>1. Idle \in CallerRec /\ Idle.reply = NoReply
      BY DEF Idle, CallerRec, Step, Reply
    <3>2. FirstStep(tool) \in Step
      BY <2>2 DEF Step
    <3> QED
      BY <2>1, <3>1, <3>2 DEF CallerRec
  <2>4. caller' = [caller EXCEPT ![c] = n] /\ UNCHANGED <<shellVars, queue>> /\ r.step = "Ready"
    BY <1>1, <1>3, <2>1 DEF Begin, Idle
  <2>5. caller'[c] = n /\ \A d \in Caller \ {c} : caller'[d] = caller[d]
    BY <1>2, <2>4
  <2>6. Rank(n.step) > Rank(r.step)
    BY <2>2, <2>3, <2>4 DEF Rank
  <2>7. \A d \in Caller : Goes(caller[d], caller'[d])
    BY <1>1, <2>4, <2>5, <2>6 DEF Goes
  <2>8. caller' \in [Caller -> CallerRec]
    BY <1>2, <2>3, <2>4
  <2>9. BridgeInv'
    BY <1>2, <2>4, <2>7, <2>8, CallersStep DEF Queued
  <2> QED
    BY <2>2, <2>3, <2>4, <2>5, <2>9 DEF shellVars
<1>4. ASSUME Enqueue(c)
      PROVE  /\ BridgeInv' /\ UNCHANGED <<app, begun>>
             /\ caller'[c].reply = caller[c].reply /\ caller'[c].step = caller[c].step
             /\ \A d \in Caller \ {c} : caller'[d] = caller[d]
  <2>1. PICK n : n = AsSent(r)
    OBVIOUS
  <2>2. /\ n \in CallerRec /\ n.step = r.step /\ n.session = r.session
        /\ n.sent /\ n.reply = r.reply
    BY <2>1, SentIs
  <2>3. caller' = [caller EXCEPT ![c] = n]
    BY <1>1, <1>4, <2>1 DEF Enqueue, AsSent
  <2>4. caller'[c] = n /\ \A d \in Caller \ {c} : caller'[d] = caller[d]
    BY <1>2, <2>3
  <2>5. \A d \in Caller : Goes(caller[d], caller'[d])
    BY <1>1, <2>2, <2>4 DEF Goes
  <2>6. caller' \in [Caller -> CallerRec]
    BY <1>2, <2>2, <2>3
  <2>7. PICK p : p = Port(c)
    OBVIOUS
  <2>8. p \in PortRec /\ p.caller = c /\ p.step = r.step
    BY <1>1, <1>4, <2>7 DEF Enqueue, Calling, Over, Port, PortRec, CallerRec
  <2>9. Behind(p)'
    BY <2>2, <2>4, <2>8 DEF Behind
  <2>10. queue' = Append(queue, p) /\ Len(queue) < Capacity /\ UNCHANGED shellVars
    BY <1>4, <2>7 DEF Enqueue
  <2>11. /\ queue' \in Seq(PortRec) /\ Len(queue') <= Capacity
         /\ \A m \in DOMAIN queue' : (m \in DOMAIN queue /\ queue'[m] = queue[m]) \/ queue'[m] = p
    BY <1>2, <2>8, <2>10, BridgeAssumption
  <2>12. \A q \in Queued' \ Queued : q = p
    BY <2>11 DEF Queued
  <2>13. BridgeInv'
    BY <2>5, <2>6, <2>9, <2>10, <2>11, <2>12, CallersStep
  <2> QED
    BY <1>1, <2>2, <2>4, <2>10, <2>13 DEF shellVars
<1>5. ASSUME Return(c) \/ Expire(c)
      PROVE  /\ BridgeInv' /\ UNCHANGED <<app, begun>>
             /\ caller'[c].reply = NoReply
             /\ caller'[c].step = "Start"
                  => caller[c].step = "Enter" /\ caller[c].reply \notin {NoReply, Rejected}
             /\ \A d \in Caller \ {c} : caller'[d] = caller[d]
  <2>1. PICK step : /\ GoTo(c, step) /\ UNCHANGED <<shellVars, queue>>
                    /\ \/ step = StepAfterReply(r) /\ r.reply # NoReply
                       \/ step = StepAfterTimeout(r)
    BY <1>1, <1>5 DEF Return, Expire
  <2>2. r.step \notin Over
    BY <1>1, <1>5 DEF Return, Expire, Calling
  <2>3. /\ step \in Step /\ Rank(step) > Rank(r.step)
        /\ step = "Start" => r.step = "Enter" /\ r.reply \notin {NoReply, Rejected}
    BY <2>1, <2>2, StepsGoOn
  <2>4. /\ caller' \in [Caller -> CallerRec]
        /\ \A d \in Caller : Goes(caller[d], caller'[d])
        /\ caller'[c].step = step /\ caller'[c].reply = NoReply
        /\ \A d \in Caller \ {c} : caller'[d] = caller[d]
    BY <1>1, <1>2, <2>1, <2>3, GoToGoes
  <2>5. BridgeInv'
    BY <1>2, <2>1, <2>4, CallersStep DEF Queued
  <2> QED
    BY <1>1, <2>1, <2>3, <2>4, <2>5 DEF shellVars
<1> QED
  BY <1>3, <1>4, <1>5

-----------------------------------------------------------------------------
(* The shell's steps.                                                       *)

(* A step that makes no call leaves those under way made. *)
LEMMA StillMade ==
  ASSUME BridgeInv, caller' \in [Caller -> CallerRec],
         \A d \in Caller : Goes(caller[d], caller'[d]),
         waiters' \cup shots' \cup Queued' \subseteq waiters \cup shots \cup Queued
  PROVE  CallsMade'
<1> SUFFICES ASSUME NEW p \in waiters' \cup shots' \cup Queued'
             PROVE  Behind(p)'
  BY DEF CallsMade
<1>1. p \in PortRec /\ Behind(p)
  BY DEF BridgeInv, BridgeTypes, CallsMade, Queued
<1> QED
  BY <1>1, CallsStay DEF BridgeInv

(* A caller that does not move goes on. *)
LEMMA Stays ==
  ASSUME NEW r
  PROVE  Goes(r, r)
BY DEF Goes

(* Where a waiter stands, the core and the terminals being so. *)
Stands(a, run, s, step) ==
  IF s \in Registered(a) THEN ~Settles(step, a.live[s].status) ELSE s \in run

(* Those that wait on stand as they stood, unless the step says otherwise. *)
LEMMA WaitsOn ==
  ASSUME BridgeInv, caller' \in [Caller -> CallerRec],
         \A d \in Caller : Goes(caller[d], caller'[d]),
         waiters' \subseteq waiters \cup Queued,
         \A p \in waiters' :
           Behind(p) /\ ~Abandoned(p) /\ (p \in waiters => Stands(app, running, SessionOf(p), p.step))
             => Stands(app', running', SessionOf(p), p.step)
  PROVE  NoWaiterForgotten'
<1> SUFFICES ASSUME NEW p \in waiters', ~Abandoned(p)'
             PROVE  Stands(app', running', SessionOf(p)', p.step)
  BY DEF NoWaiterForgotten, Stands
<1>1. p \in PortRec /\ Behind(p)
  BY DEF BridgeInv, BridgeTypes, CallsMade, Queued
<1>2. ~Abandoned(p) /\ SessionOf(p)' = SessionOf(p)
  BY <1>1, CallsStay DEF BridgeInv
<1>3. p \in waiters => Stands(app, running, SessionOf(p), p.step)
  BY <1>2 DEF BridgeInv, NoWaiterForgotten, Stands
<1> QED
  BY <1>1, <1>2, <1>3

(* A request served: the calls answered at once are answered truly. *)
LEMMA ServeAnswers ==
  ASSUME BridgeInv, NEW port \in PortRec, NEW x,
         \/ x \in Told(app, Vanished)
         \/ ~Parks(port) /\ port.step # "Shot" /\ x = [port |-> port, reply |-> ReplyTo(port)]
  PROVE  /\ TrueAnswer(app, x)
         /\ x.port.step = "Enter" /\ x.reply # Rejected
              => x.port = port /\ SessionOf(port) \in Registered(app)
<1>1. AppOK(app)
  BY DEF BridgeInv, BridgeTypes
<1>2. CASE x \in Told(app, Vanished)
  <2>1. \A p \in Vanished : Settles(p.step, StatusOf(app, SessionOf(p)))
    BY DEF Vanished, StatusOf, Settles
  <2>2. TrueAnswer(app, x) /\ x.port \in Vanished
    BY <1>1, <1>2, <2>1, ToldTrue
  <2>3. x.port.step \in {"Start", "Wait"}
    BY <2>2 DEF Vanished, BridgeInv, BridgeTypes
  <2> QED
    BY <2>2, <2>3
<1>3. CASE ~Parks(port) /\ port.step # "Shot" /\ x = [port |-> port, reply |-> ReplyTo(port)]
  <2>1. x.port = port /\ x.reply = ReplyTo(port)
    BY <1>3
  <2>2. PICK s : s = SessionOf(port)
    OBVIOUS
  <2>3. CASE port.step \in {"Start", "Wait"} /\ s \in Registered(app)
    <3>1. PICK status : status = app.live[s].status
      OBVIOUS
    <3>2. ReplyTo(port) = Waited(status)
      BY <2>2, <2>3, <3>1 DEF ReplyTo
    <3>3. status = StatusOf(app, s) /\ status \in Status
      BY <1>1, <2>3, <3>1, StatusTyped DEF StatusOf
    <3>4. Settles(port.step, status)
      BY <1>3, <2>2, <2>3, <3>1 DEF Parks
    <3> QED
      BY <2>1, <2>2, <2>3, <3>2, <3>3, <3>4, WaitedIs DEF TrueAnswer
  <2>4. CASE ~(port.step \in {"Start", "Wait"} /\ s \in Registered(app))
    <3>1. ReplyTo(port) \in {Rejected, Applied}
      BY <2>2, <2>4 DEF ReplyTo
    <3>2. ReplyTo(port).kind # "Waited" /\ ReplyTo(port) \in Reply
      BY <3>1 DEF Rejected, Applied, Reply
    <3>3. port.step = "Enter" /\ s \notin Registered(app) => ReplyTo(port) = Rejected
      BY <2>2 DEF ReplyTo
    <3> QED
      BY <2>1, <2>2, <3>2, <3>3 DEF TrueAnswer
  <2> QED
    BY <2>3, <2>4
<1> QED
  BY <1>2, <1>3

(* What serving a request does, given the answers. *)
Served(port, answers) ==
  /\ port \in Queued /\ queue' = Tail(queue) /\ queue # <<>>
  /\ \A x \in answers :
       /\ TrueAnswer(app, x)
       /\ x.port.step = "Enter" /\ x.reply # Rejected
            => x.port = port /\ SessionOf(port) \in Registered(app)
  /\ caller' = Answered(answers)
  /\ waiters' = Swept \cup {p \in {port} : Parks(p)}
  /\ shots' = shots \cup {p \in {port} : p.step = "Shot"}
  /\ begun' = Begun(app, {c \in {port.caller} :
                            port.step = "Enter" /\ SessionOf(port) \in Registered(app)})
  /\ UNCHANGED <<app, running>>

(* What a request served does. *)
LEMMA ServeIs ==
  ASSUME BridgeInv, Serve
  PROVE  \E port \in PortRec : \E answers : Served(port, answers)
<1>1. PICK port : port = Head(queue)
  OBVIOUS
<1>2. port \in PortRec /\ port \in Queued /\ queue # <<>>
  BY <1>1 DEF Serve, BridgeInv, BridgeTypes, Queued
<1>3. PICK now : now = IF Parks(port) \/ port.step = "Shot" THEN {}
                       ELSE {[port |-> port, reply |-> ReplyTo(port)]}
  OBVIOUS
<1>4. PICK answers : answers = Told(app, Vanished) \cup now
  OBVIOUS
<1>5. ASSUME NEW x \in answers
      PROVE  /\ TrueAnswer(app, x)
             /\ x.port.step = "Enter" /\ x.reply # Rejected
                  => x.port = port /\ SessionOf(port) \in Registered(app)
  <2>1. \/ x \in Told(app, Vanished)
        \/ ~Parks(port) /\ port.step # "Shot" /\ x = [port |-> port, reply |-> ReplyTo(port)]
    BY <1>3, <1>4
  <2> QED
    BY <1>2, <2>1, ServeAnswers
<1>6. /\ caller' = Answered(answers)
      /\ waiters' = Swept \cup {p \in {port} : Parks(p)}
      /\ shots' = shots \cup {p \in {port} : p.step = "Shot"}
      /\ begun' = Begun(app, {c \in {port.caller} :
                                port.step = "Enter" /\ SessionOf(port) \in Registered(app)})
      /\ queue' = Tail(queue) /\ UNCHANGED <<app, running>>
  BY <1>1, <1>3, <1>4, Zenon DEF Serve
<1>7. Served(port, answers)
  BY <1>2, <1>5, <1>6 DEF Served
<1> QED
  BY <1>2, <1>7

(* A step of the shell in which AnswersTrue and the start of each prompt are as they must. *)
Truthful ==
  \A c \in Caller :
    caller[c].reply = NoReply /\ caller'[c].reply.kind = "Waited" =>
      /\ caller'[c].reply.status = StatusOf(app', caller[c].session)
      /\ Settles(caller[c].step, caller'[c].reply.status)

(* Answers given and what the history learns, whatever else the step does. *)
LEMMA AnswersKeep ==
  ASSUME BridgeInv, PromptInv, AppOK(app'), NEW answers,
         \A x \in answers : TrueAnswer(app', x), caller' = Answered(answers),
         NEW typed, begun' = Begun(app', typed),
         \A x \in answers : x.port.step = "Enter" /\ x.reply # Rejected
                            => x.port.caller \in typed
  PROVE  /\ caller' \in [Caller -> CallerRec] /\ \A d \in Caller : Goes(caller[d], caller'[d])
         /\ begun' \in [Caller -> {"No", "Typed", "Left"}]
         /\ Truthful /\ PromptInv'
<1>1. caller \in [Caller -> CallerRec] /\ begun \in [Caller -> {"No", "Typed", "Left"}]
  BY DEF BridgeInv, BridgeTypes
<1>2. PICK a : a = app'
  OBVIOUS
<1>3. caller' \in [Caller -> CallerRec] /\ \A d \in Caller : Goes(caller[d], caller'[d])
  BY <1>1, AnsweredGoes DEF TrueAnswer
<1>4. begun' \in [Caller -> {"No", "Typed", "Left"}]
  <2>1. begun' = [c \in Caller |-> begun'[c]]
    BY DEF Begun
  <2> QED
    BY <1>1, <2>1, BegunStays
<1>5. Truthful
  BY <1>1, AnsweredTrue DEF Truthful
<1>6. PromptInv'
  BY <1>1, <1>2, AnsweredPrompt DEF PromptInv
<1> QED
  BY <1>3, <1>4, <1>5, <1>6

(* A request served: a wait that parks has its end still to come, and the waiters of
   sessions gone are told so. *)
LEMMA ServeKeeps ==
  ASSUME BridgeInv, PromptInv, Serve
  PROVE  BridgeInv' /\ PromptInv' /\ Truthful
<1>1. PICK port \in PortRec : \E answers : Served(port, answers)
  BY ServeIs
<1>2. PICK answers : Served(port, answers)
  BY <1>1
<1>3. PICK typed : typed = {c \in {port.caller} :
                              port.step = "Enter" /\ SessionOf(port) \in Registered(app)}
  OBVIOUS
<1>4. UNCHANGED <<app, running>> /\ AppOK(app')
  BY <1>2 DEF Served, BridgeInv, BridgeTypes
<1>5. /\ caller' \in [Caller -> CallerRec] /\ \A d \in Caller : Goes(caller[d], caller'[d])
      /\ begun' \in [Caller -> {"No", "Typed", "Left"}]
      /\ Truthful /\ PromptInv'
  <2>1. caller' = Answered(answers) /\ begun' = Begun(app, typed)
    BY <1>2, <1>3, Zenon DEF Served
  <2>2. begun' = Begun(app', typed)
    <3>1. app' = app
      BY <1>4
    <3> QED
      BY <2>1, <3>1
  <2>3. \A x \in answers :
          /\ TrueAnswer(app, x)
          /\ x.port.step = "Enter" /\ x.reply # Rejected
               => x.port = port /\ SessionOf(port) \in Registered(app)
    BY <1>2 DEF Served
  <2>4. ASSUME NEW x \in answers
        PROVE  /\ TrueAnswer(app', x)
               /\ x.port.step = "Enter" /\ x.reply # Rejected => x.port.caller \in typed
    <3>1. TrueAnswer(app', x)
      BY <1>4, <2>3 DEF TrueAnswer
    <3> QED
      BY <1>3, <2>3, <3>1
  <2> QED
    BY <1>4, <2>1, <2>2, <2>4, AnswersKeep
<1>6. /\ queue' \in Seq(PortRec) /\ Len(queue') <= Capacity
      /\ Queued' \subseteq Queued /\ port \in Queued
  <2>1. queue \in Seq(PortRec) /\ Len(queue) <= Capacity /\ queue # <<>> /\ queue' = Tail(queue)
        /\ Capacity \in Nat
    BY <1>2, BridgeAssumption DEF Served, BridgeInv, BridgeTypes
  <2>2. /\ queue' \in Seq(PortRec) /\ Len(queue') <= Capacity
        /\ \A n \in DOMAIN queue' : n + 1 \in DOMAIN queue /\ queue'[n] = queue[n + 1]
    BY <2>1
  <2>3. Queued' \subseteq Queued
    BY <2>2 DEF Queued
  <2> QED
    BY <1>2, <2>2, <2>3 DEF Served
<1>7. /\ waiters' \subseteq waiters \cup Queued
      /\ waiters' \subseteq {p \in PortRec : p.step \in {"Start", "Wait"}}
      /\ \A p \in waiters' : p \in Swept \/ (p = port /\ Parks(port))
  BY <1>2, <1>6 DEF Served, Swept, Vanished, BridgeInv, BridgeTypes, Parks
<1>8. /\ shots' \subseteq shots \cup Queued
      /\ shots' \subseteq {p \in PortRec : p.step = "Shot"}
  BY <1>2, <1>6 DEF Served, BridgeInv, BridgeTypes
<1>9. BridgeTypes'
  BY <1>4, <1>5, <1>6, <1>7, <1>8 DEF BridgeInv, BridgeTypes
<1>10. CallsMade'
  BY <1>5, <1>6, <1>7, <1>8, StillMade
<1>11. EndsToCome'
  BY <1>4 DEF BridgeInv, EndsToCome
<1>12. NoWaiterForgotten'
  <2>1. ASSUME NEW p \in waiters', p \in waiters => Stands(app, running, SessionOf(p), p.step)
        PROVE  Stands(app', running', SessionOf(p), p.step)
    <3>1. CASE p \in Swept
      BY <1>4, <2>1, <3>1 DEF Swept
    <3>2. CASE p = port /\ Parks(port)
      BY <1>4, <3>2 DEF Parks, Stands
    <3> QED
      BY <1>7, <3>1, <3>2
  <2> QED
    BY <1>5, <1>7, <2>1, WaitsOn
<1> QED
  BY <1>5, <1>9, <1>10, <1>11, <1>12 DEF BridgeInv

(* A screenshot taken or lost answers no wait. *)
LEMMA ShotKeeps ==
  ASSUME BridgeInv, PromptInv, NEW port \in shots, ShotTaken(port) \/ ShotLost(port)
  PROVE  BridgeInv' /\ PromptInv' /\ Truthful
<1>1. port \in PortRec /\ port.step = "Shot"
  BY DEF BridgeInv, BridgeTypes
<1>2. UNCHANGED <<app, running, queue, waiters, begun>> /\ shots' = shots \ {port}
  BY DEF ShotTaken, ShotLost
<1>3. caller \in [Caller -> CallerRec]
  BY DEF BridgeInv, BridgeTypes
<1>4. /\ caller' \in [Caller -> CallerRec] /\ \A d \in Caller : Goes(caller[d], caller'[d])
      /\ Truthful /\ PromptInv'
  <2>1. CASE caller' = caller
    <3>1. Truthful
      BY <2>1 DEF Truthful, NoReply
    <3>2. PromptInv'
      BY <1>2, <2>1 DEF PromptInv, PromptUnderWay
    <3> QED
      BY <1>3, <2>1, <3>1, <3>2, Stays
  <2>2. CASE ShotTaken(port)
    <3>1. PICK x : x = [port |-> port, reply |-> Applied]
      OBVIOUS
    <3>2. PICK answers : answers = {x}
      OBVIOUS
    <3>3. caller' = Answered(answers)
      BY <2>2, <3>1, <3>2 DEF ShotTaken
    <3>4. x.port = port /\ x.reply = Applied /\ Applied \in Reply /\ Applied.kind = "Applied"
      BY <3>1 DEF Applied, Reply
    <3>5. \A y \in answers : TrueAnswer(app', y) /\ y.reply \in Reply
      BY <3>2, <3>4 DEF TrueAnswer
    <3>6. caller' \in [Caller -> CallerRec] /\ \A d \in Caller : Goes(caller[d], caller'[d])
      BY <1>3, <3>3, <3>5, AnsweredGoes
    <3>7. Truthful
      BY <1>3, <3>3, <3>5, AnsweredTrue DEF Truthful
    <3>8. ASSUME NEW c \in Caller, PromptUnderWay(c)
          PROVE  PromptUnderWay(c)'
      <4>1. PICK r \in CallerRec : r = caller[c]
        BY <1>3
      <4>2. CASE caller'[c] = caller[c]
        BY <1>2, <3>8, <4>2 DEF PromptUnderWay
      <4>3. CASE x.port = Port(c) /\ caller'[c] = Replied(r, Applied)
        <5>1. r.step = "Shot"
          BY <1>1, <3>4, <4>1, <4>3 DEF Port
        <5>2. caller'[c].step = "Shot"
          BY <3>4, <4>3, <5>1, RepliedIs
        <5> QED
          BY <5>2 DEF PromptUnderWay
      <4> QED
        BY <1>3, <3>2, <3>3, <3>4, <4>1, <4>2, <4>3, AnsweredIs
    <3>9. PromptInv'
      BY <3>8 DEF PromptInv
    <3> QED
      BY <3>6, <3>7, <3>9
  <2> QED
    BY <2>1, <2>2 DEF ShotLost
<1>5. BridgeTypes'
  BY <1>2, <1>4 DEF BridgeInv, BridgeTypes
<1>6. CallsMade'
  BY <1>2, <1>4, StillMade DEF Queued
<1>7. EndsToCome'
  BY <1>2 DEF BridgeInv, EndsToCome
<1>8. NoWaiterForgotten'
  BY <1>2, <1>4, WaitsOn
<1> QED
  BY <1>4, <1>5, <1>6, <1>7, <1>8 DEF BridgeInv

(* No caller heard anything, and the core and the history are as said. *)
LEMMA NoneHeard ==
  ASSUME BridgeInv, UNCHANGED caller
  PROVE  /\ caller' \in [Caller -> CallerRec] /\ \A d \in Caller : Goes(caller[d], caller'[d])
         /\ Truthful
BY Stays DEF BridgeInv, BridgeTypes, Truthful, NoReply

(* A session opened has an id that no waiter names: none waits for it. *)
LEMMA OpenKeeps ==
  ASSUME BridgeInv, PromptInv, NEW launch, OpenSession(launch)
  PROVE  BridgeInv' /\ PromptInv' /\ Truthful
<1>1. PICK cwd : cwd = CHOOSE c \in Cwd : TRUE
  OBVIOUS
<1>2. PICK r : r = Launch(app, launch, cwd, "Background")
  OBVIOUS
<1>3. /\ app' = r.app
      /\ running' = running \cup {r.effects[n].session : n \in DOMAIN r.effects}
      /\ UNCHANGED <<queue, waiters, shots, caller, begun>>
  BY <1>1, <1>2, Zenon DEF OpenSession
<1>4. AppOK(app) /\ running \subseteq 1 .. app.nextId /\ app.nextId \in Nat
  BY DEF BridgeInv, BridgeTypes, AppOK
<1>5. \/ app' = app /\ running' = running
      \/ \E id \in Nat :
           /\ AppOK(app') /\ id = app.nextId + 1 /\ app'.nextId = id
           /\ running' = running \cup {id}
           /\ Registered(app') = Registered(app) \cup {id}
           /\ \A s \in Registered(app) : app'.live[s] = app.live[s]
  <2>1. CASE r.app = app /\ r.effects = <<>>
    BY <1>3, <2>1
  <2>2. CASE /\ AppOK(r.app)
             /\ r.app.nextId = app.nextId + 1 /\ r.app.nextId \in 1 .. MaxId
             /\ r.effects = <<Spawn(app.nextId + 1)>>
             /\ Registered(r.app) = Registered(app) \cup {app.nextId + 1}
             /\ \A s \in Registered(app) : r.app.live[s] = app.live[s]
    <3>1. PICK id \in Nat : id = app.nextId + 1
      BY <1>4
    <3>2. {r.effects[n].session : n \in DOMAIN r.effects} = {id}
      <4>1. r.effects = <<Spawn(id)>> /\ Spawn(id).session = id
        BY <2>2, <3>1 DEF Spawn
      <4> QED
        BY <4>1
    <3> QED
      BY <1>3, <2>2, <3>1, <3>2
  <2> QED
    BY <1>2, <1>4, <2>1, <2>2, AppAssumption, LaunchLive
<1>6. /\ caller' \in [Caller -> CallerRec] /\ \A d \in Caller : Goes(caller[d], caller'[d])
      /\ Truthful
  BY <1>3, NoneHeard
<1>7. PromptInv'
  BY <1>3 DEF PromptInv, PromptUnderWay
<1>8. CallsMade'
  BY <1>3, <1>6, StillMade DEF Queued
<1>9. CASE app' = app /\ running' = running
  <2>1. BridgeTypes' /\ EndsToCome'
    BY <1>3, <1>9 DEF BridgeInv, BridgeTypes, EndsToCome
  <2>2. NoWaiterForgotten'
    BY <1>3, <1>6, <1>9, WaitsOn
  <2> QED
    BY <1>6, <1>7, <1>8, <2>1, <2>2 DEF BridgeInv
<1>10. ASSUME NEW id \in Nat, AppOK(app'), id = app.nextId + 1, app'.nextId = id,
              running' = running \cup {id},
              Registered(app') = Registered(app) \cup {id},
              \A s \in Registered(app) : app'.live[s] = app.live[s]
       PROVE  BridgeInv'
  <2>1. running' \subseteq 1 .. app'.nextId
    <3>1. PICK n \in Nat : n = app.nextId
      BY <1>4
    <3>2. running \subseteq 1 .. n /\ id = n + 1
      BY <1>4, <1>10, <3>1
    <3>3. running \cup {id} \subseteq 1 .. id
      BY <3>2
    <3> QED
      BY <1>10, <3>3
  <2>2. BridgeTypes'
    BY <1>3, <1>6, <1>10, <2>1 DEF BridgeInv, BridgeTypes
  <2>3. EndsToCome'
    BY <1>10 DEF BridgeInv, EndsToCome
  <2>4. id \notin running /\ id \notin Registered(app)
    BY <1>4, <1>10 DEF AppOK, LiveOK, Registered
  <2>5. ASSUME NEW s, NEW step, Stands(app, running, s, step)
        PROVE  Stands(app', running', s, step)
    BY <1>10, <2>4, <2>5 DEF Stands
  <2>6. NoWaiterForgotten'
    BY <1>3, <1>6, <2>5, WaitsOn
  <2> QED
    BY <1>8, <2>2, <2>3, <2>6 DEF BridgeInv
<1> QED
  BY <1>5, <1>6, <1>7, <1>9, <1>10

(* The waiters settled by a message about a session hear its status, and no other does. *)
LEMMA SettleKeeps ==
  ASSUME BridgeInv, PromptInv, AppOK(app'), NEW s, NEW status,
         SettleWaiters(app', s, status), begun' = Begun(app', {})
  PROVE  /\ caller' \in [Caller -> CallerRec] /\ \A d \in Caller : Goes(caller[d], caller'[d])
         /\ begun' \in [Caller -> {"No", "Typed", "Left"}]
         /\ Truthful /\ PromptInv'
         /\ waiters' \subseteq waiters
         /\ \A p \in waiters' : ~(SessionOf(p) = s /\ Settles(p.step, StatusOf(app', s)))
<1>1. PICK settled :
        settled = {p \in waiters : SessionOf(p) = s /\ Settles(p.step, StatusOf(app', s))}
  OBVIOUS
<1>2. PICK answers : answers = Told(app', settled)
  OBVIOUS
<1>3. /\ waiters' = {p \in waiters \ settled : ~Abandoned(p)}
      /\ caller' = Answered(answers)
  BY <1>1, <1>2, Zenon DEF SettleWaiters
<1>4. ASSUME NEW x \in answers
      PROVE  TrueAnswer(app', x) /\ x.port.step # "Enter"
  <2>1. \A p \in settled : Settles(p.step, StatusOf(app', SessionOf(p)))
    BY <1>1
  <2>2. TrueAnswer(app', x) /\ x.port \in settled
    BY <1>2, <2>1, ToldTrue
  <2> QED
    BY <1>1, <2>2 DEF BridgeInv, BridgeTypes
<1>5. /\ caller' \in [Caller -> CallerRec] /\ \A d \in Caller : Goes(caller[d], caller'[d])
      /\ begun' \in [Caller -> {"No", "Typed", "Left"}]
      /\ Truthful /\ PromptInv'
  BY <1>3, <1>4, AnswersKeep
<1>6. /\ waiters' \subseteq waiters
      /\ \A p \in waiters' : ~(SessionOf(p) = s /\ Settles(p.step, StatusOf(app', s)))
  BY <1>1, <1>3
<1> QED
  BY <1>5, <1>6

(* A status reported settles those it is read back to settle, and no other waiter. *)
LEMMA StatusKeeps ==
  ASSUME BridgeInv, PromptInv, NEW s, NEW status \in Reports, PtyStatus(s, status)
  PROVE  BridgeInv' /\ PromptInv' /\ Truthful
<1>1. /\ s \in running /\ app' = StatusChanged(app, s, status).app
      /\ SettleWaiters(app', s, status) /\ begun' = Begun(app', {})
      /\ UNCHANGED <<running, queue, shots>>
  BY DEF PtyStatus
<1>2. Set(app, app', s)
  <2>1. status \in Status /\ AppOK(app)
    BY BridgeAssumption DEF Status, BridgeInv, BridgeTypes
  <2> QED
    BY <1>1, <2>1, StatusChangedLive
<1>3. /\ caller' \in [Caller -> CallerRec] /\ \A d \in Caller : Goes(caller[d], caller'[d])
      /\ begun' \in [Caller -> {"No", "Typed", "Left"}]
      /\ Truthful /\ PromptInv'
      /\ waiters' \subseteq waiters
      /\ \A p \in waiters' : ~(SessionOf(p) = s /\ Settles(p.step, StatusOf(app', s)))
  BY <1>1, <1>2, SettleKeeps DEF Set
<1>4. BridgeTypes'
  BY <1>1, <1>2, <1>3 DEF BridgeInv, BridgeTypes, Set
<1>5. CallsMade'
  BY <1>1, <1>3, StillMade DEF Queued
<1>6. EndsToCome'
  BY <1>1, <1>2 DEF BridgeInv, EndsToCome, Set
<1>7. NoWaiterForgotten'
  <2>1. ASSUME NEW p \in waiters', Stands(app, running, SessionOf(p), p.step)
        PROVE  Stands(app', running', SessionOf(p), p.step)
    <3>1. CASE SessionOf(p) = s
      BY <1>1, <1>3, <3>1 DEF Stands, StatusOf
    <3>2. CASE SessionOf(p) # s
      BY <1>1, <1>2, <2>1, <3>2 DEF Stands, Set
    <3> QED
      BY <3>1, <3>2
  <2> QED
    BY <1>3, <2>1, WaitsOn
<1> QED
  BY <1>3, <1>4, <1>5, <1>6, <1>7 DEF BridgeInv

(* An end settles every waiter of its session, which reads as exited or is gone. *)
LEMMA EndKeeps ==
  ASSUME BridgeInv, PromptInv, NEW s, NEW clean, PtyEnd(s, clean)
  PROVE  BridgeInv' /\ PromptInv' /\ Truthful
<1>1. /\ s \in running /\ running' = running \ {s} /\ app' = PtyExited(app, s, clean).app
      /\ SettleWaiters(app', s, "Exited") /\ begun' = Begun(app', {})
      /\ UNCHANGED <<queue, shots>>
  BY DEF PtyEnd
<1>2. /\ AppOK(app') /\ app'.nextId = app.nextId
      /\ Registered(app') \subseteq Registered(app)
      /\ Registered(app) \ {s} \subseteq Registered(app')
      /\ \A t \in Registered(app) \ {s} : app'.live[t] = app.live[t]
      /\ StatusOf(app', s) = "Exited"
  BY <1>1, PtyExitedLive DEF BridgeInv, BridgeTypes
<1>3. /\ caller' \in [Caller -> CallerRec] /\ \A d \in Caller : Goes(caller[d], caller'[d])
      /\ begun' \in [Caller -> {"No", "Typed", "Left"}]
      /\ Truthful /\ PromptInv'
      /\ waiters' \subseteq waiters
      /\ \A p \in waiters' : ~(SessionOf(p) = s /\ Settles(p.step, StatusOf(app', s)))
  BY <1>1, <1>2, SettleKeeps
<1>4. BridgeTypes'
  BY <1>1, <1>2, <1>3 DEF BridgeInv, BridgeTypes
<1>5. CallsMade'
  BY <1>1, <1>3, StillMade DEF Queued
<1>6. EndsToCome'
  BY <1>1, <1>2 DEF BridgeInv, EndsToCome, StatusOf
<1>7. NoWaiterForgotten'
  <2>1. ASSUME NEW p \in waiters', Stands(app, running, SessionOf(p), p.step)
        PROVE  Stands(app', running', SessionOf(p), p.step)
    <3>1. SessionOf(p) # s
      BY <1>2, <1>3 DEF Settles
    <3> QED
      BY <1>1, <1>2, <2>1, <3>1 DEF Stands
  <2> QED
    BY <1>3, <2>1, WaitsOn
<1> QED
  BY <1>3, <1>4, <1>5, <1>6, <1>7 DEF BridgeInv

(* A tab closed by the user: its sessions had not told their end, or they would have
   settled their waiters. *)
LEMMA CloseKeeps ==
  ASSUME BridgeInv, PromptInv, NEW i, UserCloses(i)
  PROVE  BridgeInv' /\ PromptInv' /\ Truthful
<1>1. /\ app' = CloseTab(app, i).app /\ begun' = Begun(app', {})
      /\ UNCHANGED <<running, queue, waiters, shots, caller>>
  BY DEF UserCloses
<1>2. Fewer(app, app')
  BY <1>1, CloseTabLive DEF BridgeInv, BridgeTypes
<1>3. /\ caller' \in [Caller -> CallerRec] /\ \A d \in Caller : Goes(caller[d], caller'[d])
      /\ Truthful
  BY <1>1, NoneHeard
<1>4. begun' \in [Caller -> {"No", "Typed", "Left"}]
  <2>1. begun' = [c \in Caller |-> begun'[c]]
    BY <1>1 DEF Begun
  <2> QED
    BY <1>1, <2>1, BegunStays DEF BridgeInv, BridgeTypes
<1>5. PromptInv'
  BY <1>1, BegunStays DEF PromptInv, PromptUnderWay, BridgeInv, BridgeTypes
<1>6. BridgeTypes'
  BY <1>1, <1>2, <1>3, <1>4 DEF BridgeInv, BridgeTypes, Fewer
<1>7. CallsMade'
  BY <1>1, <1>3, StillMade DEF Queued
<1>8. EndsToCome'
  BY <1>1, <1>2 DEF BridgeInv, EndsToCome, Fewer
<1>9. NoWaiterForgotten'
  <2>1. ASSUME NEW p \in waiters', Stands(app, running, SessionOf(p), p.step)
        PROVE  Stands(app', running', SessionOf(p), p.step)
    <3>1. PICK s : s = SessionOf(p)
      OBVIOUS
    <3>2. CASE s \in Registered(app) \ Registered(app')
      <4>1. app.live[s].status # "Exited"
        BY <2>1, <3>1, <3>2 DEF Stands, Settles
      <4> QED
        BY <1>1, <3>1, <3>2, <4>1 DEF BridgeInv, EndsToCome, Stands
    <3>3. CASE s \notin Registered(app) \ Registered(app')
      BY <1>1, <1>2, <2>1, <3>1, <3>3 DEF Stands, Fewer
    <3> QED
      BY <3>2, <3>3
  <2> QED
    BY <1>1, <1>3, <2>1, WaitsOn
<1> QED
  BY <1>3, <1>5, <1>6, <1>7, <1>8, <1>9 DEF BridgeInv

(* The first state. *)
LEMMA BridgeInit ==
  ASSUME Init
  PROVE  BridgeInv /\ PromptInv
<1>1. /\ app = NoApp /\ running = {} /\ waiters = {} /\ shots = {} /\ queue = <<>>
      /\ caller = [c \in Caller |-> Idle] /\ begun = [c \in Caller |-> "No"]
  BY DEF Init
<1>2. AppOK(app)
  <2>1. LiveOK(<<>>, 0)
    BY DEF LiveOK
  <2>2. 0 \in 0 .. MaxId
    BY AppAssumption
  <2> QED
    BY <1>1, <2>1, <2>2, AppOKOf DEF NoApp, AppOf
<1>3. Idle \in CallerRec /\ Idle.step = "Ready"
  BY DEF Idle, CallerRec, Step, Reply
<1>4. BridgeTypes
  <2>1. Capacity \in Nat
    BY BridgeAssumption
  <2> QED
    BY <1>1, <1>2, <1>3, <2>1 DEF BridgeTypes
<1>5. CallsMade /\ NoWaiterForgotten
  BY <1>1 DEF CallsMade, Queued, NoWaiterForgotten
<1>6. EndsToCome
  BY <1>1 DEF EndsToCome, Registered, NoApp
<1>7. PromptInv
  BY <1>1, <1>3 DEF PromptInv, PromptUnderWay
<1> QED
  BY <1>4, <1>5, <1>6, <1>7 DEF BridgeInv

(* A prompt goes on as its own caller does, when the shell does nothing. *)
LEMMA CallersKeep ==
  ASSUME BridgeInv, PromptInv, NEW c \in Caller,
         \/ \E tool \in Tools, s \in SessionId : Begin(c, tool, s)
         \/ Enqueue(c) \/ Return(c) \/ Expire(c)
  PROVE  BridgeInv' /\ PromptInv' /\ Truthful
<1>1. /\ BridgeInv' /\ UNCHANGED <<app, begun>>
      /\ \A d \in Caller \ {c} : caller'[d] = caller[d]
      /\ \/ /\ caller'[c].reply = NoReply
            /\ caller'[c].step = "Start"
                 => caller[c].step = "Enter" /\ caller[c].reply \notin {NoReply, Rejected}
         \/ caller'[c].reply = caller[c].reply /\ caller'[c].step = caller[c].step
  BY CallersSteps
<1>2. Truthful
  BY <1>1 DEF Truthful, NoReply
<1>3. ASSUME NEW d \in Caller, PromptUnderWay(d)
      PROVE  PromptUnderWay(d)'
  <2>1. CASE caller'[d].reply = caller[d].reply /\ caller'[d].step = caller[d].step
    BY <1>1, <1>3, <2>1 DEF PromptUnderWay
  <2>2. CASE /\ d = c /\ caller'[c].reply = NoReply
             /\ caller'[c].step = "Start"
                  => caller[c].step = "Enter" /\ caller[c].reply \notin {NoReply, Rejected}
    BY <1>1, <1>3, <2>2 DEF PromptUnderWay, NoReply
  <2> QED
    BY <1>1, <2>1, <2>2
<1>4. PromptInv'
  BY <1>3 DEF PromptInv
<1> QED
  BY <1>1, <1>2, <1>4

(* Every step keeps the invariants and answers truly. *)
LEMMA BridgeNext ==
  ASSUME BridgeInv, PromptInv, [Next]_vars
  PROVE  BridgeInv' /\ PromptInv' /\ Truthful
<1>1. CASE \E c \in Caller, tool \in Tools, s \in SessionId : Begin(c, tool, s)
  BY <1>1, CallersKeep
<1>2. CASE \E c \in Caller : Enqueue(c) \/ Return(c) \/ Expire(c)
  BY <1>2, CallersKeep
<1>3. CASE Serve
  BY <1>3, ServeKeeps
<1>4. CASE \E port \in shots : ShotTaken(port) \/ ShotLost(port)
  BY <1>4, ShotKeeps
<1>5. CASE \E launch \in Launches : OpenSession(launch)
  BY <1>5, OpenKeeps
<1>6. CASE \E s \in SessionId, status \in Reports : PtyStatus(s, status)
  BY <1>6, StatusKeeps
<1>7. CASE \E s \in SessionId, clean \in BOOLEAN : PtyEnd(s, clean)
  BY <1>7, EndKeeps
<1>8. CASE \E i \in 1 .. MaxId : UserCloses(i)
  BY <1>8, CloseKeeps
<1>9. CASE UNCHANGED vars
  <2>1. UNCHANGED <<app, running, queue, waiters, shots, caller, begun>>
    BY <1>9 DEF vars
  <2>2. BridgeInv'
    BY <2>1 DEF BridgeInv, BridgeTypes, CallsMade, Queued, Behind, EndsToCome,
                NoWaiterForgotten, Abandoned, SessionOf
  <2>3. PromptInv'
    BY <2>1 DEF PromptInv, PromptUnderWay
  <2> QED
    BY <2>1, <2>2, <2>3 DEF Truthful, NoReply
<1> QED
  BY <1>1, <1>2, <1>3, <1>4, <1>5, <1>6, <1>7, <1>8, <1>9 DEF Next

(* The invariants hold throughout. *)
LEMMA BridgeAlways == Spec => [](BridgeInv /\ PromptInv)
<1>1. Init => BridgeInv /\ PromptInv
  BY BridgeInit
<1>2. BridgeInv /\ PromptInv /\ [Next]_vars => (BridgeInv /\ PromptInv)'
  BY BridgeNext
<1> QED
  BY <1>1, <1>2, PTL DEF Spec

-----------------------------------------------------------------------------
(* The bridge keeps its types, and its channel its bound, for any number of callers,
   sessions and places (bridge.rs, REQUEST_CHANNEL_CAPACITY). *)
THEOREM BridgeTyped == Spec => []TypeOK
<1>1. BridgeInv => TypeOK
  <2> SUFFICES ASSUME BridgeInv
               PROVE  TypeOK
    OBVIOUS
  <2>1. running \in SUBSET SessionId
    <3>1. running \subseteq 1 .. app.nextId /\ app.nextId \in 0 .. MaxId /\ MaxId \in Nat
      BY AppAssumption DEF BridgeInv, BridgeTypes, AppOK
    <3>2. PICK n \in 0 .. MaxId : n = app.nextId
      BY <3>1
    <3>3. 1 .. n \subseteq 1 .. MaxId
      BY <3>1, <3>2
    <3> QED
      BY <3>1, <3>2, <3>3 DEF SessionId
  <2>2. PortRec \subseteq [caller : Caller, step : Step]
    BY DEF PortRec
  <2> QED
    BY <2>1, <2>2 DEF BridgeInv, BridgeTypes, TypeOK, CallerRec
<1> QED
  BY <1>1, BridgeAlways, PTL

(* Every caller that still waits has a message to come that settles it: its session sits
   off the statuses that do, or has left the registry with its end still to be told
   (serve.rs, settle_waiters and the sweep). *)
THEOREM NobodyForgotten == Spec => []NoWaiterForgotten
<1>1. BridgeInv => NoWaiterForgotten
  BY DEF BridgeInv
<1> QED
  BY <1>1, BridgeAlways, PTL

(* The answer to a wait is the status of its session at that moment, gone ones being
   exited, and one that settles the wait (serve.rs, settle_waiters reads the core back). *)
THEOREM WaitsAnsweredTruly == Spec => AnswersTrue
<1>1. BridgeInv /\ PromptInv /\ [Next]_vars =>
        [\A c \in Caller :
           LET reply == caller'[c].reply
           IN caller[c].reply = NoReply /\ reply.kind = "Waited" =>
                /\ reply.status = StatusOf(app', caller[c].session)
                /\ Settles(caller[c].step, reply.status)]_vars
  BY BridgeNext DEF Truthful
<1> QED
  BY <1>1, BridgeAlways, PTL DEF Spec, AnswersTrue

(* A prompt whose start was answered goes on to its wait only once its session left the
   targets after the Enter, or ended (handler.rs, wait_for_start), whatever targets
   its caller chose. *)
THEOREM PromptWaitsForWork == Spec => PromptSawWork
<1>1. BridgeInv /\ PromptInv /\ [Next]_vars =>
        [\A c \in Caller :
           /\ caller[c].step = "Start" /\ caller[c].reply.kind = "Waited"
           /\ caller'[c].step = "Wait"
           => begun[c] = "Left" \/ caller[c].reply.status = "Exited"]_vars
  BY DEF PromptInv, PromptUnderWay
<1> QED
  BY <1>1, BridgeAlways, PTL DEF Spec, PromptSawWork
=============================================================================
