------------------------------- MODULE Bridge -------------------------------
(***************************************************************************)
(* The live bridge (crates/app/src/shell/bridge.rs, serve.rs and the tools *)
(* of mcp/handler.rs): MCP callers ask the running shell over one bounded  *)
(* channel, each call within a time limit of its own, while terminals      *)
(* report and the user closes tabs.                                        *)
(*                                                                         *)
(*   app      the core (module AppCore)                                    *)
(*   running  the sessions whose terminal has not told its end yet         *)
(*   queue    the request channel: the calls sent and not yet served       *)
(*   waiters  the calls parked on a session's activity                     *)
(*   shots    the calls whose screenshot task is under way                 *)
(*   caller   what each caller runs: a tool is a list of calls (its steps) *)
(*   begun    what became of a prompt's session since its Enter: history,  *)
(*            which no step reads                                          *)
(*                                                                         *)
(* A call is named by its caller and its step, so that one whose caller    *)
(* gave up stays told apart from the call made after it: the reply port of *)
(* the code.  The shell serves a call in one message.                      *)
(***************************************************************************)
EXTENDS AppCore

CONSTANTS
  Caller,       \* the MCP tool calls under way
  Capacity,     \* REQUEST_CHANNEL_CAPACITY, 32 in the code
  Tools,        \* the tools called
  Targets,      \* the statuses a wait asks for
  AllowNesting, \* whether a Claude session may be prompted
  Launches,     \* the kinds of launch asked for
  Reports,      \* the activity the terminals report
  MaxTabs       \* no launch is asked for with more tabs open

ASSUME BridgeAssumption ==
  /\ Capacity \in Nat \ {0}
  /\ Tools \subseteq {"Wait", "Prompt", "Screenshot"}
  /\ Targets \subseteq Status
  /\ AllowNesting \in BOOLEAN
  /\ Launches \subseteq LaunchKind
  /\ Reports \subseteq Report
  /\ MaxTabs \in Nat

VARIABLES app, running, queue, waiters, shots, caller, begun

shellVars == <<app, running, waiters, shots, begun>>
vars == <<app, running, queue, waiters, shots, caller, begun>>

-----------------------------------------------------------------------------
(***************************************************************************)
(* Calls and their replies.                                                *)
(***************************************************************************)

NoReply == [kind |-> "None"]
Rejected == [kind |-> "Rejected"]
Applied == [kind |-> "Applied"]
Waited(status) == [kind |-> "Waited", status |-> status]

Idle == [tool |-> "None", session |-> 0, step |-> "Ready", sent |-> FALSE, reply |-> NoReply]

Over == {"Ready", "Done", "Failed"}
Calling(c) == caller[c].step \notin Over

Port(c) == [caller |-> c, step |-> caller[c].step]

(* The caller gave up and dropped its end, or was answered. *)
Abandoned(port) ==
  LET c == caller[port.caller]
  IN ~(c.step = port.step /\ c.sent /\ c.reply = NoReply)

(* The replies that reach a caller still there. *)
Answered(answers) ==
  [c \in Caller |->
     IF \E a \in answers : a.port = Port(c) /\ ~Abandoned(a.port)
     THEN [caller[c] EXCEPT !.reply = (CHOOSE a \in answers : a.port = Port(c)).reply]
     ELSE caller[c]]

(* Mutant of Targeted: the start of a prompt waits for the targets themselves. *)
TargetedAlways(step) == Targets

(* What each wait asks for: the start of a prompt, to leave the targets. *)
Targeted(step) ==
  IF step = "Start" THEN {"Starting", "Busy", "Idle", "Attention"} \ Targets ELSE Targets

Settles(step, status) == status \in Targeted(step) \cup {"Exited"}

-----------------------------------------------------------------------------
(***************************************************************************)
(* The tools: what follows a call answered and a call that timed out.      *)
(***************************************************************************)

FirstStep(tool) ==
  CASE tool = "Wait" -> "Wait" [] tool = "Prompt" -> "Sessions" [] tool = "Screenshot" -> "Shot"

AfterWait(tool) == IF tool = "Prompt" THEN "Read" ELSE "Done"

(* The steps whose rejection is ignored; any other fails the tool. *)
StepAfterReply(c) ==
  CASE c.reply = Rejected /\ c.step \notin {"Start", "ReadBack"} -> "Failed"
    [] c.reply # Rejected /\ c.step = "Sessions" -> "Type"
    [] c.reply # Rejected /\ c.step = "Type" -> "Enter"
    [] c.reply # Rejected /\ c.step = "Enter" -> "Start"
    [] c.step = "Start" -> "Wait"
    [] c.step = "ReadBack" \/ (c.reply # Rejected /\ c.step = "Wait") -> AfterWait(c.tool)
    [] OTHER -> "Done"

StepAfterTimeout(c) ==
  CASE c.step = "Start" -> "Wait"
    [] c.step = "Wait" -> "ReadBack"
    [] c.step = "ReadBack" -> AfterWait(c.tool)
    [] OTHER -> "Failed"

GoTo(c, step) ==
  caller' = [caller EXCEPT ![c].step = step, ![c].sent = FALSE, ![c].reply = NoReply]

Begin(c, tool, s) ==
  /\ caller[c] = Idle
  /\ caller' = [caller EXCEPT ![c] = [Idle EXCEPT !.tool = tool, !.session = s,
                                                  !.step = FirstStep(tool)]]
  /\ UNCHANGED <<shellVars, queue>>

(* Mutant of Enqueue: the channel takes one more. *)
EnqueueOneMore(c) ==
  /\ Calling(c) /\ ~caller[c].sent
  /\ Len(queue) <= Capacity
  /\ queue' = Append(queue, Port(c))
  /\ caller' = [caller EXCEPT ![c].sent = TRUE]
  /\ UNCHANGED shellVars

(* The send waits for a place in the channel. *)
Enqueue(c) ==
  /\ Calling(c) /\ ~caller[c].sent
  /\ Len(queue) < Capacity
  /\ queue' = Append(queue, Port(c))
  /\ caller' = [caller EXCEPT ![c].sent = TRUE]
  /\ UNCHANGED shellVars

Return(c) ==
  /\ Calling(c) /\ caller[c].reply # NoReply
  /\ GoTo(c, StepAfterReply(caller[c]))
  /\ UNCHANGED <<shellVars, queue>>

(* Mutant of Expire: only the wait for the reply is bounded. *)
ExpireOnceSent(c) ==
  /\ Calling(c) /\ caller[c].reply = NoReply /\ caller[c].sent
  /\ GoTo(c, StepAfterTimeout(caller[c]))
  /\ UNCHANGED <<shellVars, queue>>

(* The time limit covers the send and the reply.  The request stays where it is. *)
Expire(c) ==
  /\ Calling(c) /\ caller[c].reply = NoReply
  /\ GoTo(c, StepAfterTimeout(caller[c]))
  /\ UNCHANGED <<shellVars, queue>>

-----------------------------------------------------------------------------
(***************************************************************************)
(* The shell: waiters.                                                     *)
(***************************************************************************)

(* A session that has left the registry reads as dead. *)
StatusOf(a, s) == IF s \in Registered(a) THEN a.live[s].status ELSE "Exited"

SessionOf(port) == caller[port.caller].session

Told(a, ports) == {[port |-> p, reply |-> Waited(StatusOf(a, SessionOf(p)))] : p \in ports}

(* Mutant of SettleWaiters: the answer carries the status of the message. *)
SettleByMessage(a, s, status) ==
  LET settled == {p \in waiters : SessionOf(p) = s /\ Settles(p.step, status)}
  IN /\ waiters' = {p \in waiters \ settled : ~Abandoned(p)}
     /\ caller' = Answered({[port |-> p, reply |-> Waited(status)] : p \in settled})

(* The status is read back from the core, whatever the message said. *)
SettleWaiters(a, s, status) ==
  LET settled == {p \in waiters : SessionOf(p) = s /\ Settles(p.step, StatusOf(a, s))}
  IN /\ waiters' = {p \in waiters \ settled : ~Abandoned(p)}
     /\ caller' = Answered(Told(a, settled))

(* The waiters of sessions gone from the registry: a serve answers these first. *)
Vanished == {p \in waiters : SessionOf(p) \notin Registered(app)}
Swept == {p \in waiters \ Vanished : ~Abandoned(p)}

-----------------------------------------------------------------------------
(***************************************************************************)
(* The shell: one request served.                                          *)
(***************************************************************************)

(* A wait parks unless its handle is unknown or its session sits on a target. *)
Parks(port) ==
  /\ port.step \in {"Start", "Wait"}
  /\ SessionOf(port) \in Registered(app)
  /\ ~Settles(port.step, app.live[SessionOf(port)].status)

NestingRefused(s) == app.live[s].launch = "Claude" /\ ~AllowNesting

(* The reply to a call answered at once. *)
ReplyTo(port) ==
  LET s == SessionOf(port)
  IN CASE port.step = "ReadBack" -> Applied
       [] port.step # "ReadBack" /\ s \notin Registered(app) -> Rejected
       [] port.step = "Sessions" /\ s \in Registered(app) ->
            IF NestingRefused(s) THEN Rejected ELSE Applied
       [] port.step \in {"Start", "Wait"} /\ s \in Registered(app) ->
            Waited(app.live[s].status)
       [] OTHER -> Applied

(* The prompts whose session is off the targets once their Enter is typed. *)
Begun(a, typed) ==
  [c \in Caller |->
     IF begun[c] # "Left" /\ (c \in typed \/ begun[c] = "Typed")
     THEN IF StatusOf(a, caller[c].session) \in Targets THEN "Typed" ELSE "Left"
     ELSE begun[c]]

(* A call is carried out even when its caller has given up. *)
Serve ==
  /\ queue # <<>>
  /\ LET port == Head(queue)
         now == IF Parks(port) \/ port.step = "Shot" THEN {}
                ELSE {[port |-> port, reply |-> ReplyTo(port)]}
     IN /\ caller' = Answered(Told(app, Vanished) \cup now)
        /\ waiters' = Swept \cup {p \in {port} : Parks(p)}
        /\ shots' = shots \cup {p \in {port} : p.step = "Shot"}
        /\ begun' = Begun(app, {c \in {port.caller} :
                                  port.step = "Enter" /\ SessionOf(port) \in Registered(app)})
  /\ queue' = Tail(queue)
  /\ UNCHANGED <<app, running>>

(* The frame came, or the word that there is no window. *)
ShotTaken(port) ==
  /\ port \in shots
  /\ shots' = shots \ {port}
  /\ caller' = Answered({[port |-> port, reply |-> Applied]})
  /\ UNCHANGED <<app, running, queue, waiters, begun>>

(* The window closed meanwhile: the task never resumes. *)
ShotLost(port) ==
  /\ port \in shots
  /\ shots' = shots \ {port}
  /\ UNCHANGED <<app, running, queue, waiters, caller, begun>>

-----------------------------------------------------------------------------
(***************************************************************************)
(* The shell: terminals and the user.                                      *)
(***************************************************************************)

OpenSession(launch) ==
  LET r == Launch(app, launch, CHOOSE c \in Cwd : TRUE, "Background")
  IN /\ Len(app.ws.tabs) < MaxTabs
     /\ app' = r.app
     /\ running' = running \cup {r.effects[n].session : n \in DOMAIN r.effects}
     /\ UNCHANGED <<queue, waiters, shots, caller, begun>>

(* Terminals report until they told their end, even once killed. *)
PtyStatus(s, status) ==
  /\ s \in running
  /\ LET a == StatusChanged(app, s, status).app
     IN app' = a /\ SettleWaiters(a, s, status) /\ begun' = Begun(a, {})
  /\ UNCHANGED <<running, queue, shots>>

(* Mutant of PtyEnd: an exit settles no one. *)
PtyEndUntold(s, clean) ==
  /\ s \in running
  /\ running' = running \ {s}
  /\ app' = PtyExited(app, s, clean).app
  /\ begun' = Begun(app', {})
  /\ UNCHANGED <<queue, waiters, shots, caller>>

PtyEnd(s, clean) ==
  /\ s \in running
  /\ running' = running \ {s}
  /\ LET a == PtyExited(app, s, clean).app
     IN app' = a /\ SettleWaiters(a, s, "Exited") /\ begun' = Begun(a, {})
  /\ UNCHANGED <<queue, shots>>

(* The user closes a tab: no one is told until the terminal is. *)
UserCloses(i) ==
  /\ i \in DOMAIN app.ws.tabs
  /\ app' = CloseTab(app, i).app
  /\ begun' = Begun(app', {})
  /\ UNCHANGED <<running, queue, waiters, shots, caller>>

-----------------------------------------------------------------------------
Init ==
  /\ app = NoApp
  /\ running = {} /\ waiters = {} /\ shots = {}
  /\ queue = <<>>
  /\ caller = [c \in Caller |-> Idle]
  /\ begun = [c \in Caller |-> "No"]

Next ==
  \/ \E c \in Caller, tool \in Tools, s \in SessionId : Begin(c, tool, s)
  \/ \E c \in Caller : Enqueue(c) \/ Return(c) \/ Expire(c)
  \/ Serve
  \/ \E port \in shots : ShotTaken(port) \/ ShotLost(port)
  \/ \E launch \in Launches : OpenSession(launch)
  \/ \E s \in SessionId, status \in Reports : PtyStatus(s, status)
  \/ \E s \in SessionId, clean \in BOOLEAN : PtyEnd(s, clean)
  \/ \E i \in 1 .. MaxId : UserCloses(i)

(* Timers fire and the callers' runtime goes on; nothing is asked of the shell,
   which may be wedged, nor of the terminals. *)
CallersRun == \A c \in Caller : WF_vars(Expire(c) \/ Return(c))

Spec == Init /\ [][Next]_vars /\ CallersRun

-----------------------------------------------------------------------------
Step == {"Ready", "Done", "Failed", "Sessions", "Type", "Enter", "Start", "Wait",
         "ReadBack", "Read", "Shot"}
Reply == {NoReply, Rejected, Applied} \cup {Waited(status) : status \in Status}

TypeOK ==
  /\ running \in SUBSET SessionId
  /\ \A n \in DOMAIN queue : queue[n] \in [caller : Caller, step : Step]
  /\ Len(queue) <= Capacity
  /\ waiters \cup shots \in SUBSET [caller : Caller, step : Step]
  /\ caller \in [Caller -> [tool : {"None"} \cup Tools, session : SessionId \cup {0},
                            step : Step, sent : BOOLEAN, reply : Reply]]
  /\ begun \in [Caller -> {"No", "Typed", "Left"}]

(* No caller that still waits is forgotten: its session is off every status that
   settles the wait, or has left the registry with its end still to be told.
   Whichever order its request, the session's reports, its exit and a close by
   the user came in, a message that settles it is still to come. *)
NoWaiterForgotten ==
  \A p \in waiters : ~Abandoned(p) =>
    IF SessionOf(p) \in Registered(app) THEN ~Settles(p.step, app.live[SessionOf(p)].status)
    ELSE SessionOf(p) \in running

(* A wait's answer is the activity of the moment it is given: of a session dead or
   gone a caller is never told that it is idle, though its last report may be
   handled after its end. *)
AnswersTrue ==
  [][\A c \in Caller :
       LET reply == caller'[c].reply
       IN caller[c].reply = NoReply /\ reply.kind = "Waited" =>
            /\ reply.status = StatusOf(app', caller[c].session)
            /\ Settles(caller[c].step, reply.status)]_vars

(* A prompt whose start was seen in time is reported settled only once its session
   left the targets after the Enter, or ended: never with the status from before it. *)
PromptSawWork ==
  [][\A c \in Caller :
       /\ caller[c].step = "Start" /\ caller[c].reply.kind = "Waited"
       /\ caller'[c].step = "Wait"
       => begun[c] = "Left" \/ caller[c].reply.status = "Exited"]_vars

(* Every tool call comes back, with the shell wedged, the channel full, a status
   that never comes or a window gone. *)
CallReturns == \A c \in Caller : Calling(c) ~> ~Calling(c)
=============================================================================
