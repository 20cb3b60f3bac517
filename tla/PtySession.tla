----------------------------- MODULE PtySession -----------------------------
(***************************************************************************)
(* One session of the PTY adapter (crates/pty/src/session.rs, manager.rs)  *)
(* on Unix: the child at the other end of the PTY, the reader that carries *)
(* its output, the waiter that sees it end, the watcher that polls the     *)
(* foreground process, and the terminal thread that all of them feed       *)
(* through one channel and that alone speaks to the runtime.               *)
(*                                                                         *)
(*   alive   whether the child runs                                        *)
(*   output  what it wrote and the reader has yet to read                  *)
(*   entry   the session's place in the manager's map                      *)
(*   waiter  whether the end of the child is still to be reported          *)
(*   poll    ticks to the watcher's next poll                              *)
(*   ctrl    the channel to the terminal thread                            *)
(*   term    the terminal thread: its phase, the activity it knows,        *)
(*           whether the screen changed since it was last sent and whether *)
(*           that was less than SCREEN_INTERVAL ago, the ticks of quiet the *)
(*           drain still waits for                                         *)
(*   told    what the runtime was told: the status and the exit            *)
(*   late    ticks for which the terminal thread has been behind           *)
(*   calm    ticks since the terminal thread last saw work, for a property *)
(*   input   chunks and commands still to come, the bound of the model     *)
(*                                                                         *)
(* A tick is 50 ms, and longer than SCREEN_INTERVAL.  The reader, the      *)
(* waiter and the watcher act within the tick they have something to do;   *)
(* the terminal thread may fall behind by up to MaxLate ticks.  The exit   *)
(* status and the job in front, which the threads pass on, are left out.   *)
(***************************************************************************)
EXTENDS Activity

CONSTANTS
  EofQuiet,        \* EOF_DRAIN_QUIET
  ForegroundPoll,  \* FOREGROUND_POLL
  Chunks,          \* the chunks written
  MaxInput,        \* chunks and commands over a run
  MaxLate          \* the ticks the terminal thread may be behind

ASSUME SessionAssumption ==
  /\ EofQuiet \in Nat \ {0}
  /\ ForegroundPoll \in Nat \ {0}
  /\ EofQuiet < ForegroundPoll
  /\ Chunks \subseteq Chunk
  /\ MaxInput \in Nat /\ MaxLate \in Nat

VARIABLES alive, output, entry, waiter, poll, ctrl, term, told, late, calm, input

process == <<alive, output>>
vars == <<alive, output, entry, waiter, poll, ctrl, term, told, late, calm, input>>

Bytes(chunk) == [cmd |-> "Bytes", chunk |-> chunk]
Redraw == [cmd |-> "Redraw"]    \* resize, scroll, select, repaint, copy
Forward == [cmd |-> "Forward"]  \* a pointer event the child takes, or no one
Foreground(status) == [cmd |-> "Foreground", status |-> status]
Eof == [cmd |-> "Eof"]

Init ==
  /\ alive = TRUE
  /\ output = <<>>
  /\ entry = "starting"
  /\ waiter = "waiting"
  /\ poll = ForegroundPoll
  /\ ctrl = <<>>
  /\ term = [phase |-> "loop", act |-> Starting, unsent |-> FALSE, fresh |-> FALSE,
             quiet |-> EofQuiet]
  /\ told = [status |-> "Starting", over |-> FALSE]
  /\ late = 0
  /\ calm = 0
  /\ input = MaxInput

Send(cmd) == ctrl' = IF term.phase = "done" THEN ctrl ELSE Append(ctrl, cmd)

-----------------------------------------------------------------------------
(***************************************************************************)
(* The child, and the manager at the user's bidding.                       *)
(***************************************************************************)

Write(chunk) ==
  /\ alive /\ input > 0
  /\ output' = Append(output, chunk)
  /\ input' = input - 1
  /\ UNCHANGED <<alive, entry, waiter, poll, ctrl, term, told, late, calm>>

(* What the child wrote stays to be read. *)
ChildExit ==
  /\ alive
  /\ alive' = FALSE
  /\ UNCHANGED <<output, entry, waiter, poll, ctrl, term, told, late, calm, input>>

(* `spawn` puts the session in the map last, its threads under way. *)
Host ==
  /\ entry = "starting"
  /\ entry' = "hosted"
  /\ UNCHANGED <<process, waiter, poll, ctrl, term, told, late, calm, input>>

Command(cmd) ==
  /\ entry = "hosted" /\ input > 0
  /\ Send(cmd)
  /\ input' = input - 1
  /\ UNCHANGED <<process, entry, waiter, poll, term, told, late, calm>>

(* The child, if it has not ended, is sent a signal, which it may ignore. *)
Kill ==
  /\ entry = "hosted"
  /\ entry' = "removed"
  /\ UNCHANGED <<process, waiter, poll, ctrl, term, told, late, calm, input>>

-----------------------------------------------------------------------------
(***************************************************************************)
(* Reader, waiter, watcher.                                               *)
(***************************************************************************)

Read ==
  /\ output # <<>>
  /\ output' = Tail(output)
  /\ Send(Bytes(Head(output)))
  /\ UNCHANGED <<alive, entry, waiter, poll, term, told, late, calm, input>>

Wait ==
  /\ ~alive /\ waiter = "waiting"
  /\ waiter' = "done"
  /\ Send(Eof)
  /\ UNCHANGED <<process, entry, poll, term, told, late, calm, input>>

(* What a poll finds: the shell in front means idle, another process busy, and
   the end of the child leaves the terminal without an owner. *)
Reading == IF alive THEN {"Idle", "Busy", "unknown"} ELSE {"unknown"}

(* Mutant of Watch: the polls are as close as the quiet is long. *)
WatchEagerly ==
  /\ poll = 0 /\ term.phase # "done"
  /\ poll' = EofQuiet
  /\ \E status \in Reading : Send(Foreground(status))
  /\ UNCHANGED <<process, entry, waiter, term, told, late, calm, input>>

Watch ==
  /\ poll = 0 /\ term.phase # "done"
  /\ poll' = ForegroundPoll
  /\ \E status \in Reading : Send(Foreground(status))
  /\ UNCHANGED <<process, entry, waiter, term, told, late, calm, input>>

-----------------------------------------------------------------------------
(***************************************************************************)
(* The terminal thread.  It publishes an idle whose hold is over before it *)
(* looks at what the channel brought it.                                   *)
(***************************************************************************)

(* Report the status when it moved. *)
Told(act) == [told EXCEPT !.status = act.status]

(* Send the screen, unless one was sent just before. *)
Drawn(t) == IF t.fresh THEN [t EXCEPT !.unsent = TRUE]
            ELSE [t EXCEPT !.unsent = FALSE, !.fresh = TRUE]

Due == term.act.due = 0

(* Mutant of FlushDue: the thread wakes for a held idle only. *)
FlushBesideHold == term.unsent /\ ~term.fresh /\ term.act.due # NoHold

FlushDue == term.unsent /\ ~term.fresh

SettleHeld ==
  /\ term.phase = "loop" /\ Due
  /\ term' = [term EXCEPT !.act = Settle(@)]
  /\ told' = Told(Settle(term.act))
  /\ UNCHANGED <<process, entry, waiter, poll, ctrl, late, calm, input>>

Flush ==
  /\ term.phase = "loop" /\ ~Due /\ ctrl = <<>> /\ FlushDue
  /\ term' = Drawn(term)
  /\ UNCHANGED <<process, entry, waiter, poll, ctrl, told, late, calm, input>>

(* What a command does to the thread, and what the runtime is told of it. *)
Handled(cmd) ==
  IF cmd.cmd = "Bytes" THEN Drawn([term EXCEPT !.act = Observe(@, cmd.chunk)])
  ELSE IF cmd.cmd = "Redraw" THEN Drawn(term)
  ELSE IF cmd.cmd = "Foreground" THEN [term EXCEPT !.act = Poll(@, cmd.status)]
  ELSE IF cmd.cmd = "Eof" THEN [term EXCEPT !.phase = "drain"]
  ELSE term

Works(cmd) ==
  cmd.cmd = "Bytes" /\ (Worked(cmd.chunk) \/ "Running" \in Range(cmd.chunk.marks))

Handle ==
  /\ term.phase = "loop" /\ ~Due /\ ctrl # <<>>
  /\ ctrl' = Tail(ctrl)
  /\ term' = Handled(Head(ctrl))
  /\ told' = Told(term'.act)
  /\ calm' = IF Works(Head(ctrl)) THEN 0 ELSE calm
  /\ UNCHANGED <<process, entry, waiter, poll, late, input>>

(* Mutant of Drain: only output keeps the drain going. *)
DrainOutputOnly ==
  /\ term.phase = "drain" /\ ctrl # <<>>
  /\ ctrl' = Tail(ctrl)
  /\ IF Head(ctrl).cmd = "Bytes"
     THEN term' = [term EXCEPT !.quiet = EofQuiet] /\ UNCHANGED told
     ELSE /\ term' = [term EXCEPT !.phase = "done", !.unsent = FALSE]
          /\ told' = [told EXCEPT !.over = TRUE]
  /\ UNCHANGED <<process, entry, waiter, poll, late, calm, input>>

(* After the end of the child its last output is still applied, everything
   else dropped; either starts the wait for quiet anew. *)
Drain ==
  /\ term.phase = "drain" /\ ctrl # <<>>
  /\ ctrl' = Tail(ctrl)
  /\ term' = [term EXCEPT !.quiet = EofQuiet]
  /\ UNCHANGED <<process, entry, waiter, poll, told, late, calm, input>>

(* The last screen goes out, then the exit. *)
Finish ==
  /\ term.phase = "drain" /\ ctrl = <<>> /\ term.quiet = 0
  /\ term' = [term EXCEPT !.phase = "done", !.unsent = FALSE]
  /\ told' = [told EXCEPT !.over = TRUE]
  /\ UNCHANGED <<process, entry, waiter, poll, ctrl, late, calm, input>>

Terminal == SettleHeld \/ Flush \/ Handle \/ Drain \/ Finish

-----------------------------------------------------------------------------
(***************************************************************************)
(* Time.                                                                   *)
(***************************************************************************)

Behind ==
  \/ term.phase = "loop" /\ (Due \/ FlushDue \/ ctrl # <<>>)
  \/ term.phase = "drain" /\ (term.quiet = 0 \/ ctrl # <<>>)

(* Mutant of Less: a deadline that has passed is counted on. *)
LessOrMissed(n) == n - 1

(* The wait left until a deadline, none once it has passed. *)
Less(n) == IF n > 0 THEN n - 1 ELSE n

Tick ==
  /\ output = <<>>
  /\ alive \/ waiter = "done"
  /\ poll > 0 \/ term.phase = "done"
  /\ Behind => late < MaxLate
  /\ late' = IF Behind THEN late + 1 ELSE 0
  /\ poll' = Less(poll)
  /\ term' = [term EXCEPT !.act.due = Less(@), !.fresh = FALSE,
                          !.quiet = IF term.phase = "drain" /\ ctrl = <<>> THEN Less(@) ELSE @]
  /\ calm' = IF calm < IdleHold THEN calm + 1 ELSE calm
  /\ UNCHANGED <<process, entry, waiter, ctrl, told, input>>

Next ==
  \/ \E chunk \in Chunks : Write(chunk)
  \/ ChildExit
  \/ \E cmd \in {Redraw, Forward} : Command(cmd)
  \/ Host \/ Kill
  \/ Read \/ Wait \/ Watch
  \/ Terminal
  \/ Tick

(* The threads run and time passes; the child may live on for ever, killed or
   not. *)
Fairness ==
  /\ WF_vars(Read) /\ WF_vars(Wait) /\ WF_vars(Watch) /\ WF_vars(Terminal)
  /\ WF_vars(Tick)

Spec == Init /\ [][Next]_vars /\ Fairness

-----------------------------------------------------------------------------
(***************************************************************************)
(* Safety.                                                                 *)
(***************************************************************************)

TypeOK ==
  /\ alive \in BOOLEAN
  /\ entry \in {"starting", "hosted", "removed"}
  /\ waiter \in {"waiting", "done"}
  /\ poll \in 0 .. ForegroundPoll
  /\ term \in [phase : {"loop", "drain", "done"}, act : [status : Known \cup {"Starting"},
                 selfReported : BOOLEAN, due : NoHold .. IdleHold],
               unsent : BOOLEAN, fresh : BOOLEAN, quiet : 0 .. EofQuiet]
  /\ told \in [status : Known \cup {"Starting"}, over : BOOLEAN]

(* Nothing the child wrote before it ended is missing from the screen its pane
   keeps: the drain outlasts the polls and the commands that cross it. *)
TrailingOutputShown ==
  told.over => /\ output = <<>>
               /\ \A n \in DOMAIN ctrl : ctrl[n].cmd # "Bytes"

-----------------------------------------------------------------------------
(***************************************************************************)
(* What a step may never do.                                               *)
(***************************************************************************)

ByMarkOrPoll ==
  /\ ctrl # <<>> /\ ctrl' = Tail(ctrl)
  /\ \/ Head(ctrl).cmd = "Foreground"
     \/ Head(ctrl).cmd = "Bytes" /\ Head(ctrl).chunk.marks # <<>>

(* A busy session reads idle on a shell's own word or on a poll, and else only
   once no work was seen for the whole hold: a caller that waits for a Claude to
   finish does not return in the gap between two of its busy stretches. *)
IdleStands ==
  [][\/ calm >= IdleHold
     \/ ByMarkOrPoll
     \/ ~(told.status = "Busy" /\ told'.status = "Idle")]_vars

(* A request for attention is taken back by work alone: neither an idle title,
   a redrawn prompt nor a poll that crossed it on the channel drops the badge. *)
AttentionUntilWork ==
  [][told.status = "Attention" => told'.status = "Attention" \/ calm' = 0]_vars

-----------------------------------------------------------------------------
(***************************************************************************)
(* Liveness.                                                               *)
(***************************************************************************)

Feed == INSTANCE SessionFeed
          WITH alive <- alive, killed <- entry = "removed",
               status <- told.status, over <- told.over

(* The session keeps the contract of SessionFeed, its liveness included: the
   polls, slower than the quiet they interrupt, do not keep the drain from
   ending, and no report follows the exit. *)
FeedImplemented == Feed!Spec

(* A change to the screen that came too soon after the last one sent is not
   left unsent. *)
ScreenCatchesUp == term.unsent ~> ~term.unsent
=============================================================================
