------------------------------ MODULE Activity ------------------------------
(***************************************************************************)
(* A session's activity as its terminal thread folds it together           *)
(* (crates/pty/src/status.rs): from Claude's titles and notifications,     *)
(* from a shell's prompt marks, and from polls of the foreground process   *)
(* while the terminal has said nothing for itself.                         *)
(*                                                                         *)
(* A chunk of output is [marks, signals], what the decoders find in it.    *)
(* Time passes in ticks: `due` is how many are left before a held idle is  *)
(* to be published.                                                        *)
(***************************************************************************)
EXTENDS Integers, SequencesExt

CONSTANT IdleHold  \* IDLE_HOLD: how long an idle title must stand, in ticks

ASSUME HoldAssumption == IdleHold \in Nat \ {0}

Mark == {"Ready", "Running", "Done"}
Signal == {"Busy", "Idle", "Notification", "Other"}
Chunk == [marks : Seq(Mark), signals : Seq(Signal)]

Known == {"Busy", "Idle", "Attention"}

NoHold == -1

Starting == [status |-> "Starting", selfReported |-> FALSE, due |-> NoHold]

(* A prompt under a request for attention does not take the request back. *)
FoldMark(status, mark) ==
  IF mark = "Running" THEN "Busy"
  ELSE IF status = "Attention" THEN status ELSE "Idle"

FoldSignal(status, signal) ==
  IF signal = "Busy" THEN "Busy"
  ELSE IF signal = "Notification" THEN "Attention"
  ELSE IF signal = "Idle" /\ status # "Attention" THEN "Idle" ELSE status

Classifies(chunk) ==
  chunk.marks # <<>> \/ \E n \in DOMAIN chunk.signals : chunk.signals[n] # "Other"

(* What the terminal last said, an idle still held included. *)
Underlying(a) == IF a.due = NoHold THEN a.status ELSE "Idle"

(* Marks go first: a command's start comes before the signals of the Claude
   it starts. *)
Folded(a, chunk) ==
  FoldLeft(FoldSignal, FoldLeft(FoldMark, Underlying(a), chunk.marks), chunk.signals)

Worked(chunk) == \E n \in DOMAIN chunk.signals : chunk.signals[n] = "Busy"

(* Mutant of HoldAfter: work inside the chunk does not start the hold anew. *)
HoldThroughWork(a, chunk) ==
  LET held == chunk.marks = <<>> /\ a.status = "Busy" /\ Folded(a, chunk) = "Idle"
  IN IF ~held THEN NoHold ELSE IF a.due # NoHold THEN a.due ELSE IdleHold

(* Only an idle title that ends a busy stretch is held, from the last work on. *)
HoldAfter(a, chunk) ==
  LET held == chunk.marks = <<>> /\ a.status = "Busy" /\ Folded(a, chunk) = "Idle"
  IN IF ~held THEN NoHold
     ELSE IF a.due # NoHold /\ ~Worked(chunk) THEN a.due ELSE IdleHold

Observe(a, chunk) ==
  [status |-> IF HoldAfter(a, chunk) = NoHold THEN Folded(a, chunk) ELSE a.status,
   selfReported |-> a.selfReported \/ Classifies(chunk),
   due |-> HoldAfter(a, chunk)]

Settle(a) == [a EXCEPT !.status = "Idle", !.due = NoHold]

(* Mutant of Poll: the stand-in is believed whatever the terminal said. *)
PollAlways(a, status) == IF status \in Known THEN [a EXCEPT !.status = status] ELSE a

(* A poll stands in until the terminal first speaks for itself. *)
Poll(a, status) ==
  IF status \in Known /\ ~a.selfReported THEN [a EXCEPT !.status = status] ELSE a
=============================================================================
