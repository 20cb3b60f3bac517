-------------------------- MODULE PtySessionProofs --------------------------
(***************************************************************************)
(* A PTY session, for any output, any number of commands and any delay of  *)
(* the terminal thread.  Its end: nothing the child wrote is missing from  *)
(* the last screen, and the session's events keep the safety part of the   *)
(* contract of module SessionFeed.  Its status: a busy session reads idle  *)
(* on a mark, a poll or after the whole hold, and work alone takes back a  *)
(* request for attention.                                                  *)
(*                                                                         *)
(* The end rests on `Inv` alone, where what a chunk makes of the status    *)
(* plays no part.  The status rests on `Heard` besides: the runtime was    *)
(* told what the thread knows, and what is left of a hold is covered by    *)
(* the time since work was last seen (`Active`).                           *)
(***************************************************************************)
EXTENDS PtySession, SequenceTheorems, FiniteSetTheorems, TLAPS

Cmd == {Redraw, Forward, Eof} \cup {Bytes(chunk) : chunk \in Chunks}
         \cup {Foreground(status) : status \in {"Idle", "Busy", "unknown"}}

Fields(t) == t = [phase |-> t.phase, act |-> t.act, unsent |-> t.unsent,
                  fresh |-> t.fresh, quiet |-> t.quiet]

Typed ==
  /\ output \in Seq(Chunks)
  /\ ctrl \in Seq(Cmd)
  /\ Fields(term)
  /\ term.quiet \in 0 .. EofQuiet
  /\ told = [status |-> told.status, over |-> told.over]

(* No end of the child is announced before the waiter saw it. *)
Announced(cmds, w) == \A n \in 1 .. Len(cmds) : cmds[n].cmd = "Eof" => w = "done"

(* The end of the child comes first, then the waiter's word of it, then the
   drain.  A tick of quiet finds nothing left to read. *)
Ordered ==
  /\ waiter = "done" => ~alive
  /\ Announced(ctrl, waiter)
  /\ term.phase # "loop" => waiter = "done"
  /\ term.quiet < EofQuiet => term.phase # "loop" /\ output = <<>>
  /\ told.over <=> term.phase = "done"
  /\ term.phase = "done" => output = <<>> /\ ctrl = <<>>

Inv == Typed /\ Ordered

-----------------------------------------------------------------------------
(***************************************************************************)
(* The channel.                                                            *)
(***************************************************************************)

(* The commands, and which of them tells of the end of the child. *)
LEMMA CmdKinds ==
  /\ \A chunk \in Chunks : Bytes(chunk) \in Cmd /\ Bytes(chunk).cmd # "Eof"
  /\ \A status \in {"Idle", "Busy", "unknown"} :
        Foreground(status) \in Cmd /\ Foreground(status).cmd # "Eof"
  /\ Redraw \in Cmd /\ Redraw.cmd # "Eof"
  /\ Forward \in Cmd /\ Forward.cmd # "Eof"
  /\ Eof \in Cmd
BY DEF Cmd, Redraw, Forward, Eof, Bytes, Foreground

(* A sender that tells of the child's end knows of it; one that sends after the
   session's end sends to no one. *)
LEMMA SendKeeps ==
  ASSUME Inv, NEW cmd \in Cmd, Send(cmd), NEW w, cmd.cmd = "Eof" => w = "done",
         w = "done" \/ w = waiter
  PROVE  /\ ctrl' \in Seq(Cmd)
         /\ Announced(ctrl', w)
         /\ term.phase = "done" => ctrl' = <<>>
<1>1. ctrl \in Seq(Cmd) /\ Announced(ctrl, w)
  BY DEF Inv, Typed, Ordered, Announced
<1>2. CASE term.phase = "done"
  BY <1>1, <1>2 DEF Send, Inv, Ordered
<1>3. CASE term.phase # "done"
  <2>1. ctrl' = Append(ctrl, cmd)
    BY <1>3 DEF Send
  <2>2. /\ ctrl' \in Seq(Cmd)
        /\ Len(ctrl') = Len(ctrl) + 1
        /\ \A n \in 1 .. Len(ctrl) : ctrl'[n] = ctrl[n]
        /\ ctrl'[Len(ctrl) + 1] = cmd
    BY <1>1, <2>1, AppendProperties
  <2>3. Len(ctrl) \in Nat
    BY <1>1, LenProperties
  <2>4. Announced(ctrl', w)
    BY <1>1, <2>2, <2>3 DEF Announced
  <2> QED
    BY <1>3, <2>2, <2>4
<1> QED
  BY <1>2, <1>3

(* Taking the first command off the channel. *)
LEMMA TailKeeps ==
  ASSUME Inv, ctrl # <<>>
  PROVE  /\ Tail(ctrl) \in Seq(Cmd)
         /\ Announced(Tail(ctrl), waiter)
         /\ Head(ctrl) \in Cmd
         /\ Head(ctrl).cmd = "Eof" => waiter = "done"
         /\ term.phase # "done"
<1>1. ctrl \in Seq(Cmd) /\ Announced(ctrl, waiter) /\ term.phase # "done"
  BY DEF Inv, Typed, Ordered
<1>2. /\ Head(ctrl) \in Cmd /\ Tail(ctrl) \in Seq(Cmd)
      /\ Len(Tail(ctrl)) = Len(ctrl) - 1
      /\ \A n \in 1 .. Len(Tail(ctrl)) : Tail(ctrl)[n] = ctrl[n + 1]
      /\ Head(ctrl) = ctrl[1] /\ Len(ctrl) \in Nat \ {0}
  BY <1>1
<1>3. Announced(Tail(ctrl), waiter)
  BY <1>1, <1>2 DEF Announced
<1> QED
  BY <1>1, <1>2, <1>3 DEF Announced

-----------------------------------------------------------------------------
(***************************************************************************)
(* The terminal thread.                                                    *)
(***************************************************************************)

LEMMA DrawnKeeps ==
  ASSUME NEW t, Fields(t)
  PROVE  Fields(Drawn(t)) /\ Drawn(t).phase = t.phase /\ Drawn(t).quiet = t.quiet
BY DEF Fields, Drawn

LEMMA ActKeeps ==
  ASSUME NEW t, Fields(t), NEW a
  PROVE  LET u == [t EXCEPT !.act = a]
         IN  Fields(u) /\ u.phase = t.phase /\ u.quiet = t.quiet
BY DEF Fields

(* A command leaves the phase alone, except for the end of the child. *)
LEMMA HandledKeeps ==
  ASSUME Inv, NEW cmd \in Cmd
  PROVE  /\ Fields(Handled(cmd))
         /\ Handled(cmd).quiet = term.quiet
         /\ Handled(cmd).phase = IF cmd.cmd = "Eof" THEN "drain" ELSE term.phase
<1>1. Fields(term)
  BY DEF Inv, Typed
<1>2. cmd.cmd \in {"Bytes", "Redraw", "Forward", "Foreground", "Eof"}
  BY DEF Cmd, Redraw, Forward, Eof, Bytes, Foreground
<1>3. CASE cmd.cmd = "Bytes"
  <2>1. PICK a : a = Observe(term.act, cmd.chunk)
    OBVIOUS
  <2>2. PICK t : t = [term EXCEPT !.act = a]
    OBVIOUS
  <2>3. Handled(cmd) = Drawn(t)
    BY <1>3, <2>1, <2>2 DEF Handled
  <2>4. Fields(t) /\ t.phase = term.phase /\ t.quiet = term.quiet
    BY <1>1, <2>2, ActKeeps
  <2> QED
    BY <1>3, <2>3, <2>4, DrawnKeeps
<1>4. CASE cmd.cmd = "Redraw"
  BY <1>1, <1>4, DrawnKeeps DEF Handled
<1>5. CASE cmd.cmd = "Forward"
  BY <1>1, <1>5 DEF Handled
<1>6. CASE cmd.cmd = "Foreground"
  <2>1. PICK a : a = Poll(term.act, cmd.status)
    OBVIOUS
  <2>2. Handled(cmd) = [term EXCEPT !.act = a]
    BY <1>6, <2>1 DEF Handled
  <2> QED
    BY <1>1, <1>6, <2>2, ActKeeps
<1>7. CASE cmd.cmd = "Eof"
  <2>1. Handled(cmd) = [term EXCEPT !.phase = "drain"]
    BY <1>7 DEF Handled
  <2> QED
    BY <1>1, <1>7, <2>1 DEF Fields
<1> QED
  BY <1>2, <1>3, <1>4, <1>5, <1>6, <1>7

-----------------------------------------------------------------------------
(***************************************************************************)
(* Every step keeps the invariant.                                         *)
(***************************************************************************)

LEMMA InitInv == Init => Inv
<1> SUFFICES ASSUME Init PROVE Inv
  OBVIOUS
<1>1. output = <<>> /\ ctrl = <<>> /\ waiter = "waiting" /\ alive = TRUE
  BY DEF Init
<1>2. Fields(term) /\ term.phase = "loop" /\ term.quiet = EofQuiet
  BY DEF Init, Fields
<1>3. told = [status |-> told.status, over |-> told.over] /\ told.over = FALSE
  BY DEF Init
<1>4. <<>> \in Seq(Chunks) /\ <<>> \in Seq(Cmd) /\ Len(<<>>) = 0
  OBVIOUS
<1>5. Typed
  BY <1>1, <1>2, <1>3, <1>4, SessionAssumption DEF Typed
<1>6. Announced(ctrl, waiter)
  BY <1>1, <1>4 DEF Announced
<1>7. Ordered
  BY <1>1, <1>2, <1>3, <1>6, SessionAssumption DEF Ordered
<1> QED
  BY <1>5, <1>7 DEF Inv

LEMMA WriteInv ==
  ASSUME Inv, NEW chunk \in Chunks, Write(chunk)
  PROVE  Inv'
<1>1. waiter # "done" /\ term.phase = "loop" /\ term.quiet >= EofQuiet
  BY SessionAssumption DEF Inv, Typed, Ordered, Write
<1>2. output' \in Seq(Chunks)
  BY AppendProperties DEF Inv, Typed, Write
<1>3. UNCHANGED <<alive, waiter, ctrl, term, told>>
  BY DEF Write
<1> QED
  BY <1>1, <1>2, <1>3, SessionAssumption DEF Inv, Typed, Ordered

LEMMA ChildExitInv == ASSUME Inv, ChildExit PROVE Inv'
BY DEF Inv, Typed, Ordered, ChildExit, Announced, Fields

LEMMA HostInv == ASSUME Inv, Host \/ Kill PROVE Inv'
<1>1. UNCHANGED <<alive, output, waiter, ctrl, term, told>>
  BY DEF Host, Kill, process
<1> QED
  BY <1>1 DEF Inv, Typed, Ordered

LEMMA CommandInv ==
  ASSUME Inv, NEW cmd \in {Redraw, Forward}, Command(cmd)
  PROVE  Inv'
<1>1. UNCHANGED <<alive, output, waiter, term, told>> /\ Send(cmd)
  BY DEF Command, process
<1>2. cmd \in Cmd /\ cmd.cmd # "Eof"
  BY CmdKinds
<1>3. /\ ctrl' \in Seq(Cmd)
      /\ Announced(ctrl', waiter)
      /\ term.phase = "done" => ctrl' = <<>>
  BY <1>1, <1>2, SendKeeps
<1> QED
  BY <1>1, <1>3 DEF Inv, Typed, Ordered

LEMMA ReadInv == ASSUME Inv, Read PROVE Inv'
<1>1. UNCHANGED <<alive, waiter, term, told>> /\ Send(Bytes(Head(output)))
  BY DEF Read
<1>2. output \in Seq(Chunks) /\ output # <<>> /\ output' = Tail(output)
  BY DEF Read, Inv, Typed
<1>3. Head(output) \in Chunks /\ Tail(output) \in Seq(Chunks)
  BY <1>2, HeadTailProperties
<1>4. Bytes(Head(output)) \in Cmd /\ Bytes(Head(output)).cmd # "Eof"
  BY <1>3, CmdKinds
<1>5. ctrl' \in Seq(Cmd) /\ Announced(ctrl', waiter)
  BY <1>1, <1>4, SendKeeps
<1>6. ~(term.quiet < EofQuiet) /\ term.phase # "done"
  BY <1>2 DEF Inv, Ordered
<1> QED
  BY <1>1, <1>2, <1>3, <1>5, <1>6 DEF Inv, Typed, Ordered

LEMMA WaitInv == ASSUME Inv, Wait PROVE Inv'
<1>1. UNCHANGED <<alive, output, term, told>> /\ Send(Eof) /\ waiter' = "done" /\ ~alive
  BY DEF Wait, process
<1>2. Eof \in Cmd
  BY CmdKinds
<1>3. /\ ctrl' \in Seq(Cmd)
      /\ Announced(ctrl', "done")
      /\ term.phase = "done" => ctrl' = <<>>
  BY <1>1, <1>2, SendKeeps
<1> QED
  BY <1>1, <1>3 DEF Inv, Typed, Ordered

LEMMA WatchInv == ASSUME Inv, Watch PROVE Inv'
<1>1. UNCHANGED <<alive, output, waiter, term, told>>
  BY DEF Watch, process
<1>2. PICK status \in {"Idle", "Busy", "unknown"} : Send(Foreground(status))
  BY DEF Watch, Reading
<1>3. Foreground(status) \in Cmd /\ Foreground(status).cmd # "Eof"
  BY CmdKinds
<1>4. /\ ctrl' \in Seq(Cmd)
      /\ Announced(ctrl', waiter)
      /\ term.phase = "done" => ctrl' = <<>>
  BY <1>2, <1>3, SendKeeps
<1> QED
  BY <1>1, <1>4 DEF Inv, Typed, Ordered

(* A step of the terminal thread that leaves its phase and its wait alone. *)
LEMMA SamePhase ==
  ASSUME Inv, UNCHANGED <<alive, output, waiter, ctrl>>,
         Fields(term'), term'.phase = term.phase, term'.quiet = term.quiet,
         told' = told \/ \E status : told' = [told EXCEPT !.status = status]
  PROVE  Inv'
<1>1. told'.over = told.over /\ told' = [status |-> told'.status, over |-> told'.over]
  BY DEF Inv, Typed
<1> QED
  BY <1>1 DEF Inv, Typed, Ordered

LEMMA SettleHeldInv == ASSUME Inv, SettleHeld PROVE Inv'
<1>1. PICK a : a = Settle(term.act)
  OBVIOUS
<1>2. term' = [term EXCEPT !.act = a] /\ told' = [told EXCEPT !.status = a.status]
  BY <1>1 DEF SettleHeld, Told
<1>3. Fields(term') /\ term'.phase = term.phase /\ term'.quiet = term.quiet
  BY <1>2, ActKeeps DEF Inv, Typed
<1>4. UNCHANGED <<alive, output, waiter, ctrl>>
  BY DEF SettleHeld, process
<1> QED
  BY <1>2, <1>3, <1>4, SamePhase

LEMMA FlushInv == ASSUME Inv, Flush PROVE Inv'
<1>1. Fields(term') /\ term'.phase = term.phase /\ term'.quiet = term.quiet
  BY DrawnKeeps DEF Flush, Inv, Typed
<1>2. UNCHANGED <<alive, output, waiter, ctrl, told>>
  BY DEF Flush, process
<1> QED
  BY <1>1, <1>2, SamePhase

LEMMA HandleInv == ASSUME Inv, Handle PROVE Inv'
<1>1. PICK cmd \in Cmd : cmd = Head(ctrl)
  BY TailKeeps DEF Handle
<1>2. /\ UNCHANGED <<alive, output, waiter>>
      /\ term' = Handled(cmd) /\ ctrl' = Tail(ctrl) /\ ctrl # <<>>
      /\ told' = [told EXCEPT !.status = term'.act.status]
      /\ term.phase = "loop"
  BY <1>1 DEF Handle, Told, process
<1>3. /\ ctrl' \in Seq(Cmd) /\ Announced(ctrl', waiter)
      /\ cmd.cmd = "Eof" => waiter = "done"
  BY <1>1, <1>2, TailKeeps
<1>4. /\ Fields(term') /\ term'.quiet = term.quiet
      /\ term'.phase = IF cmd.cmd = "Eof" THEN "drain" ELSE "loop"
  BY <1>2, HandledKeeps
<1>5. told'.over = told.over /\ told' = [status |-> told'.status, over |-> told'.over]
  BY <1>2 DEF Inv, Typed
<1>6. term.quiet >= EofQuiet /\ ~told.over
  BY <1>2, SessionAssumption DEF Inv, Typed, Ordered
<1> QED
  BY <1>2, <1>3, <1>4, <1>5, <1>6, SessionAssumption DEF Inv, Typed, Ordered

LEMMA DrainInv == ASSUME Inv, Drain PROVE Inv'
<1>1. UNCHANGED <<alive, output, waiter, told>> /\ ctrl # <<>> /\ ctrl' = Tail(ctrl)
  BY DEF Drain, process
<1>2. ctrl' \in Seq(Cmd) /\ Announced(ctrl', waiter)
  BY <1>1, TailKeeps
<1>3. Fields(term') /\ term'.phase = "drain" /\ term'.quiet = EofQuiet /\ term.phase = "drain"
  BY DEF Drain, Inv, Typed, Fields
<1> QED
  BY <1>1, <1>2, <1>3, SessionAssumption DEF Inv, Typed, Ordered

(* The quiet ran out, so the reader had nothing left. *)
LEMMA FinishInv == ASSUME Inv, Finish PROVE Inv'
<1>1. /\ UNCHANGED <<alive, output, waiter, ctrl>>
      /\ ctrl = <<>> /\ term.phase = "drain" /\ term.quiet = 0
  BY DEF Finish, process
<1>2. /\ Fields(term') /\ term'.phase = "done" /\ term'.quiet = term.quiet
      /\ told' = [status |-> told'.status, over |-> told'.over] /\ told'.over
  BY DEF Finish, Inv, Typed, Fields
<1>3. output = <<>>
  BY <1>1, SessionAssumption DEF Inv, Ordered
<1> QED
  BY <1>1, <1>2, <1>3 DEF Inv, Typed, Ordered

(* Time counts towards the quiet only with nothing left to read. *)
LEMMA TickInv == ASSUME Inv, Tick PROVE Inv'
<1>1. UNCHANGED <<alive, output, waiter, ctrl, told>> /\ output = <<>>
  BY DEF Tick, process
<1>2. PICK due :
        term' = [phase |-> term.phase, act |-> due, unsent |-> term.unsent, fresh |-> FALSE,
                 quiet |-> IF term.phase = "drain" /\ ctrl = <<>>
                           THEN Less(term.quiet) ELSE term.quiet]
  BY DEF Tick, Inv, Typed, Fields
<1>3. Fields(term') /\ term'.phase = term.phase
  BY <1>2 DEF Fields
<1>4. term'.quiet = IF term.phase = "drain" /\ ctrl = <<>> THEN Less(term.quiet) ELSE term.quiet
  BY <1>2
<1>5. term'.quiet \in 0 .. EofQuiet
  BY <1>4, SessionAssumption DEF Less, Inv, Typed
<1>6. term'.quiet < EofQuiet => term.phase # "loop"
  BY <1>4 DEF Inv, Ordered
<1> QED
  BY <1>1, <1>3, <1>5, <1>6 DEF Inv, Typed, Ordered

LEMMA NextInv == Inv /\ [Next]_vars => Inv'
<1> SUFFICES ASSUME Inv, [Next]_vars PROVE Inv'
  OBVIOUS
<1>1. ASSUME NEW chunk \in Chunks, Write(chunk) PROVE Inv'
  BY <1>1, WriteInv
<1>2. ASSUME NEW cmd \in {Redraw, Forward}, Command(cmd) PROVE Inv'
  BY <1>2, CommandInv
<1>3. CASE ChildExit
  BY <1>3, ChildExitInv
<1>4. CASE Host \/ Kill
  BY <1>4, HostInv
<1>5. CASE Read
  BY <1>5, ReadInv
<1>6. CASE Wait
  BY <1>6, WaitInv
<1>7. CASE Watch
  BY <1>7, WatchInv
<1>8. CASE Terminal
  BY <1>8, SettleHeldInv, FlushInv, HandleInv, DrainInv, FinishInv DEF Terminal
<1>9. CASE Tick
  BY <1>9, TickInv
<1>10. CASE UNCHANGED vars
  BY <1>10 DEF vars, Inv, Typed, Ordered
<1> QED
  BY <1>1, <1>2, <1>3, <1>4, <1>5, <1>6, <1>7, <1>8, <1>9, <1>10 DEF Next

LEMMA Invariance == Spec => []Inv
<1> QED
  BY InitInv, NextInv, PTL DEF Spec

-----------------------------------------------------------------------------
(***************************************************************************)
(* Folds.  A fold over a sequence is a function defined by recursion on    *)
(* the subsets of its domain.  That such a function exists is proved here  *)
(* by induction on the domain's length, the intervals 1 .. n being well    *)
(* founded under inclusion.                                                *)
(***************************************************************************)

(* Any nonempty set of naturals has a least element. *)
LEMMA Least ==
  ASSUME NEW T, T \subseteq Nat, T # {}
  PROVE  \E x \in T : \A y \in T : x <= y
<1>1. PICK U : U = {1 .. n : n \in T}
  OBVIOUS
<1>2. U \subseteq FiniteSubsetsOf(Nat) /\ U # {}
  <2>1. ASSUME NEW n \in T PROVE 1 .. n \in SUBSET Nat /\ IsFiniteSet(1 .. n)
    <3>1. n \in Int /\ 1 \in Int
      OBVIOUS
    <3> QED
      BY <3>1, FS_Interval
  <2> QED
    BY <1>1, <2>1 DEF FiniteSubsetsOf
<1>3. PICK R : R = StrictSubsetOrdering(Nat)
  OBVIOUS
<1>4. IsWellFoundedOn(R, FiniteSubsetsOf(Nat))
  BY <1>3, FS_StrictSubsetOrderingWellFounded
<1>5. PICK I \in U : \A J \in U : ~ (<<J, I>> \in R)
  BY <1>2, <1>4, WFMin
<1>6. PICK x \in T : I = 1 .. x
  BY <1>1, <1>5
<1>7. ASSUME NEW y \in T, y < x PROVE FALSE
  <2>1. 1 .. y \in U
    BY <1>1
  <2>2. 1 .. y \subseteq 1 .. x /\ x \in 1 .. x /\ x \notin 1 .. y /\ 1 .. x \subseteq Nat
    BY <1>7
  <2>3. <<1 .. y, 1 .. x>> \in R
    BY <1>3, <2>2 DEF StrictSubsetOrdering
  <2> QED
    BY <1>5, <1>6, <2>1, <2>3
<1> QED
  BY <1>7

(* Induction up to n, over the set of the numbers a fact holds for. *)
LEMMA Reaches ==
  ASSUME NEW n \in Nat, NEW H, 0 \in H,
         \A k \in 1 .. n : k - 1 \in H => k \in H
  PROVE  0 .. n \subseteq H
<1>1. PICK T : T = (0 .. n) \ H
  OBVIOUS
<1>2. ASSUME T # {} PROVE FALSE
  <2> T \subseteq Nat
    BY <1>1
  <2>1. PICK k \in T : \A j \in T : k <= j
    BY <1>2, Least
  <2>2. k \in 1 .. n /\ k - 1 \in 0 .. n /\ k - 1 < k
    BY <1>1, <2>1
  <2>3. k - 1 \notin T
    BY <2>1, <2>2
  <2> QED
    BY <1>1, <2>1, <2>2, <2>3
<1> QED
  BY <1>1, <1>2

(* The function a fold is defined by: from its value at all but the greatest
   element of s, its value at s. *)
FoldsBy(f, n, b, step) ==
  \A s \in SUBSET (1 .. n) : f[s] = IF s = {} THEN b ELSE step[<<f[s \ {Max(s)}], s>>]

(* The greatest element of a set of numbers up to k that has k. *)
LEMMA Top ==
  ASSUME NEW k \in Nat \ {0}, NEW s \in SUBSET (1 .. k), k \in s
  PROVE  Max(s) = k
<1>1. \A y \in s : k >= y
  OBVIOUS
<1>2. Max(s) \in s /\ \A y \in s : Max(s) >= y
  BY <1>1, Zenon DEF Max
<1>3. Max(s) \in 1 .. k /\ Max(s) >= k
  BY <1>2
<1> QED
  BY <1>3

(* The function a fold is defined by exists, one interval longer at a time. *)
LEMMA Recursion ==
  ASSUME NEW V, NEW b \in V, NEW n \in Nat, NEW step \in [V \X SUBSET (1 .. n) -> V]
  PROVE  \E f \in [SUBSET (1 .. n) -> V] : FoldsBy(f, n, b, step)
<1>1. PICK H : H = {k \in 0 .. n : \E f \in [SUBSET (1 .. k) -> V] : FoldsBy(f, k, b, step)}
  OBVIOUS
<1>2. 0 \in H
  <2>1. PICK f : f = [s \in SUBSET (1 .. 0) |-> b]
    OBVIOUS
  <2>2. \A s \in SUBSET (1 .. 0) : s = {} /\ f[s] = b
    BY <2>1
  <2>3. FoldsBy(f, 0, b, step)
    BY <2>2 DEF FoldsBy
  <2>4. f \in [SUBSET (1 .. 0) -> V] /\ 0 \in 0 .. n
    BY <2>1
  <2> QED
    BY <1>1, <2>3, <2>4
<1>3. ASSUME NEW k \in 1 .. n, k - 1 \in H PROVE k \in H
  <2>1. PICK f \in [SUBSET (1 .. (k - 1)) -> V] : FoldsBy(f, k - 1, b, step)
    BY <1>1, <1>3
  <2>2. PICK g : g = [s \in SUBSET (1 .. k) |->
                        IF k \in s THEN step[<<f[s \ {k}], s>>] ELSE f[s]]
    OBVIOUS
  <2>3. \A s \in SUBSET (1 .. k) : s \ {k} \in SUBSET (1 .. (k - 1))
    OBVIOUS
  <2>4. \A s \in SUBSET (1 .. k) : k \notin s => s \in SUBSET (1 .. (k - 1))
    BY <2>3
  <2>5. \A s \in SUBSET (1 .. (k - 1)) : s \in SUBSET (1 .. k) /\ k \notin s
    OBVIOUS
  <2>6. \A s \in SUBSET (1 .. (k - 1)) : g[s] = f[s]
    BY <2>2, <2>5
  <2>7. ASSUME NEW s \in SUBSET (1 .. k) PROVE g[s] \in V
    <3>1. CASE k \in s
      <4>1. f[s \ {k}] \in V
        BY <2>1, <2>3
      <4>2. s \in SUBSET (1 .. n)
        OBVIOUS
      <4> QED
        BY <2>2, <3>1, <4>1, <4>2
    <3>2. CASE k \notin s
      BY <2>1, <2>2, <2>4, <3>2
    <3> QED
      BY <3>1, <3>2
  <2>8. g \in [SUBSET (1 .. k) -> V]
    BY <2>2, <2>7
  <2>9. ASSUME NEW s \in SUBSET (1 .. k)
        PROVE  g[s] = IF s = {} THEN b ELSE step[<<g[s \ {Max(s)}], s>>]
    <3>1. CASE k \in s
      <4>1. Max(s) = k
        BY <3>1, Top
      <4>2. g[s \ {k}] = f[s \ {k}]
        BY <2>3, <2>6
      <4> QED
        BY <2>2, <3>1, <4>1, <4>2
    <3>2. CASE k \notin s
      <4>1. s \in SUBSET (1 .. (k - 1)) /\ s \ {Max(s)} \in SUBSET (1 .. (k - 1))
        BY <2>4, <3>2
      <4>2. f[s] = IF s = {} THEN b ELSE step[<<f[s \ {Max(s)}], s>>]
        BY <2>1, <4>1 DEF FoldsBy
      <4> QED
        BY <2>6, <4>1, <4>2
    <3> QED
      BY <3>1, <3>2
  <2>10. FoldsBy(g, k, b, step)
    BY <2>9 DEF FoldsBy
  <2> QED
    BY <1>1, <2>8, <2>10
<1>4. 0 .. n \subseteq H
  BY <1>2, <1>3, Reaches
<1>5. n \in H
  BY <1>4
<1> QED
  BY <1>1, <1>5

(* Up the intervals, the recursion takes one element at a time. *)
LEMMA Unrolled ==
  ASSUME NEW n \in Nat, NEW k \in 1 .. n
  PROVE  /\ 1 .. k \in SUBSET (1 .. n) /\ 1 .. k # {}
         /\ Max(1 .. k) = k
         /\ (1 .. k) \ {k} = 1 .. (k - 1)
<1>1. 1 .. k \in SUBSET (1 .. n) /\ k \in 1 .. k /\ k \in Nat \ {0} /\ 1 .. k \in SUBSET (1 .. k)
  OBVIOUS
<1>2. Max(1 .. k) = k
  BY <1>1, Top
<1> QED
  BY <1>1, <1>2

-----------------------------------------------------------------------------
(***************************************************************************)
(* What a chunk of output makes of the status.                             *)
(***************************************************************************)

Status == Known \cup {"Starting"}

(* h are the statuses on the way through a chunk's marks, from b to r. *)
MarkSteps(h, b, seq, n, r) ==
  /\ h[0] = b
  /\ h[n] = r
  /\ \A k \in 1 .. n : h[k] = FoldMark(h[k - 1], seq[k])

(* The fold of the marks is where such statuses end. *)
LEMMA MarkByMark ==
  ASSUME NEW b \in Status, NEW seq, NEW n \in Nat, DOMAIN seq = 1 .. n,
         NEW r, r = FoldLeft(FoldMark, b, seq)
  PROVE  \E h : MarkSteps(h, b, seq, n, r)
<1>1. PICK step : step = [p \in Status \X SUBSET (1 .. n) |-> FoldMark(p[1], seq[Max(p[2])])]
  OBVIOUS
<1>2. ASSUME NEW s \in Status, NEW m PROVE FoldMark(s, m) \in Status
  BY DEF FoldMark, Status, Known
<1>3. step \in [Status \X SUBSET (1 .. n) -> Status]
  BY <1>1, <1>2
<1>4. PICK f \in [SUBSET (1 .. n) -> Status] : FoldsBy(f, n, b, step)
  BY <1>3, Recursion
<1>5. ASSUME NEW s \in SUBSET (1 .. n)
      PROVE  f[s] = IF s = {} THEN b ELSE FoldMark(f[s \ {Max(s)}], seq[Max(s)])
  <2>1. f[s] = IF s = {} THEN b ELSE step[<<f[s \ {Max(s)}], s>>]
    BY <1>4 DEF FoldsBy
  <2>2. f[s \ {Max(s)}] \in Status
    BY <1>4
  <2>3. step[<<f[s \ {Max(s)}], s>>] = FoldMark(f[s \ {Max(s)}], seq[Max(s)])
    BY <1>1, <2>2
  <2> QED
    BY <2>1, <2>3
<1>6. f = [s \in SUBSET DOMAIN seq |-> IF s = {} THEN b ELSE FoldMark(f[s \ {Max(s)}], seq[Max(s)])]
  BY <1>4, <1>5
<1>7. PICK iter : iter = CHOOSE g : g =
                    [s \in SUBSET DOMAIN seq |-> IF s = {} THEN b
                                                 ELSE FoldMark(g[s \ {Max(s)}], seq[Max(s)])]
  OBVIOUS
<1>8. iter = [s \in SUBSET DOMAIN seq |-> IF s = {} THEN b
                                          ELSE FoldMark(iter[s \ {Max(s)}], seq[Max(s)])]
  BY <1>6, <1>7, Zenon
<1>9. FoldLeft(FoldMark, b, seq) = iter[DOMAIN seq]
  BY <1>7, Zenon DEF FoldLeft, MapThenFoldSet
<1>10. PICK h : h = [k \in 0 .. n |-> iter[1 .. k]]
  OBVIOUS
<1>11. h[0] = b
  <2>1. iter[{}] = b
    BY <1>8
  <2>2. 1 .. 0 = {} /\ 0 \in 0 .. n
    OBVIOUS
  <2> QED
    BY <1>10, <2>1, <2>2
<1>12. h[n] = r
  BY <1>9, <1>10
<1>13. ASSUME NEW k \in 1 .. n PROVE h[k] = FoldMark(h[k - 1], seq[k])
  <2>1. iter[1 .. k] = FoldMark(iter[(1 .. k) \ {Max(1 .. k)}], seq[Max(1 .. k)])
    BY <1>8, Unrolled
  <2>2. h[k] = iter[1 .. k] /\ h[k - 1] = iter[1 .. (k - 1)]
    BY <1>10
  <2> QED
    BY <2>1, <2>2, Unrolled
<1> QED
  BY <1>11, <1>12, <1>13 DEF MarkSteps

(* h are the statuses on the way through a chunk's signals, from b to r. *)
SignalSteps(h, b, seq, n, r) ==
  /\ h[0] = b
  /\ h[n] = r
  /\ \A k \in 1 .. n : h[k] = FoldSignal(h[k - 1], seq[k])

(* The fold of the signals is where such statuses end. *)
LEMMA SignalBySignal ==
  ASSUME NEW b \in Status, NEW seq, NEW n \in Nat, DOMAIN seq = 1 .. n,
         NEW r, r = FoldLeft(FoldSignal, b, seq)
  PROVE  \E h : SignalSteps(h, b, seq, n, r)
<1>1. PICK step : step = [p \in Status \X SUBSET (1 .. n) |-> FoldSignal(p[1], seq[Max(p[2])])]
  OBVIOUS
<1>2. ASSUME NEW s \in Status, NEW m PROVE FoldSignal(s, m) \in Status
  BY DEF FoldSignal, Status, Known
<1>3. step \in [Status \X SUBSET (1 .. n) -> Status]
  BY <1>1, <1>2
<1>4. PICK f \in [SUBSET (1 .. n) -> Status] : FoldsBy(f, n, b, step)
  BY <1>3, Recursion
<1>5. ASSUME NEW s \in SUBSET (1 .. n)
      PROVE  f[s] = IF s = {} THEN b ELSE FoldSignal(f[s \ {Max(s)}], seq[Max(s)])
  <2>1. f[s] = IF s = {} THEN b ELSE step[<<f[s \ {Max(s)}], s>>]
    BY <1>4 DEF FoldsBy
  <2>2. f[s \ {Max(s)}] \in Status
    BY <1>4
  <2>3. step[<<f[s \ {Max(s)}], s>>] = FoldSignal(f[s \ {Max(s)}], seq[Max(s)])
    BY <1>1, <2>2
  <2> QED
    BY <2>1, <2>3
<1>6. f = [s \in SUBSET DOMAIN seq |-> IF s = {} THEN b ELSE FoldSignal(f[s \ {Max(s)}], seq[Max(s)])]
  BY <1>4, <1>5
<1>7. PICK iter : iter = CHOOSE g : g =
                    [s \in SUBSET DOMAIN seq |-> IF s = {} THEN b
                                                 ELSE FoldSignal(g[s \ {Max(s)}], seq[Max(s)])]
  OBVIOUS
<1>8. iter = [s \in SUBSET DOMAIN seq |-> IF s = {} THEN b
                                          ELSE FoldSignal(iter[s \ {Max(s)}], seq[Max(s)])]
  BY <1>6, <1>7, Zenon
<1>9. FoldLeft(FoldSignal, b, seq) = iter[DOMAIN seq]
  BY <1>7, Zenon DEF FoldLeft, MapThenFoldSet
<1>10. PICK h : h = [k \in 0 .. n |-> iter[1 .. k]]
  OBVIOUS
<1>11. h[0] = b
  <2>1. iter[{}] = b
    BY <1>8
  <2>2. 1 .. 0 = {} /\ 0 \in 0 .. n
    OBVIOUS
  <2> QED
    BY <1>10, <2>1, <2>2
<1>12. h[n] = r
  BY <1>9, <1>10
<1>13. ASSUME NEW k \in 1 .. n PROVE h[k] = FoldSignal(h[k - 1], seq[k])
  <2>1. iter[1 .. k] = FoldSignal(iter[(1 .. k) \ {Max(1 .. k)}], seq[Max(1 .. k)])
    BY <1>8, Unrolled
  <2>2. h[k] = iter[1 .. k] /\ h[k - 1] = iter[1 .. (k - 1)]
    BY <1>10
  <2> QED
    BY <2>1, <2>2, Unrolled
<1> QED
  BY <1>11, <1>12, <1>13 DEF SignalSteps

(* A request for attention outlives the marks of a prompt. *)
LEMMA MarksKeep ==
  ASSUME NEW b \in Status, NEW marks \in Seq(Mark), NEW r, r = FoldLeft(FoldMark, b, marks)
  PROVE  /\ r \in Status
         /\ marks = <<>> => r = b
         /\ b = "Attention" /\ "Running" \notin Range(marks) => r = "Attention"
<1>1. PICK n \in Nat : n = Len(marks) /\ DOMAIN marks = 1 .. n
  OBVIOUS
<1>2. PICK h : MarkSteps(h, b, marks, n, r)
  BY <1>1, MarkByMark
<1>3. PICK H : H = {k \in 0 .. n :
                      /\ h[k] \in Status
                      /\ b = "Attention" /\ "Running" \notin Range(marks) => h[k] = "Attention"}
  OBVIOUS
<1>4. 0 \in H
  BY <1>2, <1>3 DEF MarkSteps
<1>5. ASSUME NEW k \in 1 .. n, k - 1 \in H PROVE k \in H
  <2>1. PICK s : s = h[k - 1]
    OBVIOUS
  <2>2. PICK m : m = marks[k]
    OBVIOUS
  <2>3. m \in Range(marks) /\ h[k] = FoldMark(s, m) /\ k \in 0 .. n
    BY <1>1, <1>2, <2>1, <2>2 DEF Range, MarkSteps
  <2>4. s \in Status /\ (b = "Attention" /\ "Running" \notin Range(marks) => s = "Attention")
    BY <1>3, <1>5, <2>1
  <2>5. FoldMark(s, m) \in Status
    BY <2>4 DEF FoldMark, Status, Known
  <2>6. s = "Attention" /\ m # "Running" => FoldMark(s, m) = "Attention"
    BY DEF FoldMark
  <2> QED
    BY <1>3, <2>3, <2>4, <2>5, <2>6
<1>6. n \in H
  <2>1. 0 .. n \subseteq H
    BY <1>4, <1>5, Reaches
  <2> QED
    BY <2>1
<1>7. marks = <<>> => n = 0
  BY <1>1
<1> QED
  BY <1>2, <1>3, <1>6, <1>7 DEF MarkSteps

(* It outlives an idle title too; signals that say nothing leave any status. *)
LEMMA SignalsKeep ==
  ASSUME NEW b \in Status, NEW signals \in Seq(Signal), NEW r,
         r = FoldLeft(FoldSignal, b, signals)
  PROVE  /\ r \in Status
         /\ (\A i \in DOMAIN signals : signals[i] = "Other") => r = b
         /\ b = "Attention" /\ (\A i \in DOMAIN signals : signals[i] # "Busy") => r = "Attention"
<1>1. PICK n \in Nat : n = Len(signals) /\ DOMAIN signals = 1 .. n
  OBVIOUS
<1>2. PICK h : SignalSteps(h, b, signals, n, r)
  BY <1>1, SignalBySignal
<1>3. PICK H : H = {k \in 0 .. n :
                      /\ h[k] \in Status
                      /\ (\A i \in DOMAIN signals : signals[i] = "Other") => h[k] = b
                      /\ b = "Attention" /\ (\A i \in DOMAIN signals : signals[i] # "Busy")
                           => h[k] = "Attention"}
  OBVIOUS
<1>4. 0 \in H
  BY <1>2, <1>3 DEF SignalSteps
<1>5. ASSUME NEW k \in 1 .. n, k - 1 \in H PROVE k \in H
  <2>1. PICK s : s = h[k - 1]
    OBVIOUS
  <2>2. PICK m : m = signals[k]
    OBVIOUS
  <2>3. k \in DOMAIN signals /\ h[k] = FoldSignal(s, m) /\ k \in 0 .. n
    BY <1>1, <1>2, <2>1, <2>2 DEF SignalSteps
  <2>4. /\ s \in Status
        /\ (\A i \in DOMAIN signals : signals[i] = "Other") => s = b
        /\ b = "Attention" /\ (\A i \in DOMAIN signals : signals[i] # "Busy") => s = "Attention"
    BY <1>3, <1>5, <2>1
  <2>5. FoldSignal(s, m) \in Status
    BY <2>4 DEF FoldSignal, Status, Known
  <2>6. /\ m = "Other" => FoldSignal(s, m) = s
        /\ s = "Attention" /\ m # "Busy" => FoldSignal(s, m) = "Attention"
    BY DEF FoldSignal
  <2> QED
    BY <1>3, <2>2, <2>3, <2>4, <2>5, <2>6
<1>6. n \in H
  <2>1. 0 .. n \subseteq H
    BY <1>4, <1>5, Reaches
  <2> QED
    BY <2>1
<1> QED
  BY <1>2, <1>3, <1>6 DEF SignalSteps

(* Both folds, one after the other: output that says nothing changes nothing, and
   only work takes back a request for attention. *)
LEMMA FoldedKeeps ==
  ASSUME NEW a, Underlying(a) \in Status, NEW chunk \in Chunk
  PROVE  /\ Folded(a, chunk) \in Status
         /\ ~Classifies(chunk) => Folded(a, chunk) = Underlying(a)
         /\ /\ Underlying(a) = "Attention"
            /\ ~Worked(chunk)
            /\ "Running" \notin Range(chunk.marks)
            => Folded(a, chunk) = "Attention"
<1>1. chunk.marks \in Seq(Mark) /\ chunk.signals \in Seq(Signal)
  BY DEF Chunk
<1>2. PICK m : m = FoldLeft(FoldMark, Underlying(a), chunk.marks)
  OBVIOUS
<1>3. /\ m \in Status
      /\ chunk.marks = <<>> => m = Underlying(a)
      /\ Underlying(a) = "Attention" /\ "Running" \notin Range(chunk.marks) => m = "Attention"
  BY <1>1, <1>2, MarksKeep
<1>4. PICK r : r = FoldLeft(FoldSignal, m, chunk.signals)
  OBVIOUS
<1>5. /\ r \in Status
      /\ (\A i \in DOMAIN chunk.signals : chunk.signals[i] = "Other") => r = m
      /\ m = "Attention" /\ (\A i \in DOMAIN chunk.signals : chunk.signals[i] # "Busy")
           => r = "Attention"
  BY <1>1, <1>3, <1>4, SignalsKeep
<1>6. Folded(a, chunk) = r
  BY <1>2, <1>4 DEF Folded
<1> QED
  BY <1>3, <1>5, <1>6 DEF Classifies, Worked

-----------------------------------------------------------------------------
(***************************************************************************)
(* The activity.  An idle is held over a busy status only, one that the    *)
(* terminal gave itself, and what is left of the hold is covered by the    *)
(* time no work was seen.                                                  *)
(***************************************************************************)

Active(a, c) ==
  /\ a = [status |-> a.status, selfReported |-> a.selfReported, due |-> a.due]
  /\ a.status \in Status /\ a.selfReported \in BOOLEAN /\ a.due \in NoHold .. IdleHold
  /\ a.due # NoHold => a.status = "Busy" /\ a.selfReported /\ c + a.due >= IdleHold
  /\ a.status = "Attention" => a.selfReported

(* A chunk that shows work starts the calm anew and any hold with it; one that shows
   none leaves a hold what it was; and an idle that follows a busy status at once was
   a mark's. *)
LEMMA ObserveKeeps ==
  ASSUME NEW a, NEW c \in Nat, Active(a, c), NEW chunk \in Chunk, NEW d \in Nat,
         d = IF Works(Bytes(chunk)) THEN 0 ELSE c
  PROVE  /\ Active(Observe(a, chunk), d)
         /\ a.status = "Attention" => Observe(a, chunk).status = "Attention" \/ d = 0
         /\ a.status = "Busy" /\ Observe(a, chunk).status = "Idle" => chunk.marks # <<>>
<1>1. /\ a.status \in Status /\ a.selfReported \in BOOLEAN /\ a.due \in NoHold .. IdleHold
      /\ a.due # NoHold => a.status = "Busy" /\ a.selfReported /\ c + a.due >= IdleHold
      /\ a.status = "Attention" => a.selfReported
  BY DEF Active
<1>2. PICK u : u = Underlying(a)
  OBVIOUS
<1>3. u = (IF a.due = NoHold THEN a.status ELSE "Idle") /\ u \in Status
  BY <1>1, <1>2 DEF Underlying, Status, Known
<1>4. PICK f : f = Folded(a, chunk)
  OBVIOUS
<1>5. PICK says \in BOOLEAN : says <=> Classifies(chunk)
  OBVIOUS
<1>6. PICK worked \in BOOLEAN : worked <=> Worked(chunk)
  OBVIOUS
<1>7. PICK ran \in BOOLEAN : ran <=> "Running" \in Range(chunk.marks)
  OBVIOUS
<1>8. /\ f \in Status
      /\ ~says => f = u
      /\ u = "Attention" /\ ~worked /\ ~ran => f = "Attention"
  BY <1>2, <1>3, <1>4, <1>5, <1>6, <1>7, FoldedKeeps
<1>9. d = IF worked \/ ran THEN 0 ELSE c
  BY <1>6, <1>7 DEF Works, Bytes
<1>10. chunk.marks = <<>> => ~ran
  BY <1>7 DEF Range
<1>11. PICK hold : hold = HoldAfter(a, chunk)
  OBVIOUS
<1>12. hold = IF ~(chunk.marks = <<>> /\ a.status = "Busy" /\ f = "Idle") THEN NoHold
              ELSE IF a.due # NoHold /\ ~worked THEN a.due ELSE IdleHold
  BY <1>4, <1>6, <1>11 DEF HoldAfter
<1>13. NoHold = -1 /\ IdleHold \in Nat \ {0}
  BY HoldAssumption DEF NoHold
<1>14. PICK s : s = IF hold = NoHold THEN f ELSE a.status
  OBVIOUS
<1>15. PICK self \in BOOLEAN : self <=> (a.selfReported \/ says)
  OBVIOUS
<1>16. Observe(a, chunk) = [status |-> s, selfReported |-> self, due |-> hold]
  <2>1. self = (a.selfReported \/ Classifies(chunk))
    BY <1>1, <1>5, <1>15
  <2> QED
    BY <1>4, <1>11, <1>14, <2>1 DEF Observe
<1>17. hold \in NoHold .. IdleHold
  BY <1>1, <1>12, <1>13
<1>18. hold # NoHold => s = "Busy" /\ self /\ d + hold >= IdleHold
  BY <1>1, <1>3, <1>8, <1>9, <1>10, <1>12, <1>13, <1>14, <1>15
<1>19. s = "Attention" => self
  BY <1>1, <1>3, <1>8, <1>12, <1>14, <1>15
<1>20. s \in Status
  BY <1>1, <1>8, <1>14
<1>21. a.status = "Attention" => s = "Attention" \/ d = 0
  BY <1>1, <1>3, <1>8, <1>9, <1>14
<1>22. a.status = "Busy" /\ s = "Idle" => chunk.marks # <<>>
  BY <1>1, <1>12, <1>13, <1>14
<1>23. Active(Observe(a, chunk), d)
  BY <1>15, <1>16, <1>17, <1>18, <1>19, <1>20 DEF Active
<1> QED
  BY <1>16, <1>21, <1>22, <1>23

(* A poll stands in only for a terminal that never spoke, so not for one that asked
   for attention. *)
LEMMA PollKeeps ==
  ASSUME NEW a, NEW c \in Nat, Active(a, c), NEW status \in {"Idle", "Busy", "unknown"}
  PROVE  /\ Active(Poll(a, status), c)
         /\ a.status = "Attention" => Poll(a, status).status = "Attention"
<1>1. CASE status \in Known /\ ~a.selfReported
  <2>1. Poll(a, status) = [status |-> status, selfReported |-> a.selfReported, due |-> a.due]
    BY <1>1 DEF Poll, Active
  <2>2. status \in Status /\ status # "Attention"
    BY <1>1 DEF Status
  <2> QED
    BY <1>1, <2>1, <2>2 DEF Active
<1>2. CASE ~(status \in Known /\ ~a.selfReported)
  BY <1>2 DEF Poll
<1> QED
  BY <1>1, <1>2

(* A hold that is over has lasted its whole time, over a busy status. *)
LEMMA SettleKeeps ==
  ASSUME NEW a, NEW c \in Nat, Active(a, c), a.due = 0
  PROVE  /\ Active(Settle(a), c)
         /\ Settle(a).status = "Idle"
         /\ a.status = "Busy" /\ c >= IdleHold
<1>1. a.due # NoHold /\ NoHold = -1 /\ IdleHold \in Nat \ {0}
  BY HoldAssumption DEF NoHold
<1>2. Settle(a) = [status |-> "Idle", selfReported |-> a.selfReported, due |-> NoHold]
  <2>1. a = [status |-> a.status, selfReported |-> a.selfReported, due |-> a.due]
    BY DEF Active
  <2>2. PICK b : b = [a EXCEPT !.status = "Idle"]
    OBVIOUS
  <2>3. b = [status |-> "Idle", selfReported |-> a.selfReported, due |-> a.due]
    BY <2>1, <2>2
  <2>4. Settle(a) = [b EXCEPT !.due = NoHold]
    BY <2>2, Zenon DEF Settle
  <2> QED
    BY <2>3, <2>4
<1>3. a.status = "Busy" /\ c >= IdleHold
  BY <1>1 DEF Active
<1> QED
  BY <1>1, <1>2, <1>3 DEF Active, Status, Known

(* A tick shortens the hold by what it adds to the calm. *)
LEMMA LessKeeps ==
  ASSUME NEW a, NEW c \in 0 .. IdleHold, Active(a, c),
         NEW d, d = IF c < IdleHold THEN c + 1 ELSE c,
         NEW b, b = [status |-> a.status, selfReported |-> a.selfReported, due |-> Less(a.due)]
  PROVE  Active(b, d) /\ d \in 0 .. IdleHold
<1>1. NoHold = -1 /\ IdleHold \in Nat \ {0}
  BY HoldAssumption DEF NoHold
<1>2. PICK due : due = a.due
  OBVIOUS
<1>3. due \in -1 .. IdleHold /\ (due # -1 => c + due >= IdleHold)
  BY <1>1, <1>2 DEF Active
<1>4. PICK left : left = Less(due)
  OBVIOUS
<1>5. left = IF due > 0 THEN due - 1 ELSE due
  BY <1>4 DEF Less
<1>6. left \in -1 .. IdleHold /\ (left # -1 => due # -1 /\ d + left >= IdleHold)
  BY <1>1, <1>3, <1>5
<1>7. d \in 0 .. IdleHold
  BY <1>1
<1>8. b = [status |-> a.status, selfReported |-> a.selfReported, due |-> left]
  BY <1>2, <1>4
<1> QED
  BY <1>1, <1>2, <1>6, <1>7, <1>8 DEF Active

-----------------------------------------------------------------------------
(***************************************************************************)
(* The statuses told.                                                      *)
(***************************************************************************)

(* The runtime was told what the terminal thread knows, and the thread holds an
   idle no longer than work was seen. *)
Heard ==
  /\ TypeOK
  /\ Active(term.act, calm)
  /\ told.status = term.act.status
  /\ calm \in 0 .. IdleHold

(* What IdleStands and AttentionUntilWork say of one step. *)
IdleStep ==
  \/ calm >= IdleHold
  \/ ByMarkOrPoll
  \/ ~(told.status = "Busy" /\ told'.status = "Idle")

AttentionStep == told.status = "Attention" => told'.status = "Attention" \/ calm' = 0

Kept == Heard' /\ IdleStep /\ AttentionStep

(* TypeOK, field by field. *)
LEMMA Types ==
  ASSUME Fields(term), told = [status |-> told.status, over |-> told.over], Active(term.act, calm)
  PROVE  TypeOK <=> /\ alive \in BOOLEAN
                    /\ entry \in {"starting", "hosted", "removed"}
                    /\ waiter \in {"waiting", "done"}
                    /\ poll \in 0 .. ForegroundPoll
                    /\ term.phase \in {"loop", "drain", "done"}
                    /\ term.unsent \in BOOLEAN /\ term.fresh \in BOOLEAN
                    /\ term.quiet \in 0 .. EofQuiet
                    /\ told.status \in Status /\ told.over \in BOOLEAN
<1>1. PICK p, a, u, f, q : term = [phase |-> p, act |-> a, unsent |-> u, fresh |-> f, quiet |-> q]
  BY DEF Fields
<1>2. a \in [status : Known \cup {"Starting"}, selfReported : BOOLEAN, due : NoHold .. IdleHold]
  <2>1. Active(a, calm)
    BY <1>1
  <2>2. PICK s, r, d : a = [status |-> s, selfReported |-> r, due |-> d]
    BY <2>1 DEF Active
  <2> QED
    BY <2>1, <2>2 DEF Active, Status
<1>3. /\ term.phase = p /\ term.unsent = u /\ term.fresh = f /\ term.quiet = q
  BY <1>1
<1>4. (term \in [phase : {"loop", "drain", "done"},
                 act : [status : Known \cup {"Starting"}, selfReported : BOOLEAN,
                        due : NoHold .. IdleHold],
                 unsent : BOOLEAN, fresh : BOOLEAN, quiet : 0 .. EofQuiet])
      <=> /\ p \in {"loop", "drain", "done"}
          /\ u \in BOOLEAN /\ f \in BOOLEAN /\ q \in 0 .. EofQuiet
  BY <1>1, <1>2
<1>5. PICK s, o : told = [status |-> s, over |-> o]
  OBVIOUS
<1>6. (told \in [status : Known \cup {"Starting"}, over : BOOLEAN])
      <=> s \in Status /\ o \in BOOLEAN
  BY <1>5 DEF Status
<1> QED
  BY <1>3, <1>4, <1>5, <1>6 DEF TypeOK

(* The facts TypeOK rests on, given the form of the records. *)
Formed ==
  /\ alive \in BOOLEAN
  /\ entry \in {"starting", "hosted", "removed"}
  /\ waiter \in {"waiting", "done"}
  /\ poll \in 0 .. ForegroundPoll
  /\ term.phase \in {"loop", "drain", "done"}
  /\ term.unsent \in BOOLEAN /\ term.fresh \in BOOLEAN
  /\ told.over \in BOOLEAN

(* The parts of TypeOK a step preserves one by one. *)
LEMMA HeardHas ==
  ASSUME Inv, Heard
  PROVE  Formed
BY Types DEF Heard, Formed, Inv, Typed

(* What makes up Heard, once the records have their form. *)
Parts ==
  Inv /\ Formed /\ Active(term.act, calm) /\ told.status = term.act.status /\ calm \in 0 .. IdleHold

(* They make up Heard again. *)
LEMMA HeardFrom == Parts => Heard
<1> SUFFICES ASSUME Parts PROVE Heard
  OBVIOUS
<1>1. /\ Fields(term) /\ told = [status |-> told.status, over |-> told.over]
      /\ term.quiet \in 0 .. EofQuiet
  BY DEF Parts, Inv, Typed
<1>2. told.status \in Status
  BY DEF Parts, Active
<1> QED
  BY <1>1, <1>2, Types DEF Heard, Parts, Formed

(* The same of the state a step leads to. *)
LEMMA HeardNext == (Parts => Heard)'
BY HeardFrom, PTL

(* Nothing is known of the child at the start, and nothing is held. *)
LEMMA InitHeard == Init => Heard
<1> SUFFICES ASSUME Init PROVE Heard
  OBVIOUS
<1>1. Inv
  BY InitInv
<1>2. NoHold = -1 /\ IdleHold \in Nat \ {0} /\ ForegroundPoll \in Nat
  BY HoldAssumption, SessionAssumption DEF NoHold
<1>3. /\ term.act = [status |-> "Starting", selfReported |-> FALSE, due |-> NoHold]
      /\ term.phase = "loop" /\ term.unsent = FALSE /\ term.fresh = FALSE
  BY DEF Init, Starting
<1>4. told.status = "Starting" /\ told.over = FALSE /\ calm = 0
  BY DEF Init
<1>5. Formed
  BY <1>2, <1>3, <1>4 DEF Formed, Init
<1>6. Active(term.act, calm)
  BY <1>2, <1>3 DEF Active, Status
<1> QED
  BY <1>1, <1>2, <1>3, <1>4, <1>5, <1>6, HeardFrom DEF Parts

(* A step that tells the runtime nothing and leaves the activity alone. *)
LEMMA QuietKept ==
  ASSUME Heard, Inv, Inv', Formed', UNCHANGED calm, term'.act = term.act,
         told'.status = told.status
  PROVE  Kept
<1>1. Active(term'.act, calm') /\ told'.status = term'.act.status /\ calm' \in 0 .. IdleHold
  BY DEF Heard
<1>2. Heard'
  BY <1>1, HeardNext DEF Parts
<1>3. IdleStep /\ AttentionStep
  BY DEF IdleStep, AttentionStep
<1> QED
  BY <1>2, <1>3 DEF Kept

(* The child, the manager, the reader, the waiter and the watcher tell nothing. *)
LEMMA EnvironmentKept ==
  ASSUME Inv, Heard, Inv',
         \/ \E chunk \in Chunks : Write(chunk)
         \/ ChildExit
         \/ \E cmd \in {Redraw, Forward} : Command(cmd)
         \/ Host \/ Kill
         \/ Read \/ Wait \/ Watch
  PROVE  Kept
<1>1. Formed
  BY HeardHas
<1>2. UNCHANGED <<term, told, calm>>
  BY DEF Write, ChildExit, Command, Host, Kill, Read, Wait, Watch
<1>3. alive' \in BOOLEAN /\ entry' \in {"starting", "hosted", "removed"}
  BY <1>1 DEF Formed, Write, ChildExit, Command, Host, Kill, Read, Wait, Watch, process
<1>4. waiter' \in {"waiting", "done"}
  BY <1>1 DEF Formed, Write, ChildExit, Command, Host, Kill, Read, Wait, Watch, process
<1>5. poll' \in 0 .. ForegroundPoll
  BY <1>1, SessionAssumption DEF Formed, Write, ChildExit, Command, Host, Kill, Read, Wait, Watch,
                                 process
<1>6. Formed'
  BY <1>1, <1>2, <1>3, <1>4, <1>5 DEF Formed
<1> QED
  BY <1>2, <1>6, QuietKept

(* A held idle is told once its hold is over. *)
LEMMA SettleHeldKept == ASSUME Inv, Heard, Inv', SettleHeld PROVE Kept
<1>1. Formed /\ Fields(term) /\ told = [status |-> told.status, over |-> told.over]
  BY HeardHas DEF Inv, Typed
<1>2. PICK a : a = Settle(term.act)
  OBVIOUS
<1>3. /\ term' = [term EXCEPT !.act = a] /\ told' = [told EXCEPT !.status = a.status]
      /\ UNCHANGED <<alive, entry, waiter, poll, calm>> /\ term.act.due = 0
  BY <1>2 DEF SettleHeld, Told, process, Due
<1>4. /\ Active(a, calm) /\ a.status = "Idle" /\ term.act.status = "Busy" /\ calm >= IdleHold
      /\ calm \in 0 .. IdleHold
  BY <1>2, <1>3, SettleKeeps DEF Heard
<1>5. term'.act = a /\ told'.status = a.status /\ Formed'
  BY <1>1, <1>3 DEF Formed, Fields
<1>6. Heard'
  BY <1>3, <1>4, <1>5, HeardNext DEF Parts
<1>7. IdleStep /\ AttentionStep
  BY <1>4 DEF IdleStep, AttentionStep, Heard
<1> QED
  BY <1>6, <1>7 DEF Kept

(* Sending a screen leaves the activity alone. *)
LEMMA DrawnForms ==
  ASSUME NEW t, Fields(t), t.unsent \in BOOLEAN, t.fresh \in BOOLEAN
  PROVE  Drawn(t).act = t.act /\ Drawn(t).unsent \in BOOLEAN /\ Drawn(t).fresh \in BOOLEAN
BY DEF Fields, Drawn

(* A screen that was owed tells no status. *)
LEMMA FlushKept == ASSUME Inv, Heard, Inv', Flush PROVE Kept
<1>1. Formed /\ Fields(term)
  BY HeardHas DEF Inv, Typed
<1>2. term' = Drawn(term) /\ UNCHANGED <<alive, entry, waiter, poll, told, calm>>
  BY DEF Flush, process
<1>3. /\ term'.act = term.act /\ term'.phase = term.phase
      /\ term'.unsent \in BOOLEAN /\ term'.fresh \in BOOLEAN
  BY <1>1, <1>2, DrawnForms, DrawnKeeps DEF Formed
<1>4. Formed'
  BY <1>1, <1>2, <1>3 DEF Formed
<1> QED
  BY <1>2, <1>3, <1>4, QuietKept

(* The activity after a command: what its output says, what a poll found, or as
   it was. *)
LEMMA HandledForms ==
  ASSUME Inv, Formed, NEW cmd \in Cmd
  PROVE  /\ Handled(cmd).act = IF cmd.cmd = "Bytes" THEN Observe(term.act, cmd.chunk)
                               ELSE IF cmd.cmd = "Foreground" THEN Poll(term.act, cmd.status)
                               ELSE term.act
         /\ Handled(cmd).unsent \in BOOLEAN /\ Handled(cmd).fresh \in BOOLEAN
<1>1. Fields(term) /\ term.unsent \in BOOLEAN /\ term.fresh \in BOOLEAN
  BY DEF Inv, Typed, Formed
<1>2. cmd.cmd \in {"Bytes", "Redraw", "Forward", "Foreground", "Eof"}
  BY DEF Cmd, Redraw, Forward, Eof, Bytes, Foreground
<1>3. CASE cmd.cmd = "Bytes"
  <2>1. PICK a : a = Observe(term.act, cmd.chunk)
    OBVIOUS
  <2>2. PICK t : t = [term EXCEPT !.act = a]
    OBVIOUS
  <2>3. Handled(cmd) = Drawn(t)
    BY <1>3, <2>1, <2>2 DEF Handled
  <2>4. Fields(t) /\ t.act = a /\ t.unsent = term.unsent /\ t.fresh = term.fresh
    BY <1>1, <2>2 DEF Fields
  <2> QED
    BY <1>1, <1>3, <2>1, <2>3, <2>4, DrawnForms
<1>4. CASE cmd.cmd = "Redraw"
  BY <1>1, <1>4, DrawnForms DEF Handled
<1>5. CASE cmd.cmd = "Forward"
  BY <1>1, <1>5 DEF Handled
<1>6. CASE cmd.cmd = "Foreground"
  <2>1. PICK a : a = Poll(term.act, cmd.status)
    OBVIOUS
  <2>2. Handled(cmd) = [term EXCEPT !.act = a]
    BY <1>6, <2>1 DEF Handled
  <2> QED
    BY <1>1, <1>6, <2>1, <2>2 DEF Fields
<1>7. CASE cmd.cmd = "Eof"
  <2>1. Handled(cmd) = [term EXCEPT !.phase = "drain"]
    BY <1>7 DEF Handled
  <2> QED
    BY <1>1, <1>7, <2>1 DEF Fields
<1> QED
  BY <1>2, <1>3, <1>4, <1>5, <1>6, <1>7

(* A command changes the status as ObserveKeeps and PollKeeps have it. *)
LEMMA HandleKept == ASSUME Inv, Heard, Inv', Handle PROVE Kept
<1>1. Formed /\ told = [status |-> told.status, over |-> told.over]
  BY HeardHas DEF Inv, Typed
<1>2. PICK cmd \in Cmd : cmd = Head(ctrl)
  BY TailKeeps DEF Handle
<1>3. /\ UNCHANGED <<alive, entry, waiter, poll>>
      /\ term' = Handled(cmd) /\ ctrl' = Tail(ctrl) /\ ctrl # <<>>
      /\ told' = [told EXCEPT !.status = term'.act.status]
      /\ calm' = IF Works(cmd) THEN 0 ELSE calm
  BY <1>2 DEF Handle, Told, process
<1>4. PICK a : a = term.act
  OBVIOUS
<1>5. Active(a, calm) /\ told.status = a.status /\ calm \in 0 .. IdleHold /\ calm \in Nat
  BY <1>4, HoldAssumption DEF Heard
<1>6. calm' \in 0 .. IdleHold /\ calm' \in Nat
  BY <1>3, <1>5, HoldAssumption
<1>7. told'.over = told.over /\ told'.status = term'.act.status
  BY <1>1, <1>3
<1>8. Formed'
  <2>1. term'.unsent \in BOOLEAN /\ term'.fresh \in BOOLEAN
    BY <1>1, <1>3, HandledForms
  <2>2. term'.phase \in {"loop", "drain", "done"}
    BY <1>1, <1>3, HandledKeeps DEF Formed
  <2> QED
    BY <1>1, <1>3, <1>7, <2>1, <2>2 DEF Formed
<1>9. CASE cmd.cmd = "Bytes"
  <2>1. PICK chunk \in Chunks : cmd = Bytes(chunk)
    BY <1>9 DEF Cmd, Redraw, Forward, Eof, Foreground
  <2>2. chunk \in Chunk /\ cmd.chunk = chunk
    BY <2>1, SessionAssumption DEF Bytes
  <2>3. term'.act = Observe(a, chunk)
    BY <1>1, <1>3, <1>4, <1>9, <2>2, HandledForms
  <2>4. calm' = IF Works(Bytes(chunk)) THEN 0 ELSE calm
    BY <1>3, <2>1
  <2>5. /\ Active(term'.act, calm')
        /\ a.status = "Attention" => term'.act.status = "Attention" \/ calm' = 0
        /\ a.status = "Busy" /\ term'.act.status = "Idle" => chunk.marks # <<>>
    BY <1>5, <1>6, <2>2, <2>3, <2>4, ObserveKeeps
  <2>6. Heard'
    BY <1>6, <1>7, <1>8, <2>5, HeardNext DEF Parts
  <2>7. AttentionStep
    BY <1>5, <1>7, <2>5 DEF AttentionStep
  <2>8. IdleStep
    BY <1>2, <1>3, <1>5, <1>7, <1>9, <2>2, <2>5 DEF IdleStep, ByMarkOrPoll
  <2> QED
    BY <2>6, <2>7, <2>8 DEF Kept
<1>10. CASE cmd.cmd = "Foreground"
  <2>1. PICK status \in {"Idle", "Busy", "unknown"} : cmd = Foreground(status)
    BY <1>10 DEF Cmd, Redraw, Forward, Eof, Bytes
  <2>2. cmd.status = status
    BY <2>1 DEF Foreground
  <2>3. term'.act = Poll(a, status)
    BY <1>1, <1>3, <1>4, <1>10, <2>2, HandledForms
  <2>4. calm' = calm
    BY <1>3, <1>10 DEF Works
  <2>5. /\ Active(term'.act, calm')
        /\ a.status = "Attention" => term'.act.status = "Attention"
    BY <1>5, <2>3, <2>4, PollKeeps
  <2>6. Heard'
    BY <1>6, <1>7, <1>8, <2>5, HeardNext DEF Parts
  <2>7. AttentionStep
    BY <1>5, <1>7, <2>5 DEF AttentionStep
  <2>8. IdleStep
    BY <1>2, <1>3, <1>10 DEF IdleStep, ByMarkOrPoll
  <2> QED
    BY <2>6, <2>7, <2>8 DEF Kept
<1>11. CASE cmd.cmd \notin {"Bytes", "Foreground"}
  <2>1. term'.act = a
    BY <1>1, <1>3, <1>4, <1>11, HandledForms
  <2>2. calm' = calm
    BY <1>3, <1>11 DEF Works
  <2>3. told'.status = told.status
    BY <1>5, <1>7, <2>1
  <2> QED
    BY <1>4, <1>8, <2>1, <2>2, <2>3, QuietKept
<1> QED
  BY <1>9, <1>10, <1>11

(* The drain and the end tell no status. *)
LEMMA DrainKept == ASSUME Inv, Heard, Inv', Drain \/ Finish PROVE Kept
<1>1. Formed /\ Fields(term) /\ told = [status |-> told.status, over |-> told.over]
  BY HeardHas DEF Inv, Typed
<1>2. UNCHANGED <<alive, entry, waiter, poll, calm>>
  BY DEF Drain, Finish, process
<1>3. CASE Drain
  <2>1. told' = told /\ term' = [term EXCEPT !.quiet = EofQuiet]
    BY <1>3 DEF Drain
  <2>2. /\ term'.act = term.act /\ term'.phase = term.phase
        /\ term'.unsent = term.unsent /\ term'.fresh = term.fresh
    BY <1>1, <2>1 DEF Fields
  <2>3. Formed'
    BY <1>1, <1>2, <2>1, <2>2 DEF Formed
  <2> QED
    BY <1>2, <2>1, <2>2, <2>3, QuietKept
<1>4. CASE Finish
  <2>1. PICK p, a, u, f, q :
          term = [phase |-> p, act |-> a, unsent |-> u, fresh |-> f, quiet |-> q]
    BY <1>1 DEF Fields
  <2>2. PICK t : t = [term EXCEPT !.phase = "done"]
    OBVIOUS
  <2>3. t = [phase |-> "done", act |-> a, unsent |-> u, fresh |-> f, quiet |-> q]
    BY <2>1, <2>2
  <2>4. term' = [t EXCEPT !.unsent = FALSE] /\ told' = [told EXCEPT !.over = TRUE]
    BY <1>4, <2>2, Zenon DEF Finish
  <2>5. term' = [phase |-> "done", act |-> a, unsent |-> FALSE, fresh |-> f, quiet |-> q]
    BY <2>3, <2>4
  <2>6. told'.status = told.status /\ told'.over = TRUE
    BY <1>1, <2>4
  <2>7. term'.act = term.act /\ Formed'
    BY <1>1, <1>2, <2>1, <2>5, <2>6 DEF Formed
  <2> QED
    BY <1>2, <2>6, <2>7, QuietKept
<1> QED
  BY <1>3, <1>4

(* Time shortens a hold by what it adds to the calm. *)
LEMMA TickKept == ASSUME Inv, Heard, Inv', Tick PROVE Kept
<1>1. Formed /\ Fields(term)
  BY HeardHas DEF Inv, Typed
<1>2. /\ UNCHANGED <<alive, entry, waiter, told>>
      /\ poll' = Less(poll)
      /\ calm' = IF calm < IdleHold THEN calm + 1 ELSE calm
  BY DEF Tick, process
<1>3. PICK a : a = term.act
  OBVIOUS
<1>4. Active(a, calm) /\ told.status = a.status /\ calm \in 0 .. IdleHold
  BY <1>3 DEF Heard
<1>5. PICK s, r, d : a = [status |-> s, selfReported |-> r, due |-> d]
  BY <1>4 DEF Active
<1>6. PICK p, u, f, q : term = [phase |-> p, act |-> a, unsent |-> u, fresh |-> f, quiet |-> q]
  BY <1>1, <1>3 DEF Fields
<1>7. PICK b : b = [status |-> s, selfReported |-> r, due |-> Less(d)]
  OBVIOUS
<1>8. PICK t : t = [term EXCEPT !.act.due = Less(@)]
  OBVIOUS
<1>9. t = [phase |-> p, act |-> b, unsent |-> u, fresh |-> f, quiet |-> q]
  BY <1>5, <1>6, <1>7, <1>8
<1>10. PICK w : w = [t EXCEPT !.fresh = FALSE]
  OBVIOUS
<1>11. w = [phase |-> p, act |-> b, unsent |-> u, fresh |-> FALSE, quiet |-> q]
  BY <1>9, <1>10
<1>12. PICK n : term' = [w EXCEPT !.quiet = n]
  BY <1>8, <1>10 DEF Tick
<1>13. term' = [phase |-> p, act |-> b, unsent |-> u, fresh |-> FALSE, quiet |-> n]
  BY <1>11, <1>12
<1>14. poll' \in 0 .. ForegroundPoll
  BY <1>1, <1>2, SessionAssumption DEF Formed, Less
<1>15. Formed'
  BY <1>1, <1>2, <1>6, <1>13, <1>14 DEF Formed
<1>16. Active(b, calm') /\ calm' \in 0 .. IdleHold
  BY <1>2, <1>4, <1>5, <1>7, LessKeeps
<1>17. term'.act = b /\ told'.status = b.status
  BY <1>2, <1>4, <1>5, <1>7, <1>13
<1>18. Heard'
  BY <1>15, <1>16, <1>17, HeardNext DEF Parts
<1>19. IdleStep /\ AttentionStep
  BY <1>2 DEF IdleStep, AttentionStep
<1> QED
  BY <1>18, <1>19 DEF Kept

(* Every step keeps Heard and does what the two action properties say. *)
LEMMA NextKept ==
  ASSUME Inv, Heard, [Next]_vars
  PROVE  Kept
<1>1. Inv'
  BY NextInv
<1>2. CASE \/ \E chunk \in Chunks : Write(chunk)
           \/ ChildExit
           \/ \E cmd \in {Redraw, Forward} : Command(cmd)
           \/ Host \/ Kill
           \/ Read \/ Wait \/ Watch
  BY <1>1, <1>2, EnvironmentKept
<1>3. CASE Terminal
  BY <1>1, <1>3, SettleHeldKept, FlushKept, HandleKept, DrainKept DEF Terminal
<1>4. CASE Tick
  BY <1>1, <1>4, TickKept
<1>5. CASE UNCHANGED vars
  <2>1. UNCHANGED <<alive, entry, waiter, poll, term, told, calm>>
    BY <1>5 DEF vars
  <2>2. Formed'
    BY <2>1, HeardHas DEF Formed
  <2> QED
    BY <1>1, <2>1, <2>2, QuietKept
<1> QED
  BY <1>2, <1>3, <1>4, <1>5 DEF Next

(* Inv and Heard hold throughout. *)
LEMMA HeardInvariance == Spec => [](Inv /\ Heard)
<1>1. Inv /\ Heard /\ [Next]_vars => Heard'
  BY NextKept DEF Kept
<1> QED
  BY <1>1, InitInv, InitHeard, NextInv, PTL DEF Spec

-----------------------------------------------------------------------------
(***************************************************************************)
(* The results.                                                            *)
(***************************************************************************)

(* Once the exit of a session was told, all its child wrote was read and folded
   into its screen, however the polls, the commands and the delays fell. *)
THEOREM TrailingOutput == Spec => []TrailingOutputShown
<1>1. Inv => TrailingOutputShown
  BY DEF Inv, Ordered, TrailingOutputShown
<1> QED
  BY <1>1, Invariance, PTL

(* The session's state keeps its types, the status told and the hold of an idle
   among them. *)
THEOREM SessionTyped == Spec => []TypeOK
<1>1. Heard => TypeOK
  BY DEF Heard
<1> QED
  BY <1>1, HeardInvariance, PTL

(* A busy session reads idle on a shell's word, on a poll, or after the hold, for
   any output and any delay of the terminal thread. *)
THEOREM IdleEarned == Spec => IdleStands
<1>1. Inv /\ Heard /\ [Next]_vars => [IdleStep]_vars
  BY NextKept DEF Kept
<1> QED
  BY <1>1, HeardInvariance, PTL DEF Spec, IdleStands, IdleStep

(* A request for attention is taken back by work alone. *)
THEOREM AttentionKept == Spec => AttentionUntilWork
<1>1. Inv /\ Heard /\ [Next]_vars => [AttentionStep]_vars
  BY NextKept DEF Kept
<1> QED
  BY <1>1, HeardInvariance, PTL DEF Spec, AttentionUntilWork, AttentionStep

(* The threads report a status or the end as the contract has it: the end after
   the child is gone, once, and no status after it. *)
LEMMA StepsFeed ==
  ASSUME Inv, [Next]_vars
  PROVE  [Feed!Next]_(Feed!feed)
<1>1. \/ ChildExit \/ Host \/ Kill \/ SettleHeld \/ Handle \/ Finish
      \/ UNCHANGED <<alive, entry, told>>
  BY DEF Next, Terminal, Write, Command, Read, Wait, Watch, Flush, Drain, Tick, process, vars
<1>2. CASE ChildExit
  BY <1>2 DEF ChildExit, Feed!Next, Feed!Die
<1>3. CASE Host
  BY <1>3 DEF Host, process, Feed!feed
<1>4. CASE Kill
  BY <1>4 DEF Kill, process, Feed!Next, Feed!Kill
<1>5. CASE SettleHeld \/ Handle
  <2>1. UNCHANGED <<alive, entry>> /\ term.phase = "loop"
    BY <1>5 DEF SettleHeld, Handle, process
  <2>2. PICK status : told' = [told EXCEPT !.status = status]
    BY <1>5 DEF SettleHeld, Handle, Told
  <2>3. told'.over = told.over /\ ~told.over
    BY <2>1, <2>2 DEF Inv, Typed, Ordered
  <2> QED
    BY <2>1, <2>3 DEF Feed!Next, Feed!Report, Feed!feed
<1>6. CASE Finish
  <2>1. UNCHANGED <<alive, entry>> /\ term.phase = "drain" /\ told' = [told EXCEPT !.over = TRUE]
    BY <1>6 DEF Finish, process
  <2>2. told'.over = TRUE /\ told'.status = told.status
    BY <2>1 DEF Inv, Typed
  <2>3. ~alive /\ ~told.over
    BY <2>1 DEF Inv, Ordered
  <2> QED
    BY <2>1, <2>2, <2>3 DEF Feed!Next, Feed!End
<1>7. CASE UNCHANGED <<alive, entry, told>>
  BY <1>7 DEF Feed!feed
<1> QED
  BY <1>1, <1>2, <1>3, <1>4, <1>5, <1>6, <1>7

(* The safety of the contract: the runtime sees a session's statuses and then
   its exit, whatever its threads do in between.  That the end comes at all is
   left to the model checker. *)
THEOREM FeedSafety == Spec => Feed!Init /\ [][Feed!Next]_(Feed!feed)
<1>1. Init => Feed!Init
  BY DEF Init, Feed!Init
<1>2. Inv /\ [Next]_vars => [Feed!Next]_(Feed!feed)
  BY StepsFeed
<1> QED
  BY <1>1, <1>2, Invariance, PTL DEF Spec
=============================================================================
