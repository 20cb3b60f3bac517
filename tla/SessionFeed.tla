----------------------------- MODULE SessionFeed ----------------------------
(***************************************************************************)
(* What the runtime may rely on of one session, however its threads go     *)
(* about it: it reports a status only when that moved; its end is told     *)
(* after its child is gone, once, and nothing after it; and once its child *)
(* is gone it is told.                                                     *)
(***************************************************************************)
VARIABLES
  alive,   \* the child runs
  killed,  \* the runtime asked for its end
  status,  \* the last activity reported
  over     \* the exit was told

feed == <<alive, killed, status, over>>

Init == alive = TRUE /\ killed = FALSE /\ status = "Starting" /\ over = FALSE

Kill == ~killed /\ killed' = TRUE /\ UNCHANGED <<alive, status, over>>
Die == alive /\ alive' = FALSE /\ UNCHANGED <<killed, status, over>>

Report ==
  /\ ~over
  /\ status' # status
  /\ UNCHANGED <<alive, killed, over>>

End ==
  /\ ~alive /\ ~over
  /\ over' = TRUE
  /\ UNCHANGED <<alive, killed, status>>

Next == Kill \/ Die \/ Report \/ End

Spec == Init /\ [][Next]_feed /\ WF_feed(End)
=============================================================================
