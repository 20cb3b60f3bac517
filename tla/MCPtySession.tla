---------------------------- MODULE MCPtySession ----------------------------
(* The instance of PtySession that TLC checks. *)
EXTENDS PtySession

Says(signals) == [marks |-> <<>>, signals |-> signals]
Marks(marks) == [marks |-> marks, signals |-> <<>>]

(* Output that says nothing, Claude's titles alone and in one chunk, its
   notification, and a shell's marks. *)
SomeChunks ==
  {Says(<<>>), Says(<<"Busy">>), Says(<<"Idle">>), Says(<<"Busy", "Idle">>),
   Says(<<"Notification">>), Marks(<<"Running">>), Marks(<<"Ready">>)}
=============================================================================
