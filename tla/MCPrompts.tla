----------------------------- MODULE MCPrompts ------------------------------
(***************************************************************************)
(* Two instances of the shell: one for what it keeps by tab index (module  *)
(* Shell), one for the overlays (module Prompts).  The first state chooses *)
(* which one runs, and its close card is the one drawn.                    *)
(***************************************************************************)
EXTENDS Shell

CONSTANTS OverlayMaxId, OverlayMaxClosed, OverlayLaunches, OverlayExits, OverlayPressed

VARIABLES part, desk, unread

O == INSTANCE Prompts
       WITH MaxId <- OverlayMaxId, MaxClosed <- OverlayMaxClosed,
            Launches <- OverlayLaunches, Exits <- OverlayExits, Pressed <- OverlayPressed

ASSUME O!PromptsAssumption

EitherInit == part \in {"tabs", "overlays"} /\ Init /\ O!Init

(* A bound on the batches: once the card is behind what is asked about, all that is
   left of the batch is clicks on it, which no other message looks at. *)
TabsNext ==
  \/ drawn = shell.closing /\ Next
  \/ drawn # shell.closing /\ (Draw \/ ConfirmClose \/ CancelClose)

OverlaysNext ==
  \/ drawn = desk.closing /\ O!Next
  \/ drawn # desk.closing /\ (O!Draw \/ O!ConfirmClose \/ O!CancelClose)

Either ==
  /\ UNCHANGED part
  /\ \/ part = "tabs" /\ TabsNext /\ UNCHANGED <<desk, unread>>
     \/ part = "overlays" /\ OverlaysNext /\ UNCHANGED shell

EitherSpec == EitherInit /\ [][Either]_<<part, shell, desk, unread, drawn>>

-----------------------------------------------------------------------------
\* A command armed for a Claude is answered, after it could be read, and nothing
\* else is typed: see CommandAnswered and ReadBeforeEnter in module Prompts.
CommandsAnswered == O!CommandAnswered /\ O!ReadBeforeEnter

\* What was opened over a pane or a tab is over one that is there, and stays there:
\* see TypeOK, RenameKept and ListsNotRevived in module Prompts.
OverlaysAnchored == []O!TypeOK /\ O!RenameKept /\ O!ListsNotRevived
=============================================================================
