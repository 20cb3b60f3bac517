------------------------------- MODULE Hover -------------------------------
(***************************************************************************)
(* The link or path underlined under the pointer: each pane's canvas tells  *)
(* what it finds there (shell/terminal/canvas.rs), the core decides what is *)
(* underlined and asks the filesystem about a path (core/app/hover.rs), and *)
(* the answer comes back as a message of its own.                           *)
(*                                                                         *)
(* Two panes are on screen side by side, or each is the whole of a tab and  *)
(* one canvas shows them in turn.  Every canvas on screen sees every        *)
(* pointer event and keeps what it last sent, so a move from one pane to    *)
(* the other is two messages, in the order of the panes.  But a canvas does *)
(* not look while a button is held on it, nor when the child under the      *)
(* pointer reads the mouse, and one that comes to show another session, or  *)
(* whose pane gains or loses the focus, forgets.                           *)
(*                                                                         *)
(* A pane shows at each spot plain text, a URL or the candidate for a path, *)
(* and changes as its terminal writes.                                     *)
(***************************************************************************)
EXTENDS Naturals, Sequences

CONSTANTS
  Left, Right,  \* two panes
  Spot,         \* the places of a pane with text of interest
  Path,         \* the candidates for a path
  Rooted,       \* the panes whose directory has the files: a relative path resolves there
  Urls,         \* the panes whose terminal comes to write URLs
  Nothing       \* no probe, no hover, beside the spots, out of the window

Pane == {Left, Right}
Shown == Path \cup {"url", "plain"}
Probe == [spot : Spot, text : Path \cup {"url"}]
\* Beside the panes is as beside the spots of one.
Place == [pane : Pane, spot : Spot \cup {Nothing}]
Request == [pane : Pane, spot : Spot, text : Path]
Target == [pane : Pane, spot : Spot, text : Path \cup {"url"}]

HoverAssumption ==
  /\ Left # Right /\ Rooted \subseteq Pane /\ Urls \subseteq Pane
  /\ {"url", "plain"} \cap Path = {}
  /\ Nothing \notin Probe \cup Place \cup Target \cup Spot

VARIABLES
  view,     \* the panes on screen
  text,     \* per pane and spot, what it shows
  pointer,  \* the place it rests on, or Nothing
  held,     \* whether the link modifier is held
  sent,     \* per pane, the last probe its canvas sent
  gesture,  \* per pane, whether a button is held on its canvas, for a selection or
            \* for the child: either way it does not look
  blind,    \* per pane, whether its canvas missed a move or forgot, and has reported
            \* nothing since (history: no part of the code, only the properties read it)
  core      \* [hover, pending, asked]: what is underlined, the path being resolved
            \* for it, and the resolutions under way

vars == <<view, text, pointer, held, sent, gesture, blind, core>>

TypeOK ==
  /\ view \in {Pane, {Left}, {Right}}
  /\ text \in [Pane -> [Spot -> Shown]]
  /\ pointer \in Place \cup {Nothing}
  /\ held \in BOOLEAN
  /\ sent \in [Pane -> Probe \cup {Nothing}]
  /\ gesture \in [Pane -> BOOLEAN]
  /\ blind \in [Pane -> BOOLEAN]
  /\ core.hover \in Target \cup {Nothing}
  /\ core.pending \in Request \cup {Nothing}
  /\ core.asked \subseteq Request

-----------------------------------------------------------------------------
(* The core.                                                               *)

hovers(c, pane) == c.hover # Nothing /\ c.hover.pane = pane
clear_hover_for(c, pane) == IF hovers(c, pane) THEN [c EXCEPT !.hover = Nothing] ELSE c
\* Mutant of clear_pending_for: a pane with nothing under the pointer clears the other's question.
ClearPending(c, pane) == [c EXCEPT !.pending = Nothing]

clear_pending_for(c, pane) ==
  IF c.pending # Nothing /\ c.pending.pane = pane THEN [c EXCEPT !.pending = Nothing] ELSE c

\* App::set_term_target, for what a canvas found.
set_term_target(c, pane, probe) ==
  IF probe = Nothing THEN clear_pending_for(clear_hover_for(c, pane), pane)
  ELSE LET at == [pane |-> pane, spot |-> probe.spot, text |-> probe.text]
       IN  CASE probe.text = "url" ->
              [hover |-> at, pending |-> clear_pending_for(c, pane).pending, asked |-> c.asked]
             [] probe.text # "url" /\ c.pending = at -> c
             [] OTHER -> [hover |-> Nothing, pending |-> at, asked |-> c.asked \cup {at}]

\* App::activate_target: a click consumes the hover.  The resolution it asks
\* for opens the file and changes nothing here.
activate_target(c, pane) == clear_pending_for(clear_hover_for(c, pane), pane)

\* App::path_resolved, for a hover.
path_resolved(c, request) ==
  IF c.pending # request THEN c
  ELSE [c EXCEPT !.pending = Nothing,
                 !.hover = IF request.pane \in Rooted THEN request ELSE Nothing]

-----------------------------------------------------------------------------
(* The canvases.                                                           *)

\* target_at, with the modifier held and the pointer over the pane.
Found(pane, place) ==
  IF held /\ place \in Place /\ place.pane = pane /\ place.spot \in Spot
          /\ text[pane][place.spot] # "plain"
  THEN [spot |-> place.spot, text |-> text[pane][place.spot]]
  ELSE Nothing

\* child_claim, of a move with no gesture held: reads says whether the child there
\* reads the mouse, Shift being up.
Claimed(pane, place, reads) ==
  reads /\ ~held /\ place \in Place /\ place.pane = pane

\* The panes whose canvas looks at what is under the pointer,
Looking(place, reads) ==
  {pane \in view : ~gesture[pane] /\ ~Claimed(pane, place, reads)}

\* and those that report it: all but the ones that sent the same last.
Telling(place, reads) ==
  {pane \in Looking(place, reads) : Found(pane, place) # sent[pane]}

Reports(c, pane, place, reads) ==
  IF pane \in Telling(place, reads) THEN set_term_target(c, pane, Found(pane, place)) ELSE c

\* The first event a canvas sees for one session resets what it kept for another:
\* what is kept for a pane is kept while it is on screen, or until an event comes.
Remembered(kept, none) == [pane \in Pane |-> IF pane \in view THEN kept[pane] ELSE none]

\* Whether there is anything of a pane's to be blind to.
Matters(pane) ==
  sent[pane] # Nothing \/ \E x \in {core.hover, core.pending} : x # Nothing /\ x.pane = pane

\* The canvases that missed something in a step, and those that reported.
Blinded(missing, telling) ==
  blind' = [pane \in Pane |-> /\ Matters(pane)'
                              /\ pane \in missing \/ (blind[pane] /\ pane \notin telling)]
Forgetting == Blinded(Pane \ view, {})

\* The pointer moves, within a spot or away: every canvas on screen sees it.
CursorMoved(place, reads) ==
  /\ pointer' = place
  /\ sent' = [pane \in Pane |-> IF pane \in Telling(place, reads) THEN Found(pane, place)
                                ELSE Remembered(sent, Nothing)[pane]]
  /\ gesture' = Remembered(gesture, FALSE)
  /\ core' = Reports(Reports(core, Left, place, reads), Right, place, reads)
  /\ Blinded(Pane \ Looking(place, reads), Telling(place, reads))
  /\ UNCHANGED <<view, text, held>>

\* Out of the window no move is seen.
CursorLeft ==
  /\ pointer' = Nothing
  /\ sent' = Remembered(sent, Nothing)
  /\ gesture' = Remembered(gesture, FALSE)
  /\ UNCHANGED <<view, text, held, core>>
  /\ Forgetting

Idle == \A pane \in view : ~gesture[pane]

\* A click with the modifier held.
Click ==
  /\ pointer \in Place /\ Idle /\ Found(pointer.pane, pointer) # Nothing
  /\ sent' = [Remembered(sent, Nothing) EXCEPT ![pointer.pane] = Nothing]
  /\ gesture' = Remembered(gesture, FALSE)
  /\ core' = activate_target(core, pointer.pane)
  /\ UNCHANGED <<view, text, pointer, held>>
  /\ Forgetting

\* Any other press goes to the child that reads the mouse, or starts a selection.
\* The second of a double click selects a word and holds nothing.
Press(holds) ==
  /\ pointer \in Place /\ Idle /\ Found(pointer.pane, pointer) = Nothing
  /\ sent' = Remembered(sent, Nothing)
  /\ gesture' = [Remembered(gesture, FALSE) EXCEPT ![pointer.pane] = holds]
  /\ UNCHANGED <<view, text, pointer, held, core>>
  /\ Forgetting

\* The button comes up, or the wheel turns with none held.
Release ==
  /\ sent' = Remembered(sent, Nothing)
  /\ gesture' = [pane \in Pane |-> FALSE]
  /\ UNCHANGED <<view, text, pointer, held, core>>
  /\ Forgetting

\* What follows is no event of the mouse: the canvases hear of it by being drawn.
Modifier ==
  /\ held' = ~held
  /\ UNCHANGED <<view, text, pointer, sent, gesture, blind, core>>

\* Another tab is shown, in the same canvas: the pointer is over the same cells.
TabSwitched ==
  /\ view # Pane
  /\ view' = Pane \ view
  /\ IF pointer \in Place
     THEN \E pane \in view' : pointer' = [pointer EXCEPT !.pane = pane]
     ELSE UNCHANGED pointer
  /\ UNCHANGED <<text, held, sent, gesture, blind, core>>

\* The focus moves in a split: the two leaves are built anew, canvases and all.
FocusMoved ==
  /\ view = Pane
  /\ sent' = [pane \in Pane |-> Nothing]
  /\ gesture' = [pane \in Pane |-> FALSE]
  /\ UNCHANGED <<view, text, pointer, held, core>>
  /\ Blinded(Pane, {})

\* The terminal writes, under the pointer or not.
Output(pane, spot) ==
  /\ \E t \in Shown \ {text[pane][spot]} :
       /\ t = "url" => pane \in Urls
       /\ text' = [text EXCEPT ![pane][spot] = t]
  /\ UNCHANGED <<view, pointer, held, sent, gesture, blind, core>>

\* Message::PathResolved.
PathResolved(request) ==
  /\ request \in core.asked
  /\ core' = [path_resolved(core, request) EXCEPT !.asked = @ \ {request}]
  /\ UNCHANGED <<view, text, pointer, held, sent, gesture>>
  /\ Blinded({}, {})

-----------------------------------------------------------------------------
Init ==
  /\ view \in {Pane, {Left}}
  /\ text = [p \in Pane |-> [s \in Spot |-> "plain"]]
  /\ pointer = Nothing
  /\ held = FALSE
  /\ sent = [p \in Pane |-> Nothing]
  /\ gesture = [p \in Pane |-> FALSE]
  /\ blind = [p \in Pane |-> FALSE]
  /\ core = [hover |-> Nothing, pending |-> Nothing, asked |-> {}]

Next ==
  \/ \E place \in {x \in Place : x.pane \in view}, reads \in BOOLEAN :
       CursorMoved(place, reads)
  \/ \E holds \in BOOLEAN : Press(holds)
  \/ CursorLeft \/ Click \/ Release
  \/ Modifier \/ TabSwitched \/ FocusMoved
  \/ \E p \in Pane, s \in Spot : Output(p, s)
  \/ \E request \in Request : PathResolved(request)

\* Every resolution answers, in any order.
Fairness == \A request \in Request : WF_vars(PathResolved(request))

Spec == Init /\ [][Next]_vars /\ Fairness

-----------------------------------------------------------------------------
\* What is underlined on screen is where the pointer is, or where it left the
\* window, as far as its canvas could see: no answer underlines a span the pointer
\* has left, in whatever order the panes report a move and the resolutions answer
\* (set_term_target, path_resolved).  A canvas that missed a move or forgot may
\* leave a hover behind, until it reports again.
HoverUnderPointer ==
  core.hover # Nothing /\ core.hover.pane \in view /\ ~blind[core.hover.pane] =>
    pointer \in {[pane |-> core.hover.pane, spot |-> core.hover.spot], Nothing}

\* A path the pointer rests on, seen by its canvas, comes to be underlined if its
\* file exists: the report of the pane the pointer left does not take the question
\* away.
RestingPathShown ==
  \A p \in Rooted : \A s \in Spot : \A path \in Path :
    LET probe == [spot |-> s, text |-> path]
        place == [pane |-> p, spot |-> s]
        seen == sent[p] = probe /\ pointer = place /\ ~blind[p]
    IN  seen ~> (core.hover = [pane |-> p, spot |-> s, text |-> path] \/ ~seen)
=============================================================================
