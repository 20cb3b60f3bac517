------------------------------ MODULE MCTasks ------------------------------
(***************************************************************************)
(* Four components that share no state, each on behaviours of its own: the  *)
(* first state chooses which one runs.  In the first states no step any of  *)
(* them owes is possible, so the fairness of those that do not run asks     *)
(* nothing.                                                                *)
(***************************************************************************)
EXTENDS Naturals, FiniteSets, Sequences

CONSTANTS
  Launch, Given, MaxFailed, Nobody,
  Theme, Default, MaxHand, MaxSets, MaxStarts, MaxAside,
  Left, Right, Spot, Path, Rooted, Urls, Nothing,
  File, MaxVersion,
  p, q, src

VARIABLES
  part,
  at, lock, link, stamp, changed, drain, acted, failed,
  file, aside, writer, app, live, news, missed, kept, count,
  view, text, pointer, held, sent, gesture, blind, core,
  tree, started, watching, event, messages, scanning, rescan_pending, found, cache, shown,
  scan_error, failures, due

L == INSTANCE Links
S == INSTANCE Settings
H == INSTANCE Hover
C == INSTANCE Scans

ASSUME L!LinksAssumption
ASSUME S!SettingsAssumption
ASSUME H!HoverAssumption
ASSUME C!ScansAssumption

Init ==
  /\ part \in {"links", "settings", "hover", "scans"}
  /\ L!Init /\ S!Init /\ H!Init /\ C!Init

linksVars == <<at, lock, link, stamp, changed, drain, acted, failed>>
settingsVars == <<file, aside, writer, app, live, news, missed, kept, count>>
hoverVars == <<view, text, pointer, held, sent, gesture, blind, core>>
scansVars ==
  <<tree, started, watching, event, messages, scanning, rescan_pending, found, cache,
    shown, scan_error, failures, due>>
vars == <<part, linksVars, settingsVars, hoverVars, scansVars>>

Next ==
  /\ UNCHANGED part
  /\ \/ part = "links" /\ L!Next /\ UNCHANGED <<settingsVars, hoverVars, scansVars>>
     \/ part = "settings" /\ S!Next /\ UNCHANGED <<linksVars, hoverVars, scansVars>>
     \/ part = "hover" /\ H!Next /\ UNCHANGED <<linksVars, settingsVars, scansVars>>
     \/ part = "scans" /\ C!Next /\ UNCHANGED <<linksVars, settingsVars, hoverVars>>

Spec ==
  Init /\ [][Next]_vars /\ L!Fairness /\ S!Fairness /\ H!Fairness /\ C!Fairness

-----------------------------------------------------------------------------
\* The types of the four components' states.
TypeOK == L!TypeOK /\ S!TypeOK /\ H!TypeOK /\ C!TypeOK

\* A link handed over through the inbox is acted on, and once only: see
\* ActedOnce and LinkReached in module Links.
LinksActedOn == L!ActedOnce /\ L!LinkReached

\* No set and no start of the app destroys what the user wrote in settings.json,
\* and the settings in force follow it: see HandTextKept and SettingsFollowed in
\* module Settings.
SettingsKept == []S!HandTextKept /\ S!SettingsFollowed

\* What is underlined is where the pointer rests, and a path it rests on is
\* underlined: see HoverUnderPointer and RestingPathShown in module Hover.
UnderlineFollows == []H!HoverUnderPointer /\ H!RestingPathShown

\* The sidebar follows the projects tree and never goes back: see
\* SidebarForward and ChangeShown in module Scans.
SidebarFollows == C!SidebarForward /\ C!ChangeShown
=============================================================================
