------------------------------ MODULE Settings ------------------------------
(***************************************************************************)
(* settings.json and those who write it: the settings panel in the running  *)
(* app and an MCP server, each through set_option_at (mcp/src/file.rs), and *)
(* the user by hand; and those who read it: the app at startup             *)
(* (json_store::load_json_checked) and at each burst of changes            *)
(* (shell/live_settings.rs).                                               *)
(*                                                                         *)
(* A set is a read, a truncation and a write, with nothing to keep two      *)
(* processes apart and nothing that makes the write whole at a kill.  Of    *)
(* the file the model keeps whether it parses, one option (theme) and the   *)
(* marks of the user's own text, one per edit by hand.                     *)
(***************************************************************************)
EXTENDS Naturals, Sequences

CONSTANTS
  Theme,      \* the values of the option
  Default,    \* its value in a file that does not give it
  MaxHand,    \* bound on edits by hand
  MaxSets,    \* bound on the sets by the panel and the server
  MaxStarts,  \* bound on the launches of the app
  MaxAside    \* the names .corrupt-<n>, 99 in the code

SettingsAssumption ==
  /\ Default \in Theme
  /\ {MaxHand, MaxSets, MaxStarts, MaxAside} \subseteq Nat

Writer == {"panel", "server", "hand"}

VARIABLES
  file,      \* the file at the path: [state, theme, marks]
  aside,     \* the files set aside: the marks of each
  writer,    \* per writer: [at, text, aside, met]
  app,       \* "off", "loaded" (no watch yet), "aside" (a file to move) or "up"
  live,      \* the theme in force
  news,      \* [event, message]: a file event and a SettingsFileChanged to come
  missed,    \* history: the file changed after the load and before the watch
  kept,      \* history: the marks that must not be lost
  count      \* the edits, sets and launches so far

vars == <<file, aside, writer, app, live, news, missed, kept, count>>

Mark == 1 .. MaxHand
Text == [state : {"good", "broken"}, theme : Theme, marks : SUBSET Mark]
Empty == [state |-> "good", theme |-> Default, marks |-> {}]
Missing == [state |-> "missing", theme |-> Default, marks |-> {}]
Torn == [state |-> "torn", theme |-> Default, marks |-> {}]
Resting == [at |-> "rest", text |-> Empty, aside |-> 0, met |-> FALSE]
Busy(w) == writer[w].at # "rest"
NoChange == [event |-> FALSE, message |-> FALSE]

TypeOK ==
  /\ file \in Text \cup {Missing, Torn}
  /\ aside \in UNION {[1 .. n -> SUBSET Mark] : n \in 0 .. MaxAside}
  /\ \A w \in Writer :
       /\ writer[w].at \in {"rest", "truncate", "fill"}
       /\ writer[w].text \in Text
       /\ writer[w].aside \in 0 .. MaxAside
       /\ writer[w].met \in BOOLEAN
  /\ app \in {"off", "loaded", "aside", "up"}
  /\ live \in Theme
  /\ news \in [event : BOOLEAN, message : BOOLEAN]
  /\ missed \in BOOLEAN
  /\ kept \subseteq Mark
  /\ count \in [hand : 0 .. MaxHand, sets : 0 .. MaxSets, starts : 0 .. MaxStarts]

\* Mutant of Changes: only the making of the file is an event.
ChangesWhenMade ==
  /\ news' = [news EXCEPT !.event = @ \/ (app = "up" /\ file = Missing)]
  /\ missed' = (app # "up" /\ (missed \/ app # "off"))

\* A change of the file is an event once the watch is up.
Changes ==
  /\ news' = [news EXCEPT !.event = @ \/ app = "up"]
  /\ missed' = (app # "up" /\ (missed \/ app # "off"))

-----------------------------------------------------------------------------
(* The writers.                                                            *)

\* What the others under way meet: a write that lands within theirs.
Meet(w) == [v \in Writer |->
  IF v # w /\ writer[v].at = "fill" THEN [writer[v] EXCEPT !.met = TRUE] ELSE writer[v]]

\* read_object: a file that is not a JSON object is refused; and set_option,
\* which leaves every other key as found.
SetOption(w) ==
  \E theme \in Theme :
    /\ count.sets < MaxSets
    /\ count' = [count EXCEPT !.sets = @ + 1]
    /\ ~Busy(w)
    /\ IF file.state \in {"good", "missing"}
       THEN writer' = [writer EXCEPT ![w] =
              [at |-> "truncate", aside |-> 0, met |-> FALSE,
               text |-> [state |-> "good", theme |-> theme, marks |-> file.marks]]]
       ELSE UNCHANGED writer
    /\ live' = IF w = "panel" THEN theme ELSE live

\* Shell::pick_theme: in force at once, then persisted.
PanelPicks ==
  /\ app = "up"
  /\ SetOption("panel")
  /\ UNCHANGED <<file, aside, app, news, missed, kept>>

ServerSets ==
  /\ SetOption("server")
  /\ UNCHANGED <<file, aside, app, news, missed, kept>>

\* The user rewrites the file in an editor, well or not.
HandEdits ==
  /\ count.hand < MaxHand /\ ~Busy("hand")
  /\ count' = [count EXCEPT !.hand = @ + 1]
  /\ \E text \in Text :
       /\ text.marks = {count'.hand}
       /\ writer' = [writer EXCEPT !["hand"] =
            [at |-> "truncate", text |-> text, aside |-> 0, met |-> FALSE]]
  /\ kept' = {}
  /\ UNCHANGED <<file, aside, app, live, news, missed>>

\* fs::write opens the file, which truncates it, ...
Truncate(w) ==
  /\ writer[w].at = "truncate"
  /\ writer' = [Meet(w) EXCEPT ![w].at = "fill",
                               ![w].met = \E v \in Writer : v # w /\ writer[v].at = "fill"]
  /\ file' = Torn
  /\ Changes
  /\ UNCHANGED <<aside, app, live, kept, count>>

\* ... and writes the text to the file it opened, wherever that is by then.
\* Two writes within one another may leave bytes of both.  A text of the
\* user's written with no one else's set under way must last.
Fill(w) ==
  LET text == writer[w].text
      alone == \A v \in Writer \ {w} : ~Busy(v)
  IN  /\ writer[w].at = "fill"
      /\ writer' = [Meet(w) EXCEPT ![w] = Resting]
      /\ IF writer[w].aside > 0
         THEN /\ aside' = [aside EXCEPT ![writer[w].aside] = text.marks]
              /\ kept' = IF w = "hand" THEN {} ELSE kept
              /\ UNCHANGED <<file, news, missed>>
         ELSE /\ \/ /\ file' = text
                    /\ kept' = IF w = "hand" /\ alone THEN text.marks ELSE kept
                 \/ writer[w].met /\ file' = Torn /\ kept' = {}
              /\ Changes
              /\ UNCHANGED aside
      /\ UNCHANGED <<app, live, count>>

-----------------------------------------------------------------------------
(* The app.                                                                *)

\* load_json_checked, whose defaults are in force for a file that does not
\* parse ...
Load ==
  /\ app = "off" /\ count.starts < MaxStarts
  /\ count' = [count EXCEPT !.starts = @ + 1]
  /\ live' = IF file.state = "good" THEN file.theme ELSE Default
  /\ app' = IF file.state \in {"torn", "broken"} THEN "aside" ELSE "loaded"
  /\ missed' = FALSE
  /\ UNCHANGED <<file, aside, writer, news, kept>>

\* ... and set_aside moves whatever is at the path by then, with the writes
\* under way to it, to the first free name.
SetAside ==
  /\ app = "aside"
  /\ app' = "loaded"
  /\ IF file.state # "missing" /\ Len(aside) < MaxAside
     THEN /\ aside' = Append(aside, file.marks)
          /\ file' = Missing
          /\ writer' = [w \in Writer |->
               IF writer[w].at = "fill" /\ writer[w].aside = 0
               THEN [writer[w] EXCEPT !.aside = Len(aside')] ELSE writer[w]]
          /\ Changes
     ELSE UNCHANGED <<aside, file, writer, news, missed>>
  /\ UNCHANGED <<live, kept, count>>

\* settings_watch_stream: from here on changes are events.
Watch ==
  /\ app = "loaded"
  /\ app' = "up"
  /\ UNCHANGED <<file, aside, writer, live, news, missed, kept, count>>

Burst ==
  /\ news.event
  /\ news' = [event |-> FALSE, message |-> TRUE]
  /\ UNCHANGED <<file, aside, writer, app, live, missed, kept, count>>

\* Message::SettingsFileChanged; the panel writes within one message.
reload_settings ==
  /\ news.message /\ ~Busy("panel")
  /\ news' = [news EXCEPT !.message = FALSE]
  /\ live' = IF file.state = "good" THEN file.theme ELSE live
  /\ UNCHANGED <<file, aside, writer, app, missed, kept, count>>

\* The app ends, by itself or not: a write of its own may be cut short, and
\* what it was to write again is lost with it.
Quit ==
  /\ app # "off"
  /\ app' = "off"
  /\ news' = NoChange
  /\ writer' = [writer EXCEPT !["panel"] = Resting]
  /\ kept' = IF writer["panel"].at = "fill" THEN {} ELSE kept
  /\ UNCHANGED <<file, aside, live, missed, count>>

\* The server ends with the session that runs it.
ServerEnds ==
  /\ Busy("server")
  /\ writer' = [writer EXCEPT !["server"] = Resting]
  /\ kept' = IF writer["server"].at = "fill" THEN {} ELSE kept
  /\ UNCHANGED <<file, aside, app, live, news, missed, count>>

-----------------------------------------------------------------------------
Init ==
  /\ file = Missing
  /\ aside = <<>>
  /\ writer = [w \in Writer |-> Resting]
  /\ app = "off" /\ live = Default
  /\ news = NoChange /\ missed = FALSE
  /\ kept = {}
  /\ count = [hand |-> 0, sets |-> 0, starts |-> 0]

Steps(w) == Truncate(w) \/ Fill(w)
AppRuns == SetAside \/ Watch

Next ==
  \/ PanelPicks \/ ServerSets \/ HandEdits
  \/ \E w \in Writer : Steps(w)
  \/ Load \/ AppRuns \/ Burst \/ reload_settings \/ Quit \/ ServerEnds

\* A write once begun ends, and the app, its watch thread and its message
\* loop go on while it is up.
Fairness ==
  /\ \A w \in Writer : WF_vars(Steps(w))
  /\ WF_vars(AppRuns) /\ WF_vars(Burst) /\ WF_vars(reload_settings)

Spec == Init /\ [][Next]_vars /\ Fairness

-----------------------------------------------------------------------------
\* A text the user wrote with no set under way is in the file, in a file set
\* aside, or about to be written again with one option changed: no set,
\* no start of the app on a file that does not parse, and no start in the
\* middle of a set destroys it (set_option_at, set_aside).
HandTextKept ==
  kept \subseteq file.marks
         \cup (UNION {aside[i] : i \in DOMAIN aside})
         \cup (UNION {writer[w].text.marks : w \in {w \in Writer : writer[w].at = "fill"}})

\* The theme in force comes to be the file's whenever the app is up on a file
\* that parses, whoever wrote it and whatever half-written file was read
\* meanwhile; a change between the load and the watch waits for the next one.
SettingsFollowed ==
  (app = "up" /\ file.state = "good")
    ~> (live = file.theme \/ app # "up" \/ file.state # "good" \/ missed)
=============================================================================
