------------------------------- MODULE MCApp --------------------------------
(***************************************************************************)
(* The instances of App that TLC checks.  Directories multiply with kinds   *)
(* and reports: of the two, one varies at a time.                           *)
(***************************************************************************)
EXTENDS App

CONSTANTS repo, home

Sessions == {app.live[s] : s \in Registered(app)}

\* All sessions, open or to reopen, are of one directory, or all are shells
\* that have reported nothing but their exit.
OneVaries ==
  \/ \A t \in Sessions \cup Range(app.closed) : t.cwd = repo
  \/ /\ \A t \in Sessions \cup Range(app.closed) : t.launch = "Shell"
     /\ \A t \in Sessions : t.status \notin Report

MCSpec == Init /\ [][Next /\ OneVaries']_vars
=============================================================================
