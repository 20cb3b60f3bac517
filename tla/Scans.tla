------------------------------- MODULE Scans -------------------------------
(***************************************************************************)
(* The sidebar and the session files: the file watch (scan/watch.rs,        *)
(* shell/streams.rs), the scans it asks for, at most one at a time          *)
(* (Shell::rescan, scan_settled), what they find and what they keep for the *)
(* next one (scan/walk.rs, scan/cache.rs).                                  *)
(*                                                                         *)
(* Claude appends to the session files all the time, so a scan reads them   *)
(* while they change: of each it takes the signature, and reads it if that  *)
(* is not the one in the cache.  A file is its version; two versions differ *)
(* in signature.                                                           *)
(***************************************************************************)
EXTENDS Naturals

CONSTANTS
  File,        \* the session files
  MaxVersion,  \* bound on the changes of a file
  MaxFailed    \* bound on the scans that fail

ScansAssumption == {MaxVersion, MaxFailed} \subseteq Nat

VARIABLES
  tree,      \* per file, its version on disk
  started,   \* whether the shell runs
  watching,  \* whether the file watch is up
  event,     \* file events the watch thread has not coalesced yet
  messages,  \* the ProjectsChanged messages to come
  scanning,  \* Shell::scan_in_flight
  rescan_pending,
  found,     \* the scan under way: per file, [sig, digest], as far as it got
  cache,     \* what the scan before learned: per file, [sig, digest]
  shown,     \* the sidebar: per file, the version shown
  scan_error,
  failures,  \* the scans that failed so far
  due        \* history: per file, the last version written under the watch

scan == <<scanning, rescan_pending, found>>
vars == <<tree, started, watching, event, messages, scan, cache, shown, scan_error, failures,
          due>>

Version == 0 .. MaxVersion
Unread == MaxVersion + 1
Entry == [sig : Version \cup {Unread}, digest : Version \cup {Unread}]
NothingFound == [k \in File |-> [sig |-> Unread, digest |-> Unread]]

TypeOK ==
  /\ {tree, shown, due} \subseteq [File -> Version]
  /\ {started, watching, event, scanning, rescan_pending, scan_error} \subseteq BOOLEAN
  /\ messages \in Nat
  /\ {found, cache} \subseteq [File -> Entry]
  /\ failures \in 0 .. MaxFailed
  /\ rescan_pending => scanning

-----------------------------------------------------------------------------
Change(k) ==
  /\ tree[k] < MaxVersion
  /\ tree' = [tree EXCEPT ![k] = @ + 1]
  /\ event' = (event \/ watching)
  /\ due' = IF watching THEN [due EXCEPT ![k] = tree'[k]] ELSE due
  /\ UNCHANGED <<started, watching, messages, scan, cache, shown, scan_error, failures>>

\* The shell starts with a scan of its own.
Boot ==
  /\ ~started
  /\ started' = TRUE
  /\ scanning' = TRUE /\ UNCHANGED <<rescan_pending, found>>
  /\ UNCHANGED <<tree, watching, event, messages, cache, shown, scan_error, failures, due>>

\* watch_stream; if the watch cannot start this step is never taken.
Watch ==
  /\ started /\ ~watching
  /\ watching' = TRUE
  /\ UNCHANGED <<tree, started, event, messages, scan, cache, shown, scan_error, failures, due>>

\* One message for a burst of events.
Burst ==
  /\ event
  /\ event' = FALSE
  /\ messages' = messages + 1
  /\ UNCHANGED <<tree, started, watching, scan, cache, shown, scan_error, failures, due>>

\* Mutant of rescan: a change that comes during a scan is taken for part of it.
RescanUnlessScanning ==
  IF scanning
  THEN UNCHANGED scan
  ELSE scanning' = TRUE /\ found' = NothingFound /\ UNCHANGED rescan_pending

\* Shell::rescan.
rescan ==
  IF scanning
  THEN rescan_pending' = TRUE /\ UNCHANGED <<scanning, found>>
  ELSE scanning' = TRUE /\ found' = NothingFound /\ UNCHANGED rescan_pending

ProjectsChanged ==
  /\ messages > 0
  /\ messages' = messages - 1
  /\ rescan
  /\ UNCHANGED <<tree, started, watching, event, cache, shown, scan_error, failures, due>>

\* scan_folder: the signature first, ...
file_sig(k) ==
  /\ scanning /\ found[k].sig = Unread
  /\ found' = [found EXCEPT ![k].sig = tree[k]]
  /\ UNCHANGED <<tree, started, watching, event, messages, scanning, rescan_pending, cache,
                 shown, scan_error, failures, due>>

\* ... then the digest, from the cache under that signature or else the file.
Digest(k) ==
  /\ scanning /\ found[k].sig # Unread /\ found[k].digest = Unread
  /\ found' = [found EXCEPT ![k].digest =
                 IF found[k].sig = cache[k].sig THEN cache[k].digest ELSE tree[k]]
  /\ UNCHANGED <<tree, started, watching, event, messages, scanning, rescan_pending, cache,
                 shown, scan_error, failures, due>>

\* Mutant of scan_settled: the pending flag outlives the scan it asked for.
SettledStillPending ==
  /\ scanning' = FALSE
  /\ UNCHANGED rescan_pending
  /\ found' = NothingFound

\* Shell::scan_settled: the changes that came meanwhile make one more scan.
scan_settled ==
  /\ scanning' = rescan_pending
  /\ rescan_pending' = FALSE
  /\ found' = NothingFound

\* The scan's generation replaces the cache, and its records the sidebar's.
ScanCompleted ==
  /\ scanning /\ \A k \in File : found[k].digest # Unread
  /\ cache' = found
  /\ shown' = [k \in File |-> found[k].digest]
  /\ scan_error' = FALSE
  /\ scan_settled
  /\ UNCHANGED <<tree, started, watching, event, messages, failures, due>>

\* The root cannot be read: nothing is learned.
ScanFailed ==
  /\ scanning /\ found = NothingFound /\ failures < MaxFailed
  /\ failures' = failures + 1
  /\ scan_error' = TRUE
  /\ scan_settled
  /\ UNCHANGED <<tree, started, watching, event, messages, cache, shown, due>>

-----------------------------------------------------------------------------
Init ==
  /\ tree = [k \in File |-> 0] /\ shown = tree /\ due = tree
  /\ started = FALSE /\ watching = FALSE /\ event = FALSE /\ messages = 0
  /\ scanning = FALSE /\ rescan_pending = FALSE /\ found = NothingFound
  /\ cache = NothingFound /\ scan_error = FALSE /\ failures = 0

Scan == (\E k \in File : file_sig(k) \/ Digest(k)) \/ ScanCompleted

Next ==
  \/ \E k \in File : Change(k)
  \/ Boot \/ Watch \/ Burst \/ ProjectsChanged \/ Scan \/ ScanFailed

\* The watch thread, the message loop and a scan go on.
Fairness == WF_vars(Burst) /\ WF_vars(ProjectsChanged) /\ WF_vars(Scan)

Spec == Init /\ [][Next]_vars /\ Fairness

-----------------------------------------------------------------------------
\* The sidebar never shows an older file than it did, and a change made under
\* the watch comes to be shown, however many come during a scan and whatever
\* the cache holds, unless the last scan's failure is shown in its place
\* (rescan, scan_settled, scan_folder).
SidebarForward == [][\A k \in File : shown'[k] >= shown[k]]_vars
ChangeShown ==
  \A k \in File : \A v \in Version : due[k] >= v ~> (shown[k] >= v \/ scan_error)
=============================================================================
