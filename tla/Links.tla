------------------------------- MODULE Links -------------------------------
(***************************************************************************)
(* termherd:// links between processes: a launch that was given a link puts *)
(* it in the inbox directory (app/link_inbox.rs) and then claims the        *)
(* single-instance lock (app/instance.rs); the instance that runs watches   *)
(* the directory and drains it (shell/links.rs, scan/watch.rs).             *)
(*                                                                         *)
(* Every file operation is a step, and any process may be killed between    *)
(* two of them.  Where the lock cannot be made a launch runs without it, so *)
(* two instances may drain the inbox at a time.  A link is named by the     *)
(* launch that was given it.                                               *)
(***************************************************************************)
EXTENDS Naturals, FiniteSets

CONSTANTS
  Launch,      \* the launches, each started once
  Given,       \* those given a link
  MaxFailed,   \* bound on removals that fail
  Nobody       \* no launch

LinksAssumption ==
  /\ IsFiniteSet(Launch)
  /\ Given \subseteq Launch
  /\ MaxFailed \in Nat
  /\ Nobody \notin Launch

VARIABLES
  at,        \* per launch, the step it is at
  lock,      \* who holds the single-instance lock
  link,      \* per launch, where its link is
  stamp,     \* per launch, the place of its entry's name in the order of names
  changed,   \* per launch: [event, message], a file event and a LinkInboxChanged to come
  drain,     \* per launch, the drain under way: [waiting, hand, taken]
  acted,     \* per link, the number of times it was acted on
  failed     \* the links whose entry could not be removed

vars == <<at, lock, link, stamp, changed, drain, acted, failed>>

Steps == {"off", "draft", "entry", "clean", "claim", "starting", "watching", "up", "gone"}
Alive(p) == at[p] \notin {"off", "gone"}
Watching == {p \in Launch : at[p] \in {"watching", "up"}}
Waiting == {l \in Launch : link[l] = "entry"}
NoDrain == [waiting |-> {}, hand |-> Nobody, taken |-> {}]
Draining(p) == drain[p] # NoDrain

TypeOK ==
  /\ at \in [Launch -> Steps]
  /\ lock \in Launch \cup {Nobody}
  /\ link \in [Launch -> {"none", "draft", "entry", "taken", "lost"}]
  /\ stamp \in [Launch -> 0 .. Cardinality(Launch)]
  /\ changed \in [Launch -> [event : BOOLEAN, message : BOOLEAN]]
  /\ drain \in [Launch -> [waiting : SUBSET Launch, hand : Launch \cup {Nobody},
                           taken : SUBSET Launch]]
  /\ acted \in [Launch -> Nat]
  /\ failed \subseteq Launch
  /\ lock # Nobody => Alive(lock)

\* Any change in the directory is an event for every watcher.
Event == [p \in Launch |-> [changed[p] EXCEPT !.event = @ \/ p \in Watching]]
Go(p, step) == at' = [at EXCEPT ![p] = step]

-----------------------------------------------------------------------------
(* A launch: main, deposit and claim.                                      *)

Start(p) ==
  /\ at[p] = "off"
  /\ Go(p, IF p \in Given THEN "draft" ELSE "claim")
  /\ UNCHANGED <<lock, link, stamp, changed, drain, acted, failed>>

\* The draft is written whole under a name no drain looks at.
DepositDraft(p) ==
  /\ at[p] = "draft"
  /\ stamp' = [stamp EXCEPT ![p] = Cardinality({q \in Launch : stamp[q] > 0}) + 1]
  /\ link' = [link EXCEPT ![p] = "draft"]
  /\ changed' = Event
  /\ Go(p, "entry")
  /\ UNCHANGED <<lock, drain, acted, failed>>

\* The hard link is the entry: it appears whole.
DepositEntry(p) ==
  /\ at[p] = "entry"
  /\ link' = [link EXCEPT ![p] = "entry"]
  /\ changed' = Event
  /\ Go(p, "clean")
  /\ UNCHANGED <<lock, stamp, drain, acted, failed>>

RemoveDraft(p) ==
  /\ at[p] = "clean"
  /\ changed' = Event
  /\ Go(p, "claim")
  /\ UNCHANGED <<lock, link, stamp, drain, acted, failed>>

\* acquire_single_instance: hold the lock, run without one, or leave.
Claim(p) ==
  /\ at[p] = "claim"
  /\ \/ lock = Nobody /\ lock' = p /\ Go(p, "starting")
     \/ UNCHANGED lock /\ Go(p, "starting")
     \/ lock # Nobody /\ UNCHANGED lock /\ Go(p, "gone")
  /\ UNCHANGED <<link, stamp, changed, drain, acted, failed>>

-----------------------------------------------------------------------------
(* A running instance.                                                     *)

\* inbox_watch_stream: the watch begins, and then one message is sent for
\* what came before it.
Watch(p) ==
  /\ at[p] = "starting"
  /\ Go(p, "watching")
  /\ UNCHANGED <<lock, link, stamp, changed, drain, acted, failed>>

FirstChange(p) ==
  /\ at[p] = "watching"
  /\ Go(p, "up")
  /\ changed' = [changed EXCEPT ![p].message = TRUE]
  /\ UNCHANGED <<lock, link, stamp, drain, acted, failed>>

\* The watch thread: one message for a burst of events.
Burst(p) ==
  /\ at[p] = "up" /\ changed[p].event
  /\ changed' = [changed EXCEPT ![p] = [event |-> FALSE, message |-> TRUE]]
  /\ UNCHANGED <<at, lock, link, stamp, drain, acted, failed>>

\* Message::LinkInboxChanged: drain lists the directory, ...
Drain(p) ==
  /\ changed[p].message /\ ~Draining(p)
  /\ changed' = [changed EXCEPT ![p].message = FALSE]
  /\ drain' = [drain EXCEPT ![p].waiting = Waiting]
  /\ UNCHANGED <<at, lock, link, stamp, acted, failed>>

Oldest(p) == CHOOSE l \in drain[p].waiting :
               \A m \in drain[p].waiting : stamp[l] <= stamp[m]

\* ... reads each entry, oldest first, ...
ReadLink(p) ==
  /\ drain[p].waiting # {} /\ drain[p].hand = Nobody
  /\ LET l == Oldest(p)
     IN  drain' = [drain EXCEPT ![p].waiting = @ \ {l},
                                ![p].hand = IF link[l] = "entry" THEN l ELSE Nobody]
  /\ UNCHANGED <<at, lock, link, stamp, changed, acted, failed>>

\* Mutant of Take: the link read is acted on whether or not its entry was removed.
TakeUnremoved(p) ==
  LET l == drain[p].hand
  IN  /\ l # Nobody
      /\ link' = [link EXCEPT ![l] = "taken"]
      /\ drain' = [drain EXCEPT ![p].hand = Nobody, ![p].taken = @ \cup {l}]
      /\ changed' = Event
      /\ UNCHANGED <<at, lock, stamp, acted, failed>>

\* ... and removes it.  An entry it did not remove itself is not its own: the
\* other instance took it, or the removal failed.
Take(p) ==
  LET l == drain[p].hand
  IN  /\ l # Nobody
      /\ \/ /\ link[l] = "entry"
            /\ link' = [link EXCEPT ![l] = "taken"]
            /\ drain' = [drain EXCEPT ![p].hand = Nobody, ![p].taken = @ \cup {l}]
            /\ changed' = Event
            /\ UNCHANGED failed
         \/ /\ \/ link[l] # "entry" /\ UNCHANGED failed
               \/ Cardinality(failed) < MaxFailed /\ failed' = failed \cup {l}
            /\ drain' = [drain EXCEPT ![p].hand = Nobody]
            /\ UNCHANGED <<link, changed>>
      /\ UNCHANGED <<at, lock, stamp, acted>>

\* drain_link_inbox acts on what the drain returned.
Act(p) ==
  /\ drain[p].waiting = {} /\ drain[p].hand = Nobody /\ drain[p].taken # {}
  /\ acted' = [l \in Launch |-> acted[l] + IF l \in drain[p].taken THEN 1 ELSE 0]
  /\ drain' = [drain EXCEPT ![p] = NoDrain]
  /\ UNCHANGED <<at, lock, link, stamp, changed, failed>>

\* The process ends, by itself or not, at any step; its lock goes with it,
\* and a link it took and did not act on is lost.
Kill(p) ==
  /\ Alive(p)
  /\ Go(p, "gone")
  /\ lock' = IF lock = p THEN Nobody ELSE lock
  /\ changed' = [changed EXCEPT ![p] = [event |-> FALSE, message |-> FALSE]]
  /\ drain' = [drain EXCEPT ![p] = NoDrain]
  /\ link' = [l \in Launch |-> IF l \in drain[p].taken THEN "lost" ELSE link[l]]
  /\ UNCHANGED <<stamp, acted, failed>>

-----------------------------------------------------------------------------
Init ==
  /\ at = [p \in Launch |-> "off"]
  /\ lock = Nobody
  /\ link = [p \in Launch |-> "none"]
  /\ stamp = [p \in Launch |-> 0]
  /\ changed = [p \in Launch |-> [event |-> FALSE, message |-> FALSE]]
  /\ drain = [p \in Launch |-> NoDrain]
  /\ acted = [p \in Launch |-> 0]
  /\ failed = {}

\* The steps a running process takes by itself.
Runs(p) ==
  \/ DepositDraft(p) \/ DepositEntry(p) \/ RemoveDraft(p) \/ Claim(p)
  \/ Watch(p) \/ FirstChange(p) \/ Burst(p)
  \/ Drain(p) \/ ReadLink(p) \/ Take(p) \/ Act(p)

Next == \E p \in Launch : Start(p) \/ Runs(p) \/ Kill(p)

\* A process that is not killed goes on: its threads run and the watch
\* delivers the events.
Fairness == \A p \in Launch : WF_vars(Runs(p))

Spec == Init /\ [][Next]_vars /\ Fairness

-----------------------------------------------------------------------------
\* No link is acted on twice, whatever instances drain it and whichever
\* removals fail (link_inbox::take).
ActedOnce == [][\A l \in Launch : acted'[l] <= 1]_vars

\* A link in the inbox while an instance is up is acted on, though it came
\* before the watch or during a drain, unless no instance stays up, its taker
\* is killed or its entry cannot be removed (inbox_watch_stream).
LinkReached ==
  \A l \in Launch :
    (link[l] = "entry" /\ Watching # {})
      ~> (acted[l] > 0 \/ link[l] = "lost" \/ l \in failed \/ Watching = {})
=============================================================================
