---------------------------- MODULE TasksProofs ----------------------------
(***************************************************************************)
(* Proofs about the four components of MCTasks, for any launches, files,    *)
(* panes, options and bounds.  Each has an invariant of its own:            *)
(*                                                                         *)
(*   LinksInv     a link read belongs to one drain, which removed its entry *)
(*   SettingsInv  a mark that must last is where every write under way will *)
(*                leave it                                                 *)
(*   HoverInv     what is underlined, or waits to be, for a pane whose      *)
(*                canvas missed nothing, is what the pane last reported, and *)
(*                the pointer is over it or gone                            *)
(*   ScansInv     what is shown, what a scan found and what is on disk are  *)
(*                in this order                                             *)
(*                                                                         *)
(* and LinksRest, HoverRest and ScansRest are the types of what they leave   *)
(* out.                                                                     *)
(***************************************************************************)
EXTENDS MCTasks, FiniteSetTheorems, WellFoundedInduction, TLAPS

-----------------------------------------------------------------------------
(* The link inbox.                                                         *)

IsDrain(r) == r = [waiting |-> r.waiting, hand |-> r.hand, taken |-> r.taken]
DrainOK(d) == d = [i \in Launch |-> d[i]] /\ \A i \in Launch : IsDrain(d[i])

\* The steps of a drain: the two that matter to nobody else, a link taken, the end.
Moved(d, i, waiting, hand) == [d EXCEPT ![i].waiting = waiting, ![i].hand = hand]
Took(d, i, l) == [d EXCEPT ![i].hand = Nobody, ![i].taken = @ \cup {l}]
Ended(d, i) == [d EXCEPT ![i] = L!NoDrain]

LinksTyped ==
  /\ at \in [Launch -> L!Steps]
  /\ link \in [Launch -> {"none", "draft", "entry", "taken", "lost"}]
  /\ acted \in [Launch -> Nat]
  /\ DrainOK(drain)

\* A launch has put its link nowhere before it deposits it.
Undeposited(l) ==
  /\ at[l] \in {"off", "draft"} => link[l] = "none"
  /\ at[l] = "entry" => link[l] = "draft"

Owns(i, l) == l \in drain[i].taken => link[l] = "taken" /\ acted[l] = 0
Sole(i, j, l) == l \in drain[i].taken /\ l \in drain[j].taken => i = j
AtMostOnce(l) == acted[l] <= 1 /\ (acted[l] > 0 => link[l] = "taken")

LinksInv ==
  /\ LinksTyped
  /\ \A l \in Launch : Undeposited(l) /\ AtMostOnce(l)
  /\ \A i, l \in Launch : Owns(i, l)
  /\ \A i, j, l \in Launch : Sole(i, j, l)

-----------------------------------------------------------------------------
(* A drain moves on: what it waits for and has in hand is nobody's concern. *)
LEMMA DrainMoved ==
  ASSUME NEW d, DrainOK(d), NEW i \in Launch, NEW waiting, NEW hand, NEW e,
         e = Moved(d, i, waiting, hand)
  PROVE  /\ DrainOK(e)
         /\ \A j \in Launch : e[j].taken = d[j].taken
<1>1. e = [j \in Launch |-> e[j]]
  BY DEF DrainOK, Moved
<1>2. \A j \in Launch \ {i} : e[j] = d[j]
  BY DEF DrainOK, Moved
<1>3. PICK r : r = d[i]
  OBVIOUS
<1>4. PICK moved : moved = [r EXCEPT !.waiting = waiting, !.hand = hand]
  OBVIOUS
<1>5. IsDrain(r) /\ e[i] = moved
  BY <1>3, <1>4 DEF DrainOK, Moved
<1>6. IsDrain(moved) /\ moved.taken = r.taken
  BY <1>4, <1>5 DEF IsDrain
<1>7. IsDrain(e[i]) /\ e[i].taken = d[i].taken
  BY <1>3, <1>5, <1>6
<1>8. \A j \in Launch : IsDrain(e[j])
  BY <1>2, <1>7 DEF DrainOK
<1> QED
  BY <1>1, <1>2, <1>7, <1>8 DEF DrainOK

(* A drain takes the link it had in hand. *)
LEMMA DrainTook ==
  ASSUME NEW d, DrainOK(d), NEW i \in Launch, NEW l, NEW e,
         e = Took(d, i, l)
  PROVE  /\ DrainOK(e)
         /\ e[i].taken = d[i].taken \cup {l}
         /\ \A j \in Launch \ {i} : e[j].taken = d[j].taken
<1>1. e = [j \in Launch |-> e[j]]
  BY DEF DrainOK, Took
<1>2. \A j \in Launch \ {i} : e[j] = d[j]
  BY DEF DrainOK, Took
<1>3. PICK r : r = d[i]
  OBVIOUS
<1>4. PICK took : took = [r EXCEPT !.hand = Nobody, !.taken = r.taken \cup {l}]
  OBVIOUS
<1>5. IsDrain(r) /\ e[i] = took
  BY <1>3, <1>4 DEF DrainOK, Took
<1>6. IsDrain(took) /\ took.taken = r.taken \cup {l}
  BY <1>4, <1>5 DEF IsDrain
<1>7. IsDrain(e[i]) /\ e[i].taken = d[i].taken \cup {l}
  BY <1>3, <1>5, <1>6
<1>8. \A j \in Launch : IsDrain(e[j])
  BY <1>2, <1>7 DEF DrainOK
<1> QED
  BY <1>1, <1>2, <1>7, <1>8 DEF DrainOK

(* A drain ends, acted on or killed: it holds nothing any more. *)
LEMMA DrainEnded ==
  ASSUME NEW d, DrainOK(d), NEW i \in Launch, NEW e, e = Ended(d, i)
  PROVE  /\ DrainOK(e)
         /\ e[i].taken = {}
         /\ \A j \in Launch \ {i} : e[j].taken = d[j].taken
<1>1. IsDrain(L!NoDrain) /\ L!NoDrain.taken = {}
  BY DEF IsDrain, L!NoDrain
<1>2. e = [j \in Launch |-> e[j]] /\ e[i] = L!NoDrain /\ \A j \in Launch \ {i} : e[j] = d[j]
  BY DEF DrainOK, Ended
<1> QED
  BY <1>1, <1>2 DEF DrainOK

(* At first no link is anywhere. *)
LEMMA LinksInit ==
  ASSUME L!Init
  PROVE  LinksInv
<1>1. \A i \in Launch : drain[i].taken = {}
  BY DEF L!Init, L!NoDrain
<1>2. LinksTyped
  <2>1. DrainOK(drain)
    BY DEF L!Init, DrainOK, IsDrain, L!NoDrain
  <2> QED
    BY <2>1 DEF L!Init, LinksTyped, L!Steps
<1>3. \A l \in Launch : Undeposited(l) /\ AtMostOnce(l)
  BY DEF L!Init, Undeposited, AtMostOnce
<1> QED
  BY <1>1, <1>2, <1>3 DEF LinksInv, Owns, Sole

(* Moves of a launch that leave its link where it is, past the deposit. *)
LEMMA ProcessMoves ==
  ASSUME LinksInv, NEW i \in Launch, NEW step \in L!Steps \ {"off", "draft", "entry"},
         L!Go(i, step), UNCHANGED <<link, drain, acted>>
  PROVE  LinksInv'
<1>1. at' \in [Launch -> L!Steps] /\ \A l \in Launch : at'[l] = at[l] \/ at'[l] = step
  BY DEF L!Go, LinksInv, LinksTyped
<1>2. LinksTyped'
  BY <1>1 DEF LinksInv, LinksTyped
<1>3. \A l \in Launch : (Undeposited(l) /\ AtMostOnce(l))'
  BY <1>1 DEF LinksInv, Undeposited, AtMostOnce
<1>4. \A j, l \in Launch : Owns(j, l)'
  BY DEF LinksInv, Owns
<1>5. \A j, r, l \in Launch : Sole(j, r, l)'
  BY DEF LinksInv, Sole
<1> QED
  BY <1>2, <1>3, <1>4, <1>5 DEF LinksInv

(* A launch starts, with a link to deposit or without. *)
LEMMA StartKeeps ==
  ASSUME LinksInv, NEW i \in Launch, L!Start(i)
  PROVE  LinksInv'
<1>1. CASE i \in Given
  <2>1. at[i] = "off" /\ at' = [at EXCEPT ![i] = "draft"] /\ UNCHANGED <<link, drain, acted>>
    BY <1>1 DEF L!Start, L!Go
  <2>2. LinksTyped'
    BY <2>1 DEF LinksInv, LinksTyped, L!Steps
  <2>3. \A l \in Launch : (Undeposited(l) /\ AtMostOnce(l))'
    BY <2>1 DEF LinksInv, LinksTyped, Undeposited, AtMostOnce
  <2>4. \A j, l \in Launch : Owns(j, l)'
    BY <2>1 DEF LinksInv, Owns
  <2>5. \A j, r, l \in Launch : Sole(j, r, l)'
    BY <2>1 DEF LinksInv, Sole
  <2> QED
    BY <2>2, <2>3, <2>4, <2>5 DEF LinksInv
<1>2. CASE i \notin Given
  <2>1. L!Go(i, "claim") /\ UNCHANGED <<link, drain, acted>>
    BY <1>2 DEF L!Start
  <2> QED
    BY <2>1, ProcessMoves DEF L!Steps
<1> QED
  BY <1>1, <1>2

(* The deposit: the launch's own link, which nobody has seen. *)
LEMMA DepositKeeps ==
  ASSUME LinksInv, NEW i \in Launch, L!DepositDraft(i) \/ L!DepositEntry(i)
  PROVE  LinksInv'
<1>1. PICK here, step :
        /\ here = IF at[i] = "draft" THEN "draft" ELSE "entry"
        /\ step = IF at[i] = "draft" THEN "entry" ELSE "clean"
  OBVIOUS
<1>2. /\ at' = [at EXCEPT ![i] = step]
      /\ link' = [link EXCEPT ![i] = here]
      /\ UNCHANGED <<drain, acted>>
      /\ at[i] = "draft" \/ at[i] = "entry"
  BY <1>1 DEF L!DepositDraft, L!DepositEntry, L!Go
<1>3. link[i] = "none" \/ link[i] = "draft"
  BY <1>2 DEF LinksInv, Undeposited
<1>4. LinksTyped'
  <2>1. step \in L!Steps /\ here \in {"draft", "entry"}
    BY <1>1 DEF L!Steps
  <2> QED
    BY <1>2, <2>1 DEF LinksInv, LinksTyped
<1>5. ASSUME NEW l \in Launch PROVE (Undeposited(l) /\ AtMostOnce(l))'
  <2>1. CASE l = i
    <3>1. at'[l] = step /\ link'[l] = here /\ acted'[l] = acted[l]
      BY <1>2, <2>1 DEF LinksInv, LinksTyped
    <3>2. acted[l] <= 1 /\ ~(acted[l] > 0)
      BY <1>3, <2>1 DEF LinksInv, AtMostOnce
    <3>3. Undeposited(l)'
      BY <1>1, <3>1 DEF Undeposited
    <3>4. AtMostOnce(l)'
      BY <3>1, <3>2 DEF AtMostOnce
    <3> QED
      BY <3>3, <3>4
  <2>2. CASE l # i
    <3>1. at'[l] = at[l] /\ link'[l] = link[l] /\ acted'[l] = acted[l]
      BY <1>2, <2>2 DEF LinksInv, LinksTyped
    <3> QED
      BY <3>1 DEF LinksInv, Undeposited, AtMostOnce
  <2> QED
    BY <2>1, <2>2
<1>6. ASSUME NEW j \in Launch, NEW l \in Launch PROVE Owns(j, l)'
  <2>1. l \in drain[j].taken => link[l] = "taken" /\ acted[l] = 0
    BY DEF LinksInv, Owns
  <2>2. l # i => link'[l] = link[l]
    BY <1>2 DEF LinksInv, LinksTyped
  <2> QED
    BY <1>2, <1>3, <2>1, <2>2 DEF Owns
<1>7. \A j, r, l \in Launch : Sole(j, r, l)'
  BY <1>2 DEF LinksInv, Sole
<1> QED
  BY <1>4, <1>5, <1>6, <1>7 DEF LinksInv

(* A drain begins, reads on, or finds that an entry is not its own. *)
LEMMA DrainMoveKeeps ==
  ASSUME LinksInv, NEW i \in Launch, NEW waiting, NEW hand,
         drain' = Moved(drain, i, waiting, hand),
         UNCHANGED <<at, link, acted>>
  PROVE  LinksInv'
<1>1. DrainOK(drain') /\ \A j \in Launch : drain'[j].taken = drain[j].taken
  BY DrainMoved DEF LinksInv, LinksTyped
<1>2. LinksTyped'
  BY <1>1 DEF LinksInv, LinksTyped
<1> QED
  BY <1>1, <1>2 DEF LinksInv, Undeposited, AtMostOnce, Owns, Sole

(* The entry that was there is gone by this removal, so the link is this    *)
(* drain's and no other's.                                                  *)
LEMMA RemovedKeeps ==
  ASSUME LinksInv, NEW i \in Launch, NEW l, link[l] = "entry",
         link' = [link EXCEPT ![l] = "taken"],
         drain' = Took(drain, i, l),
         UNCHANGED <<at, acted>>
  PROVE  LinksInv'
<1>1. /\ DrainOK(drain')
      /\ drain'[i].taken = drain[i].taken \cup {l}
      /\ \A j \in Launch \ {i} : drain'[j].taken = drain[j].taken
  BY DrainTook DEF LinksInv, LinksTyped
<1>2. \A m \in Launch : link'[m] = IF m = l THEN "taken" ELSE link[m]
  BY DEF LinksInv, LinksTyped
<1>3. LinksTyped'
  BY <1>1 DEF LinksInv, LinksTyped
<1>4. ASSUME NEW m \in Launch PROVE (Undeposited(m) /\ AtMostOnce(m))'
  <2>1. Undeposited(m) /\ AtMostOnce(m)
    BY DEF LinksInv
  <2> QED
    BY <1>2, <2>1 DEF Undeposited, AtMostOnce
<1>5. \A j \in Launch : l \notin drain[j].taken \/ l \notin Launch
  BY DEF LinksInv, Owns
<1>6. l \in Launch => acted[l] = 0
  BY DEF LinksInv, LinksTyped, AtMostOnce
<1>7. \A j, m \in Launch : Owns(j, m)'
  BY <1>1, <1>2, <1>6 DEF LinksInv, Owns
<1>8. \A j, r, m \in Launch : Sole(j, r, m)'
  BY <1>1, <1>5 DEF LinksInv, Sole
<1> QED
  BY <1>3, <1>4, <1>7, <1>8 DEF LinksInv

(* Acting on what a drain took: no other drain took any of it, so once each. *)
LEMMA ActKeeps ==
  ASSUME LinksInv, NEW i \in Launch, L!Act(i)
  PROVE  LinksInv'
<1>1. /\ acted' = [l \in Launch |-> acted[l] + IF l \in drain[i].taken THEN 1 ELSE 0]
      /\ drain' = Ended(drain, i)
      /\ UNCHANGED <<at, link>>
  BY DEF L!Act, Ended
<1>2. /\ DrainOK(drain')
      /\ drain'[i].taken = {}
      /\ \A j \in Launch \ {i} : drain'[j].taken = drain[j].taken
  BY <1>1, DrainEnded DEF LinksInv, LinksTyped
<1>3. LinksTyped'
  BY <1>1, <1>2 DEF LinksInv, LinksTyped
<1>4. ASSUME NEW l \in Launch PROVE (Undeposited(l) /\ AtMostOnce(l))'
  <2>1. CASE l \in drain[i].taken
    <3>1. acted'[l] = 1 /\ link[l] = "taken"
      BY <1>1, <2>1 DEF LinksInv, Owns
    <3> QED
      BY <1>1, <3>1 DEF LinksInv, Undeposited, AtMostOnce
  <2>2. CASE l \notin drain[i].taken
    <3>1. acted'[l] = acted[l]
      BY <1>1, <2>2 DEF LinksInv, LinksTyped
    <3> QED
      BY <1>1, <3>1 DEF LinksInv, Undeposited, AtMostOnce
  <2> QED
    BY <2>1, <2>2
<1>5. ASSUME NEW j \in Launch, NEW l \in Launch PROVE Owns(j, l)'
  <2>1. l \in drain'[j].taken => l \in drain[j].taken /\ l \notin drain[i].taken
    BY <1>2 DEF LinksInv, Sole
  <2>2. l \notin drain[i].taken => acted'[l] = acted[l]
    BY <1>1 DEF LinksInv, LinksTyped
  <2> QED
    BY <1>1, <2>1, <2>2 DEF LinksInv, Owns
<1>6. \A j, r, l \in Launch : Sole(j, r, l)'
  BY <1>2 DEF LinksInv, Sole
<1> QED
  BY <1>3, <1>4, <1>5, <1>6 DEF LinksInv

(* What a killed instance took is lost, and what was acted on stays so. *)
LEMMA KillKeeps ==
  ASSUME LinksInv, NEW i \in Launch, L!Kill(i)
  PROVE  LinksInv'
<1>1. /\ at' = [at EXCEPT ![i] = "gone"]
      /\ drain' = Ended(drain, i)
      /\ link' = [l \in Launch |-> IF l \in drain[i].taken THEN "lost" ELSE link[l]]
      /\ acted' = acted
  BY DEF L!Kill, L!Go, Ended
<1>2. /\ DrainOK(drain')
      /\ drain'[i].taken = {}
      /\ \A j \in Launch \ {i} : drain'[j].taken = drain[j].taken
  BY <1>1, DrainEnded DEF LinksInv, LinksTyped
<1>3. LinksTyped'
  BY <1>1, <1>2 DEF LinksInv, LinksTyped, L!Steps
<1>4. ASSUME NEW l \in Launch PROVE (Undeposited(l) /\ AtMostOnce(l))'
  <2>1. l \in drain[i].taken => link[l] = "taken" /\ acted[l] = 0
    BY DEF LinksInv, Owns
  <2>2. Undeposited(l) /\ AtMostOnce(l)
    BY DEF LinksInv
  <2>3. at'[l] = at[l] \/ at'[l] = "gone"
    BY <1>1 DEF LinksInv, LinksTyped
  <2> QED
    BY <1>1, <2>1, <2>2, <2>3 DEF Undeposited, AtMostOnce
<1>5. ASSUME NEW j \in Launch, NEW l \in Launch PROVE Owns(j, l)'
  <2>1. l \in drain'[j].taken => l \in drain[j].taken /\ l \notin drain[i].taken
    BY <1>2 DEF LinksInv, Sole
  <2> QED
    BY <1>1, <2>1 DEF LinksInv, Owns
<1>6. \A j, r, l \in Launch : Sole(j, r, l)'
  BY <1>2 DEF LinksInv, Sole
<1> QED
  BY <1>3, <1>4, <1>5, <1>6 DEF LinksInv

(* Every step a running process takes by itself. *)
LEMMA RunsKeeps ==
  ASSUME LinksInv, NEW i \in Launch, L!Runs(i)
  PROVE  LinksInv'
<1>1. CASE L!DepositDraft(i) \/ L!DepositEntry(i)
  BY <1>1, DepositKeeps
<1>2. CASE L!RemoveDraft(i)
  BY <1>2, ProcessMoves DEF L!RemoveDraft, L!Steps
<1>3. CASE L!Claim(i)
  <2>1. L!Go(i, "starting") \/ L!Go(i, "gone")
    BY <1>3 DEF L!Claim
  <2> QED
    BY <1>3, <2>1, ProcessMoves DEF L!Claim, L!Steps
<1>4. CASE L!Watch(i) \/ L!FirstChange(i)
  BY <1>4, ProcessMoves DEF L!Watch, L!FirstChange, L!Steps
<1>5. CASE L!Burst(i)
  BY <1>5 DEF L!Burst, LinksInv, LinksTyped, Undeposited, AtMostOnce, Owns, Sole
<1>6. CASE L!Drain(i)
  <2>1. drain' = Moved(drain, i, L!Waiting, drain[i].hand)
    BY <1>6 DEF L!Drain, Moved, LinksInv, LinksTyped, DrainOK, IsDrain
  <2> QED
    BY <1>6, <2>1, DrainMoveKeeps DEF L!Drain
<1>7. CASE L!ReadLink(i)
  <2>1. PICK waiting, hand :
          drain' = Moved(drain, i, waiting, hand)
    BY <1>7 DEF L!ReadLink, Moved
  <2> QED
    BY <1>7, <2>1, DrainMoveKeeps DEF L!ReadLink
<1>8. CASE L!Take(i)
  <2>1. PICK l : l = drain[i].hand
    OBVIOUS
  <2>2. CASE /\ link[l] = "entry"
             /\ link' = [link EXCEPT ![l] = "taken"]
             /\ drain' = Took(drain, i, l)
    BY <1>8, <2>2, RemovedKeeps DEF L!Take
  <2>3. CASE drain' = [drain EXCEPT ![i].hand = Nobody] /\ UNCHANGED link
    <3>1. drain' = Moved(drain, i, drain[i].waiting, Nobody)
      BY <2>3 DEF Moved, LinksInv, LinksTyped, DrainOK, IsDrain
    <3> QED
      BY <1>8, <2>3, <3>1, DrainMoveKeeps DEF L!Take
  <2> QED
    BY <1>8, <2>1, <2>2, <2>3 DEF L!Take, Took
<1>9. CASE L!Act(i)
  BY <1>9, ActKeeps
<1> QED
  BY <1>1, <1>2, <1>3, <1>4, <1>5, <1>6, <1>7, <1>8, <1>9 DEF L!Runs

(* LinksInv is kept by every step of the inbox. *)
LEMMA LinksNext ==
  ASSUME LinksInv, [L!Next]_(L!vars)
  PROVE  LinksInv'
<1>1. CASE UNCHANGED L!vars
  BY <1>1 DEF L!vars, LinksInv, LinksTyped, Undeposited, AtMostOnce, Owns, Sole
<1>2. CASE L!Next
  BY <1>2, StartKeeps, RunsKeeps, KillKeeps DEF L!Next
<1> QED
  BY <1>1, <1>2

-----------------------------------------------------------------------------
(* Whatever instances drain the inbox together, whichever removals fail and *)
(* whoever is killed at whatever step, no link is acted on twice            *)
(* (link_inbox::take).                                                      *)
THEOREM LinkOnce == L!Spec => L!ActedOnce
<1>1. L!Init => LinksInv
  BY LinksInit
<1>2. LinksInv /\ [L!Next]_(L!vars) => LinksInv'
  BY LinksNext
<1>3. LinksInv' => (\A l \in Launch : acted'[l] <= 1)
  BY DEF LinksInv, AtMostOnce
<1> QED
  BY <1>1, <1>2, <1>3, PTL DEF L!Spec, L!ActedOnce

-----------------------------------------------------------------------------
(* Types of the inbox: what LinksInv leaves out.                           *)

(* Any nonempty set of naturals has a least element. *)
LEMMA Least ==
  ASSUME NEW T, T \subseteq Nat, T # {}
  PROVE  \E x \in T : \A y \in T : x <= y
<1>1. PICK U : U = {1 .. n : n \in T}
  OBVIOUS
<1>2. U \subseteq FiniteSubsetsOf(Nat) /\ U # {}
  <2>1. ASSUME NEW n \in T PROVE 1 .. n \in SUBSET Nat /\ IsFiniteSet(1 .. n)
    <3>1. n \in Int /\ 1 \in Int
      OBVIOUS
    <3> QED
      BY <3>1, FS_Interval
  <2> QED
    BY <1>1, <2>1 DEF FiniteSubsetsOf
<1>3. PICK R : R = StrictSubsetOrdering(Nat)
  OBVIOUS
<1>4. IsWellFoundedOn(R, FiniteSubsetsOf(Nat))
  BY <1>3, FS_StrictSubsetOrderingWellFounded
<1>5. PICK I \in U : \A J \in U : ~ (<<J, I>> \in R)
  BY <1>2, <1>4, WFMin
<1>6. PICK x \in T : I = 1 .. x
  BY <1>1, <1>5
<1>7. ASSUME NEW y \in T, y < x PROVE FALSE
  <2>1. 1 .. y \in U
    BY <1>1
  <2>2. 1 .. y \subseteq 1 .. x /\ x \in 1 .. x /\ x \notin 1 .. y /\ 1 .. x \subseteq Nat
    BY <1>7
  <2>3. <<1 .. y, 1 .. x>> \in R
    BY <1>3, <2>2 DEF StrictSubsetOrdering
  <2> QED
    BY <1>5, <1>6, <2>1, <2>3
<1> QED
  BY <1>7

DrainRec == [waiting : SUBSET Launch, hand : Launch \cup {Nobody}, taken : SUBSET Launch]
ChangedRec == [event : BOOLEAN, message : BOOLEAN]

\* The lock is with a launch that went past its claim, and a launch has no place in
\* the order of names before it deposits.
LinksRest ==
  /\ lock \in Launch \cup {Nobody}
  /\ stamp \in [Launch -> 0 .. Cardinality(Launch)]
  /\ changed \in [Launch -> ChangedRec]
  /\ drain \in [Launch -> DrainRec]
  /\ failed \subseteq Launch
  /\ \A i \in Launch :
       /\ at[i] \in {"off", "draft"} => stamp[i] = 0
       /\ lock = i => at[i] \in {"starting", "watching", "up"}

(* The Links instance has its own copies of the operators on finite sets. *)
LEMMA SameCardinality ==
  \A T : L!Cardinality(T) = Cardinality(T)
BY Zenon DEF L!Cardinality, Cardinality

(* There are finitely many launches, by either copy of the operators. *)
LEMMA FinitelyMany ==
  ASSUME L!LinksAssumption
  PROVE  IsFiniteSet(Launch) /\ Cardinality(Launch) \in Nat
<1>1. IsFiniteSet(Launch)
  BY Zenon DEF L!LinksAssumption, L!IsFiniteSet, IsFiniteSet
<1> QED
  BY <1>1, FS_CardinalityType

(* The types hold at first. *)
LEMMA LinksRestInit ==
  ASSUME L!LinksAssumption, L!Init
  PROVE  LinksRest
<1>1. Cardinality(Launch) \in Nat
  BY FinitelyMany
<1>2. L!NoDrain \in DrainRec
  BY DEF L!NoDrain, DrainRec
<1> QED
  BY <1>1, <1>2 DEF L!Init, LinksRest, ChangedRec, L!LinksAssumption

(* The next place in the order of names: one launch at least has none yet. *)
LEMMA NextStamp ==
  ASSUME L!LinksAssumption, LinksRest, NEW i \in Launch, at[i] = "draft"
  PROVE  Cardinality({j \in Launch : stamp[j] > 0}) + 1 \in 0 .. Cardinality(Launch)
<1>1. PICK T : T = {j \in Launch : stamp[j] > 0}
  OBVIOUS
<1>2. stamp[i] = 0 /\ i \notin T /\ T \subseteq Launch
  BY <1>1 DEF LinksRest
<1>3. IsFiniteSet(Launch) /\ IsFiniteSet(T) /\ Cardinality(T) <= Cardinality(Launch)
  BY <1>2, FinitelyMany, FS_Subset
<1>4. Cardinality(T) # Cardinality(Launch)
  BY <1>2, <1>3, FS_Subset
<1>5. Cardinality(T) \in Nat /\ Cardinality(Launch) \in Nat
  BY <1>3, FS_CardinalityType
<1> QED
  BY <1>1, <1>3, <1>4, <1>5

(* What a change in the directory tells the watchers. *)
LEMMA EventTyped ==
  ASSUME LinksRest
  PROVE  L!Event \in [Launch -> ChangedRec]
<1>1. ASSUME NEW i \in Launch
      PROVE  [changed[i] EXCEPT !.event = @ \/ i \in L!Watching] \in ChangedRec
  <2>1. PICK r \in ChangedRec : r = changed[i]
    BY DEF LinksRest
  <2>2. PICK b \in BOOLEAN : b = (r.event \/ i \in L!Watching)
    OBVIOUS
  <2>3. [r EXCEPT !.event = b] \in ChangedRec
    BY <2>1 DEF ChangedRec
  <2> QED
    BY <2>1, <2>2, <2>3
<1> QED
  BY <1>1 DEF L!Event

(* A launch takes a step that leaves the lock and the names alone. *)
LEMMA StepTyped ==
  ASSUME LinksTyped, LinksRest, NEW i \in Launch, NEW step \in L!Steps \ {"off"},
         L!Go(i, step), UNCHANGED <<lock, stamp>>,
         step = "draft" => at[i] = "off",
         lock = i => step \in {"starting", "watching", "up"},
         changed' \in [Launch -> ChangedRec], UNCHANGED <<drain, failed>>
  PROVE  LinksRest'
<1>1. \A j \in Launch : at'[j] = IF j = i THEN step ELSE at[j]
  BY DEF L!Go, LinksTyped
<1> QED
  BY <1>1 DEF LinksRest, L!Steps

(* The oldest of the entries still to read is one of them. *)
LEMMA OldestTyped ==
  ASSUME L!LinksAssumption, LinksRest, NEW i \in Launch, drain[i].waiting # {}
  PROVE  L!Oldest(i) \in drain[i].waiting
<1>1. PICK W : W = drain[i].waiting
  OBVIOUS
<1>2. W \subseteq Launch /\ W # {}
  BY <1>1 DEF LinksRest, DrainRec
<1>3. \A l \in W : stamp[l] \in Nat
  <2>1. Cardinality(Launch) \in Nat
    BY FinitelyMany
  <2> QED
    BY <1>2, <2>1 DEF LinksRest
<1>4. PICK T : T = {stamp[l] : l \in W}
  OBVIOUS
<1>5. T \subseteq Nat /\ T # {}
  BY <1>2, <1>3, <1>4
<1>6. PICK x \in T : \A y \in T : x <= y
  BY <1>5, Least
<1>7. \E l \in W : \A m \in W : stamp[l] <= stamp[m]
  BY <1>4, <1>6
<1> QED
  BY <1>1, <1>7, Zenon DEF L!Oldest

(* Every step a running process takes by itself keeps the types. *)
LEMMA RunsTyped ==
  ASSUME L!LinksAssumption, LinksTyped, LinksRest, NEW i \in Launch, L!Runs(i)
  PROVE  LinksRest'
<1>0. at[i] = "claim" => lock # i
  BY DEF LinksRest
<1>1. CASE L!DepositDraft(i)
  <2>1. PICK k \in 0 .. Cardinality(Launch) :
          k = Cardinality({j \in Launch : stamp[j] > 0}) + 1
    BY <1>1, NextStamp DEF L!DepositDraft
  <2>2. /\ at[i] = "draft" /\ at' = [at EXCEPT ![i] = "entry"]
        /\ stamp' = [stamp EXCEPT ![i] = k]
        /\ UNCHANGED <<lock, drain, failed>>
    BY <1>1, <2>1, SameCardinality DEF L!DepositDraft, L!Go
  <2>3. changed' \in [Launch -> ChangedRec]
    BY <1>1, EventTyped DEF L!DepositDraft
  <2> QED
    BY <2>1, <2>2, <2>3 DEF LinksRest, LinksTyped
<1>2. CASE L!DepositEntry(i)
  BY <1>2, EventTyped, StepTyped DEF L!DepositEntry, LinksRest, L!Steps
<1>3. CASE L!RemoveDraft(i)
  BY <1>3, EventTyped, StepTyped DEF L!RemoveDraft, LinksRest, L!Steps
<1>4. CASE L!Claim(i)
  <2>1. changed' \in [Launch -> ChangedRec]
    BY <1>4 DEF L!Claim, LinksRest
  <2>2. CASE lock = Nobody /\ lock' = i /\ L!Go(i, "starting")
    BY <1>4, <2>1, <2>2 DEF L!Claim, L!Go, LinksRest, LinksTyped
  <2>3. CASE UNCHANGED lock /\ (L!Go(i, "starting") \/ L!Go(i, "gone"))
    BY <1>0, <1>4, <2>1, <2>3, StepTyped DEF L!Claim, L!Steps
  <2> QED
    BY <1>4, <2>2, <2>3 DEF L!Claim
<1>5. CASE L!Watch(i)
  BY <1>5, StepTyped DEF L!Watch, LinksRest, L!Steps
<1>6. CASE L!FirstChange(i)
  <2>1. changed' \in [Launch -> ChangedRec]
    BY <1>6 DEF L!FirstChange, LinksRest, ChangedRec
  <2> QED
    BY <1>6, <2>1, StepTyped DEF L!FirstChange, L!Steps
<1>7. CASE L!Burst(i)
  <2>1. changed' \in [Launch -> ChangedRec]
    BY <1>7 DEF L!Burst, LinksRest, ChangedRec
  <2> QED
    BY <1>7, <2>1 DEF L!Burst, LinksRest
<1>8. CASE L!Drain(i)
  <2>1. changed' \in [Launch -> ChangedRec]
    BY <1>8 DEF L!Drain, LinksRest, ChangedRec
  <2>2. drain' \in [Launch -> DrainRec]
    BY <1>8 DEF L!Drain, LinksRest, DrainRec, L!Waiting
  <2> QED
    BY <1>8, <2>1, <2>2 DEF L!Drain, LinksRest
<1>9. CASE L!ReadLink(i)
  <2>1. PICK l : l = L!Oldest(i) /\ l \in drain[i].waiting
    BY <1>9, OldestTyped DEF L!ReadLink
  <2>2. PICK hand : hand = IF link[l] = "entry" THEN l ELSE Nobody
    OBVIOUS
  <2>3. drain' = [drain EXCEPT ![i].waiting = @ \ {l}, ![i].hand = hand]
    BY <1>9, <2>1, <2>2 DEF L!ReadLink
  <2>4. l \in Launch /\ hand \in Launch \cup {Nobody}
    BY <2>1, <2>2 DEF LinksRest, DrainRec
  <2>5. drain' \in [Launch -> DrainRec]
    BY <2>3, <2>4 DEF LinksRest, DrainRec
  <2> QED
    BY <1>9, <2>5 DEF L!ReadLink, LinksRest
<1>10. CASE L!Take(i)
  <2>1. PICK l : l = drain[i].hand
    OBVIOUS
  <2>2. l \in Launch
    BY <1>10, <2>1 DEF L!Take, LinksRest, DrainRec
  <2>3. changed' \in [Launch -> ChangedRec]
    BY <1>10, EventTyped DEF L!Take, LinksRest
  <2>4. drain' \in [Launch -> DrainRec]
    <3>1. \/ drain' = [drain EXCEPT ![i].hand = Nobody, ![i].taken = @ \cup {l}]
          \/ drain' = [drain EXCEPT ![i].hand = Nobody]
      BY <1>10, <2>1 DEF L!Take
    <3> QED
      BY <2>2, <3>1 DEF LinksRest, DrainRec
  <2>5. failed' \subseteq Launch
    BY <1>10, <2>1, <2>2 DEF L!Take, LinksRest
  <2> QED
    BY <1>10, <2>3, <2>4, <2>5 DEF L!Take, LinksRest
<1>11. CASE L!Act(i)
  <2>1. L!NoDrain \in DrainRec
    BY DEF L!NoDrain, DrainRec
  <2>2. drain' \in [Launch -> DrainRec]
    BY <1>11, <2>1 DEF L!Act, LinksRest
  <2> QED
    BY <1>11, <2>2 DEF L!Act, LinksRest
<1> QED
  BY <1>1, <1>2, <1>3, <1>4, <1>5, <1>6, <1>7, <1>8, <1>9, <1>10, <1>11 DEF L!Runs

(* And so does every step of the inbox. *)
LEMMA LinksRestNext ==
  ASSUME L!LinksAssumption, LinksTyped, LinksRest, [L!Next]_(L!vars)
  PROVE  LinksRest'
<1>1. CASE UNCHANGED L!vars
  BY <1>1 DEF L!vars, LinksRest
<1>2. ASSUME NEW i \in Launch, L!Start(i)
      PROVE  LinksRest'
  <2>1. changed' \in [Launch -> ChangedRec]
    BY <1>2 DEF L!Start, LinksRest
  <2>2. PICK step \in {"draft", "claim"} : L!Go(i, step)
    BY <1>2 DEF L!Start
  <2> QED
    BY <1>2, <2>1, <2>2, StepTyped DEF L!Start, LinksRest, L!Steps
<1>3. ASSUME NEW i \in Launch, L!Kill(i)
      PROVE  LinksRest'
  <2>1. L!NoDrain \in DrainRec /\ [event |-> FALSE, message |-> FALSE] \in ChangedRec
    BY DEF L!NoDrain, DrainRec, ChangedRec
  <2>2. drain' \in [Launch -> DrainRec] /\ changed' \in [Launch -> ChangedRec]
    BY <1>3, <2>1 DEF L!Kill, LinksRest
  <2> QED
    BY <1>3, <2>2 DEF L!Kill, L!Go, LinksRest, LinksTyped, L!LinksAssumption
<1> QED
  BY <1>1, <1>2, <1>3, RunsTyped DEF L!Next

-----------------------------------------------------------------------------
(* settings.json.                                                          *)

(* A write in progress goes to the file at the path, or to file k set aside. *)
FillsAt(w, k) == writer[w].at = "fill" /\ writer[w].aside = k

(* Mark m outlives every write in progress in file k set aside. *)
InAside(m) ==
  \E k \in DOMAIN aside :
    /\ m \in aside[k] \/ \E w \in S!Writer : FillsAt(w, k)
    /\ \A w \in S!Writer : FillsAt(w, k) => m \in writer[w].text.marks

(* The same of the file at the path, and of the writes that have read it but not
   begun. *)
InFile(m) ==
  /\ file.state # "missing"
  /\ file.state = "torn" => \E w \in S!Writer : FillsAt(w, 0)
  /\ file.state # "torn" => m \in file.marks
  /\ \A w \in S!Writer : S!Busy(w) /\ writer[w].aside = 0 => m \in writer[w].text.marks

WriteRec == [at : {"rest", "truncate", "fill"}, text : S!Text, aside : 0 .. MaxAside,
             met : BOOLEAN]

SettingsTyped ==
  /\ file \in S!Text \cup {S!Missing, S!Torn}
  /\ aside \in Seq(SUBSET S!Mark) /\ Len(aside) <= MaxAside
  /\ writer \in [S!Writer -> WriteRec]
  /\ app \in {"off", "loaded", "aside", "up"}
  /\ live \in Theme
  /\ news \in [event : BOOLEAN, message : BOOLEAN]
  /\ missed \in BOOLEAN
  /\ kept \subseteq S!Mark
  /\ count \in [hand : 0 .. MaxHand, sets : 0 .. MaxSets, starts : 0 .. MaxStarts]

SettingsInv ==
  /\ SettingsTyped
  /\ S!Busy("hand") => kept = {}
  /\ \A w \in S!Writer :
       /\ writer[w].aside > 0 => writer[w].at = "fill"
       /\ writer[w].aside <= Len(aside)
  /\ \A m \in kept : InAside(m) \/ InFile(m)

-----------------------------------------------------------------------------
(* A writer as the others' writes leave it: only `met` may change. *)
Alike(r, s) == r.at = s.at /\ r.text = s.text /\ r.aside = s.aside

(* A write that lands within others leaves them where they are. *)
LEMMA MeetAlike ==
  ASSUME SettingsTyped, NEW w \in S!Writer, NEW u, u = S!Meet(w)
  PROVE  /\ u \in [S!Writer -> WriteRec]
         /\ u[w] = writer[w]
         /\ \A v \in S!Writer : Alike(u[v], writer[v])
<1>1. ASSUME NEW v \in S!Writer
      PROVE  u[v] \in WriteRec /\ Alike(u[v], writer[v])
  <2>1. writer[v] \in WriteRec
    BY DEF SettingsTyped
  <2>2. CASE v # w /\ writer[v].at = "fill"
    <3>1. u[v] = [writer[v] EXCEPT !.met = TRUE]
      BY <2>2 DEF S!Meet
    <3> QED
      BY <2>1, <3>1 DEF WriteRec, Alike
  <2>3. CASE ~(v # w /\ writer[v].at = "fill")
    <3>1. u[v] = writer[v]
      BY <2>3 DEF S!Meet
    <3> QED
      BY <2>1, <3>1 DEF Alike
  <2> QED
    BY <2>2, <2>3
<1>2. u = [v \in S!Writer |-> u[v]] /\ u[w] = writer[w]
  BY DEF S!Meet
<1> QED
  BY <1>1, <1>2

(* The texts a file may hold that are no writer's. *)
LEMMA EmptyTexts ==
  ASSUME S!SettingsAssumption
  PROVE  /\ S!Empty \in S!Text /\ S!Resting \in WriteRec
         /\ S!Resting.at = "rest" /\ S!Resting.aside = 0
         /\ S!Missing.state = "missing" /\ S!Torn.state = "torn"
         /\ S!Missing.marks = {} /\ S!Torn.marks = {}
         /\ \A t \in S!Text : t.state \in {"good", "broken"} /\ t.marks \subseteq S!Mark
BY DEF S!SettingsAssumption, S!Empty, S!Resting, S!Missing, S!Torn, S!Text, WriteRec

(* What the file at the path may be. *)
LEMMA FileStates ==
  ASSUME S!SettingsAssumption, SettingsTyped
  PROVE  /\ file.state \in {"good", "broken", "missing", "torn"}
         /\ file.marks \subseteq S!Mark
         /\ file.state \in {"good", "broken"} => file \in S!Text
         /\ file.state = "missing" => file = S!Missing
         /\ file.state = "torn" => file = S!Torn
BY EmptyTexts DEF SettingsTyped

(* At first there is no file and no mark. *)
LEMMA SettingsInit ==
  ASSUME S!SettingsAssumption, S!Init
  PROVE  SettingsInv
<1>1. \A w \in S!Writer : writer[w] = S!Resting
  BY DEF S!Init
<1>2. SettingsTyped
  <2>1. aside \in Seq(SUBSET S!Mark) /\ Len(aside) = 0
    BY DEF S!Init
  <2>2. /\ file \in S!Text \cup {S!Missing, S!Torn}
        /\ writer \in [S!Writer -> WriteRec]
        /\ app = "off" /\ live \in Theme /\ missed = FALSE /\ kept = {}
    BY EmptyTexts DEF S!Init, S!SettingsAssumption
  <2>3. news \in [event : BOOLEAN, message : BOOLEAN]
    BY DEF S!Init, S!NoChange
  <2>4. count \in [hand : 0 .. MaxHand, sets : 0 .. MaxSets, starts : 0 .. MaxStarts]
    BY DEF S!Init, S!SettingsAssumption
  <2>5. MaxAside \in Nat
    BY DEF S!SettingsAssumption
  <2>6. app \in {"off", "loaded", "aside", "up"} /\ missed \in BOOLEAN /\ kept \subseteq S!Mark
    BY <2>2
  <2>7. Len(aside) <= MaxAside
    BY <2>1, <2>5
  <2> QED
    BY <2>1, <2>2, <2>3, <2>4, <2>6, <2>7 DEF SettingsTyped
<1>3. kept = {} /\ Len(aside) = 0
  BY DEF S!Init
<1> QED
  BY <1>1, <1>2, <1>3, EmptyTexts DEF SettingsInv

(* What the marks depend on: with the same files, and writers alike but for the
   user at rest or away, a mark is where it was. *)
LEMMA MarksStay ==
  ASSUME SettingsInv, NEW m \in kept, UNCHANGED <<file, aside>>,
         \A w \in S!Writer : Alike(writer'[w], writer[w])
  PROVE  InAside(m)' \/ InFile(m)'
<1>1. \A w \in S!Writer : \A k : FillsAt(w, k)' <=> FillsAt(w, k)
  BY DEF FillsAt, Alike
<1>2. \A w \in S!Writer : (S!Busy(w)' <=> S!Busy(w))
  BY DEF S!Busy, Alike
<1>3. InAside(m) => InAside(m)'
  BY <1>1 DEF InAside, Alike
<1>4. InFile(m) => InFile(m)'
  BY <1>1, <1>2 DEF InFile, Alike
<1> QED
  BY <1>3, <1>4 DEF SettingsInv

(* A set begins: what it writes again is what it read. *)
LEMMA SetKeeps ==
  ASSUME S!SettingsAssumption, SettingsInv, NEW w \in {"panel", "server"}, S!SetOption(w),
         UNCHANGED <<file, aside, app, news, missed, kept>>
  PROVE  SettingsInv'
<1>0. w \in S!Writer /\ ~S!Busy(w) /\ w # "hand"
  BY DEF S!SetOption, S!Writer
<1>1. PICK theme \in Theme :
        /\ count.sets < MaxSets
        /\ count' = [count EXCEPT !.sets = @ + 1]
        /\ IF file.state \in {"good", "missing"}
           THEN writer' = [writer EXCEPT ![w] =
                  [at |-> "truncate", aside |-> 0, met |-> FALSE,
                   text |-> [state |-> "good", theme |-> theme, marks |-> file.marks]]]
           ELSE UNCHANGED writer
        /\ live' = IF w = "panel" THEN theme ELSE live
  BY DEF S!SetOption
<1>2. count' \in [hand : 0 .. MaxHand, sets : 0 .. MaxSets, starts : 0 .. MaxStarts]
  <2>1. count \in [hand : 0 .. MaxHand, sets : 0 .. MaxSets, starts : 0 .. MaxStarts] /\ MaxSets \in Nat
    BY DEF SettingsInv, SettingsTyped, S!SettingsAssumption
  <2> QED
    BY <1>1, <2>1
<1>3. CASE file.state \in {"good", "missing"}
  <2>1. PICK r : r = [at |-> "truncate", aside |-> 0, met |-> FALSE,
                      text |-> [state |-> "good", theme |-> theme, marks |-> file.marks]]
    OBVIOUS
  <2>2. r \in WriteRec
    BY <2>1, FileStates DEF SettingsInv, WriteRec, S!Text, S!SettingsAssumption
  <2>3. writer' = [writer EXCEPT ![w] = r]
    BY <1>1, <1>3, <2>1
  <2>4. /\ writer'[w] = r /\ r.at = "truncate" /\ r.aside = 0 /\ r.text.marks = file.marks
        /\ \A v \in S!Writer \ {w} : writer'[v] = writer[v]
    BY <1>0, <2>1, <2>3 DEF SettingsInv, SettingsTyped
  <2>5. SettingsTyped'
    BY <1>0, <1>1, <1>2, <2>2, <2>3 DEF SettingsInv, SettingsTyped
  <2>6. S!Busy("hand")' => kept' = {}
    BY <1>0, <2>4 DEF SettingsInv, S!Busy, S!Writer
  <2>7. ASSUME NEW v \in S!Writer
        PROVE  (writer[v].aside > 0 => writer[v].at = "fill")' /\ (writer[v].aside <= Len(aside))'
    <3>1. Len(aside) \in Nat
      BY DEF SettingsInv, SettingsTyped
    <3> QED
      BY <2>4, <3>1 DEF SettingsInv
  <2>8. ASSUME NEW m \in kept'
        PROVE  InAside(m)' \/ InFile(m)'
    <3>1. \A v \in S!Writer : \A k : FillsAt(v, k)' <=> FillsAt(v, k)
      BY <1>0, <2>4 DEF FillsAt, S!Busy
    <3>2. \A v \in S!Writer : \A k : FillsAt(v, k) => writer'[v] = writer[v]
      BY <1>0, <2>4 DEF FillsAt, S!Busy
    <3>3. InAside(m) => InAside(m)'
      BY <3>1, <3>2 DEF InAside
    <3>4. ASSUME InFile(m) PROVE InFile(m)'
      <4>1. m \in file.marks
        BY <1>3, <3>4 DEF InFile
      <4>2. \A v \in S!Writer : (S!Busy(v) /\ writer[v].aside = 0)' => m \in writer'[v].text.marks
        BY <2>4, <3>4, <4>1 DEF InFile, S!Busy
      <4> QED
        BY <1>3, <3>1, <3>4, <4>1, <4>2 DEF InFile
    <3> QED
      BY <3>3, <3>4 DEF SettingsInv
  <2> QED
    BY <2>5, <2>6, <2>7, <2>8 DEF SettingsInv
<1>4. CASE file.state \notin {"good", "missing"}
  <2>1. writer' = writer
    BY <1>1, <1>4
  <2>2. SettingsTyped'
    BY <1>1, <1>2, <2>1 DEF SettingsInv, SettingsTyped
  <2>3. \A m \in kept' : InAside(m)' \/ InFile(m)'
    BY <2>1, MarksStay DEF Alike
  <2>4. (S!Busy("hand") => kept = {})'
    BY <2>1 DEF SettingsInv, S!Busy
  <2> QED
    BY <2>1, <2>2, <2>3, <2>4 DEF SettingsInv
<1> QED
  BY <1>3, <1>4

(* From an edit by hand until it is written nothing is promised. *)
LEMMA HandKeeps ==
  ASSUME S!SettingsAssumption, SettingsInv, S!HandEdits
  PROVE  SettingsInv'
<1>1. PICK t \in S!Text :
        writer' = [writer EXCEPT !["hand"] =
          [at |-> "truncate", text |-> t, aside |-> 0, met |-> FALSE]]
  BY DEF S!HandEdits
<1>2. PICK r : r = [at |-> "truncate", text |-> t, aside |-> 0, met |-> FALSE]
  OBVIOUS
<1>3. r \in WriteRec /\ r.aside = 0
  BY <1>2 DEF WriteRec, S!SettingsAssumption
<1>4. writer' = [writer EXCEPT !["hand"] = r] /\ "hand" \in S!Writer
  BY <1>1, <1>2 DEF S!Writer
<1>5. count' \in [hand : 0 .. MaxHand, sets : 0 .. MaxSets, starts : 0 .. MaxStarts]
  <2>1. /\ count \in [hand : 0 .. MaxHand, sets : 0 .. MaxSets, starts : 0 .. MaxStarts]
        /\ MaxHand \in Nat /\ count.hand < MaxHand
        /\ count' = [count EXCEPT !.hand = @ + 1]
    BY DEF S!HandEdits, SettingsInv, SettingsTyped, S!SettingsAssumption
  <2> QED
    BY <2>1
<1>6. kept' = {} /\ UNCHANGED <<file, aside, app, live, news, missed>>
  BY DEF S!HandEdits
<1>7. SettingsTyped'
  BY <1>3, <1>4, <1>5, <1>6 DEF SettingsInv, SettingsTyped
<1>8. ASSUME NEW v \in S!Writer
      PROVE  (writer[v].aside > 0 => writer[v].at = "fill")' /\ (writer[v].aside <= Len(aside))'
  <2>1. Len(aside) \in Nat
    BY DEF SettingsInv, SettingsTyped
  <2>2. writer'[v] = IF v = "hand" THEN r ELSE writer[v]
    BY <1>4 DEF SettingsInv, SettingsTyped
  <2> QED
    BY <1>3, <1>6, <2>1, <2>2 DEF SettingsInv
<1> QED
  BY <1>6, <1>7, <1>8 DEF SettingsInv

(* What a change of the file tells the watch. *)
LEMMA ChangesTyped ==
  ASSUME SettingsTyped, S!Changes
  PROVE  news' \in [event : BOOLEAN, message : BOOLEAN] /\ missed' \in BOOLEAN
<1>1. news \in [event : BOOLEAN, message : BOOLEAN] /\ missed \in BOOLEAN
  BY DEF SettingsTyped
<1>2. news' = [news EXCEPT !.event = @ \/ app = "up"]
  BY DEF S!Changes
<1>3. (news.event \/ app = "up") \in BOOLEAN
  OBVIOUS
<1>4. news' \in [event : BOOLEAN, message : BOOLEAN]
  BY <1>1, <1>2, <1>3
<1>5. missed' \in BOOLEAN
  BY DEF S!Changes
<1> QED
  BY <1>4, <1>5

(* A truncation takes a mark from the file; the write that made it brings it back. *)
LEMMA TruncateKeeps ==
  ASSUME S!SettingsAssumption, SettingsInv, NEW w \in S!Writer, S!Truncate(w)
  PROVE  SettingsInv'
<1>1. PICK u : u = S!Meet(w)
  OBVIOUS
<1>2. /\ u \in [S!Writer -> WriteRec] /\ u[w] = writer[w]
      /\ \A v \in S!Writer : Alike(u[v], writer[v])
  BY <1>1, MeetAlike DEF SettingsInv
<1>3. PICK b \in BOOLEAN : b = \E v \in S!Writer : v # w /\ writer[v].at = "fill"
  OBVIOUS
<1>4. writer' = [u EXCEPT ![w].at = "fill", ![w].met = b]
  BY <1>1, <1>3 DEF S!Truncate
<1>5. PICK r : r = [at |-> "fill", text |-> writer[w].text, aside |-> writer[w].aside, met |-> b]
  OBVIOUS
<1>6. writer[w] \in WriteRec /\ r \in WriteRec
  BY <1>3, <1>5 DEF SettingsInv, SettingsTyped, WriteRec
<1>7. writer' = [u EXCEPT ![w] = r]
  <2>1. u[w] = [at |-> u[w].at, text |-> writer[w].text, aside |-> writer[w].aside, met |-> u[w].met]
    BY <1>2, <1>6 DEF WriteRec
  <2>2. PICK y : y = [u[w] EXCEPT !.at = "fill"]
    OBVIOUS
  <2>9. y = [at |-> "fill", text |-> writer[w].text, aside |-> writer[w].aside, met |-> u[w].met]
    BY <2>1, <2>2
  <2>10. [y EXCEPT !.met = b] = r
    BY <1>5, <2>9
  <2>3. [u EXCEPT ![w].at = "fill"] = [u EXCEPT ![w] = [u[w] EXCEPT !.at = "fill"]]
    OBVIOUS
  <2>4. PICK x : x = [u EXCEPT ![w] = [u[w] EXCEPT !.at = "fill"]]
    OBVIOUS
  <2>5. writer' = [x EXCEPT ![w].met = b] /\ x[w] = y
    BY <1>2, <1>4, <2>2, <2>3, <2>4
  <2>6. writer' = [x EXCEPT ![w] = r]
    BY <2>5, <2>10
  <2> QED
    BY <1>2, <2>4, <2>6
<1>8. /\ writer' \in [S!Writer -> WriteRec]
      /\ writer'[w] = r
      /\ \A v \in S!Writer \ {w} : Alike(writer'[v], writer[v])
  BY <1>2, <1>6, <1>7
<1>9. /\ writer[w].at = "truncate" /\ writer[w].aside = 0
      /\ file' = S!Torn /\ S!Changes /\ UNCHANGED <<aside, app, live, kept, count>>
  <2>1. writer[w].aside \in Nat
    BY <1>6 DEF WriteRec
  <2> QED
    BY <2>1 DEF S!Truncate, SettingsInv
<1>10. SettingsTyped'
  BY <1>8, <1>9, ChangesTyped DEF SettingsInv, SettingsTyped
<1>11. S!Busy("hand")' => kept' = {}
  <2>1. "hand" \in S!Writer
    BY DEF S!Writer
  <2>2. S!Busy("hand")' => S!Busy("hand")
    BY <1>8, <1>9, <2>1 DEF S!Busy, Alike
  <2> QED
    BY <1>9, <2>2 DEF SettingsInv
<1>12. ASSUME NEW v \in S!Writer
       PROVE  (writer[v].aside > 0 => writer[v].at = "fill")' /\ (writer[v].aside <= Len(aside))'
  BY <1>5, <1>8, <1>9 DEF SettingsInv, Alike
<1>13. ASSUME NEW m \in kept'
       PROVE  InAside(m)' \/ InFile(m)'
  <2>1. \A v \in S!Writer \ {w} : \A k : FillsAt(v, k)' <=> FillsAt(v, k)
    BY <1>8 DEF FillsAt, Alike
  <2>2. FillsAt(w, 0)' /\ writer'[w].text = writer[w].text /\ \A k : FillsAt(w, k)' => k = 0
    BY <1>5, <1>8, <1>9 DEF FillsAt
  <2>3. ASSUME InAside(m) PROVE InAside(m)'
    <3>1. PICK k \in DOMAIN aside :
            /\ m \in aside[k] \/ \E v \in S!Writer : FillsAt(v, k)
            /\ \A v \in S!Writer : FillsAt(v, k) => m \in writer[v].text.marks
      BY <2>3 DEF InAside
    <3>2. k # 0 /\ ~FillsAt(w, k)
      BY <1>9 DEF SettingsInv, SettingsTyped, FillsAt
    <3>3. m \in aside'[k] \/ \E v \in S!Writer : FillsAt(v, k)'
      BY <1>9, <2>1, <3>1, <3>2
    <3>4. \A v \in S!Writer : FillsAt(v, k)' => m \in writer'[v].text.marks
      BY <1>8, <2>1, <2>2, <3>1, <3>2 DEF Alike
    <3> QED
      BY <1>9, <3>1, <3>3, <3>4 DEF InAside
  <2>4. ASSUME InFile(m) PROVE InFile(m)'
    <3>1. m \in writer[w].text.marks
      BY <1>9, <2>4 DEF InFile, S!Busy
    <3>2. file'.state = "torn"
      BY <1>9, EmptyTexts
    <3>3. \A v \in S!Writer : (S!Busy(v) /\ writer[v].aside = 0)' => m \in writer'[v].text.marks
      BY <1>8, <2>2, <2>4, <3>1 DEF InFile, S!Busy, Alike
    <3> QED
      BY <2>2, <3>2, <3>3 DEF InFile
  <2> QED
    BY <1>9, <2>3, <2>4 DEF SettingsInv
<1> QED
  BY <1>10, <1>11, <1>12, <1>13 DEF SettingsInv


(* Steps that leave the files and the writers alone, or send one to rest. *)
LEMMA StillKeeps ==
  ASSUME SettingsInv, UNCHANGED <<file, aside, writer>>, kept' \subseteq kept, SettingsTyped'
  PROVE  SettingsInv'
<1>1. \A m \in kept' : InAside(m)' \/ InFile(m)'
  BY MarksStay DEF Alike
<1>2. S!Busy("hand")' => kept' = {}
  BY DEF SettingsInv, S!Busy
<1> QED
  BY <1>1, <1>2 DEF SettingsInv

(* A write ends at the path: its own mark is there now, and so are those it had read;
   or it mingled with another and nothing is promised. *)
LEMMA FillHereKeeps ==
  ASSUME S!SettingsAssumption, SettingsInv, NEW w \in S!Writer, S!Fill(w), writer[w].aside = 0
  PROVE  SettingsInv'
<1>1. PICK u : u = S!Meet(w)
  OBVIOUS
<1>2. /\ u \in [S!Writer -> WriteRec]
      /\ \A v \in S!Writer : Alike(u[v], writer[v])
  BY <1>1, MeetAlike DEF SettingsInv
<1>3. PICK t : t = writer[w].text
  OBVIOUS
<1>4. t \in S!Text /\ t.state # "torn" /\ t.state # "missing" /\ t.marks \subseteq S!Mark
  BY <1>3, EmptyTexts DEF SettingsInv, SettingsTyped, WriteRec
<1>5. PICK alone : alone = \A v \in S!Writer \ {w} : ~S!Busy(v)
  OBVIOUS
<1>6. /\ writer[w].at = "fill"
      /\ writer' = [u EXCEPT ![w] = S!Resting]
      /\ \/ /\ file' = t
            /\ kept' = IF w = "hand" /\ alone THEN t.marks ELSE kept
         \/ file' = S!Torn /\ kept' = {}
      /\ S!Changes
      /\ UNCHANGED <<aside, app, live, count>>
  BY <1>1, <1>3, <1>5 DEF S!Fill
<1>7. /\ writer' \in [S!Writer -> WriteRec]
      /\ writer'[w] = S!Resting
      /\ \A v \in S!Writer \ {w} : Alike(writer'[v], writer[v])
  BY <1>2, <1>6, EmptyTexts
<1>8. SettingsTyped'
  <2>1. kept' \subseteq S!Mark
    BY <1>4, <1>6 DEF SettingsInv, SettingsTyped
  <2>2. file' \in S!Text \cup {S!Missing, S!Torn}
    BY <1>4, <1>6
  <2>3. news' \in [event : BOOLEAN, message : BOOLEAN] /\ missed' \in BOOLEAN
    BY <1>6, ChangesTyped DEF SettingsInv
  <2> QED
    BY <1>6, <1>7, <2>1, <2>2, <2>3 DEF SettingsInv, SettingsTyped
<1>9. S!Busy("hand")' => kept' = {}
  <2>1. "hand" \in S!Writer /\ ~S!Busy(w)'
    BY <1>7, EmptyTexts DEF S!Busy, S!Writer
  <2>2. S!Busy("hand")' => w # "hand" /\ S!Busy("hand")
    BY <1>7, <2>1 DEF S!Busy, Alike
  <2> QED
    BY <1>6, <2>2 DEF SettingsInv
<1>10. ASSUME NEW v \in S!Writer
       PROVE  (writer[v].aside > 0 => writer[v].at = "fill")' /\ (writer[v].aside <= Len(aside))'
  BY <1>6, <1>7, EmptyTexts DEF SettingsInv, SettingsTyped, Alike
<1>11. ASSUME NEW m \in kept'
       PROVE  InAside(m)' \/ InFile(m)'
  <2>0. file' = t
    BY <1>6, <1>11
  <2>1. \A v \in S!Writer \ {w} : S!Busy(v)' => S!Busy(v)
    BY <1>7 DEF S!Busy, Alike
  <2>2. ~S!Busy(w)'
    BY <1>7, EmptyTexts DEF S!Busy
  <2>3. CASE w = "hand" /\ alone
    <3>1. m \in t.marks /\ \A v \in S!Writer : ~S!Busy(v)'
      BY <1>5, <1>6, <1>11, <2>1, <2>2, <2>3, EmptyTexts, <2>0
    <3> QED
      BY <1>4, <2>0, <3>1 DEF InFile
  <2>4. CASE ~(w = "hand" /\ alone)
    <3>0. m \in kept
      BY <1>6, <1>11, <2>4
    <3>1. ASSUME InFile(m) PROVE InFile(m)'
      <4>1. m \in t.marks
        BY <1>3, <1>6, <3>1 DEF InFile, S!Busy
      <4>2. \A v \in S!Writer : (S!Busy(v) /\ writer[v].aside = 0)' => m \in writer'[v].text.marks
        BY <1>7, <2>1, <2>2, <3>1 DEF InFile, Alike
      <4> QED
        BY <1>4, <2>0, <4>1, <4>2 DEF InFile
    <3>2. ASSUME InAside(m) PROVE InAside(m)'
      <4>1. PICK k \in DOMAIN aside :
              /\ m \in aside[k] \/ \E v \in S!Writer : FillsAt(v, k)
              /\ \A v \in S!Writer : FillsAt(v, k) => m \in writer[v].text.marks
        BY <3>2 DEF InAside
      <4>2. k # 0
        BY DEF SettingsInv, SettingsTyped
      <4>3. \A v \in S!Writer : (FillsAt(v, k)' <=> FillsAt(v, k))
        BY <1>7, <4>2, EmptyTexts DEF FillsAt, Alike
      <4>4. \A v \in S!Writer : FillsAt(v, k) => v # w
        BY <4>2 DEF FillsAt
      <4>5. \A v \in S!Writer : FillsAt(v, k)' => m \in writer'[v].text.marks
        BY <1>7, <4>1, <4>3, <4>4 DEF Alike
      <4> QED
        BY <1>6, <4>1, <4>3, <4>5 DEF InAside
    <3> QED
      BY <3>0, <3>1, <3>2 DEF SettingsInv
  <2> QED
    BY <2>3, <2>4
<1> QED
  BY <1>8, <1>9, <1>10, <1>11 DEF SettingsInv

(* A write ends in a file set aside. *)
LEMMA FillAsideKeeps ==
  ASSUME S!SettingsAssumption, SettingsInv, NEW w \in S!Writer, S!Fill(w), writer[w].aside # 0
  PROVE  SettingsInv'
<1>1. PICK u : u = S!Meet(w)
  OBVIOUS
<1>2. /\ u \in [S!Writer -> WriteRec]
      /\ \A v \in S!Writer : Alike(u[v], writer[v])
  BY <1>1, MeetAlike DEF SettingsInv
<1>3. PICK n : n = writer[w].aside
  OBVIOUS
<1>4. PICK marks : marks = writer[w].text.marks
  OBVIOUS
<1>5. n \in 1 .. Len(aside) /\ marks \subseteq S!Mark /\ Len(aside) \in Nat
  BY <1>3, <1>4, EmptyTexts DEF SettingsInv, SettingsTyped, WriteRec
<1>6. /\ writer[w].at = "fill"
      /\ writer' = [u EXCEPT ![w] = S!Resting]
      /\ aside' = [aside EXCEPT ![n] = marks]
      /\ kept' = IF w = "hand" THEN {} ELSE kept
      /\ UNCHANGED <<file, news, missed, app, live, count>>
  BY <1>1, <1>3, <1>4, <1>5 DEF S!Fill
<1>7. /\ writer' \in [S!Writer -> WriteRec]
      /\ writer'[w] = S!Resting
      /\ \A v \in S!Writer \ {w} : Alike(writer'[v], writer[v])
  BY <1>2, <1>6, EmptyTexts
<1>8. /\ aside' \in Seq(SUBSET S!Mark) /\ Len(aside') = Len(aside)
      /\ DOMAIN aside' = DOMAIN aside /\ aside'[n] = marks
      /\ \A k \in DOMAIN aside \ {n} : aside'[k] = aside[k]
  BY <1>5, <1>6 DEF SettingsInv, SettingsTyped
<1>9. SettingsTyped'
  BY <1>6, <1>7, <1>8 DEF SettingsInv, SettingsTyped
<1>10. S!Busy("hand")' => kept' = {}
  <2>1. "hand" \in S!Writer /\ ~S!Busy(w)'
    BY <1>7, EmptyTexts DEF S!Busy, S!Writer
  <2>2. S!Busy("hand")' => w # "hand" /\ S!Busy("hand")
    BY <1>7, <2>1 DEF S!Busy, Alike
  <2> QED
    BY <1>6, <2>2 DEF SettingsInv
<1>11. ASSUME NEW v \in S!Writer
       PROVE  (writer[v].aside > 0 => writer[v].at = "fill")' /\ (writer[v].aside <= Len(aside))'
  BY <1>5, <1>7, <1>8, EmptyTexts DEF SettingsInv, Alike
<1>12. ASSUME NEW m \in kept'
       PROVE  InAside(m)' \/ InFile(m)'
  <2>0. m \in kept
    BY <1>6, <1>12
  <2>1. \A v \in S!Writer \ {w} : \A k : FillsAt(v, k)' <=> FillsAt(v, k)
    BY <1>7 DEF FillsAt, Alike
  <2>2. \A k : ~FillsAt(w, k)'
    BY <1>7, EmptyTexts DEF FillsAt
  <2>3. FillsAt(w, n) /\ \A k : FillsAt(w, k) => k = n
    BY <1>3, <1>6 DEF FillsAt
  <2>4. ASSUME InAside(m) PROVE InAside(m)'
    <3>1. PICK k \in DOMAIN aside :
            /\ m \in aside[k] \/ \E v \in S!Writer : FillsAt(v, k)
            /\ \A v \in S!Writer : FillsAt(v, k) => m \in writer[v].text.marks
      BY <2>4 DEF InAside
    <3>2. \A v \in S!Writer : FillsAt(v, k)' => m \in writer'[v].text.marks
      BY <1>7, <2>1, <2>2, <3>1 DEF Alike
    <3>3. m \in aside'[k] \/ \E v \in S!Writer : FillsAt(v, k)'
      <4>1. CASE k = n
        BY <1>4, <1>8, <2>3, <3>1, <4>1
      <4>2. CASE k # n
        BY <1>8, <2>1, <2>3, <3>1, <4>2
      <4> QED
        BY <4>1, <4>2
    <3> QED
      BY <1>8, <3>1, <3>2, <3>3 DEF InAside
  <2>5. ASSUME InFile(m) PROVE InFile(m)'
    <3>1. \A v \in S!Writer : (FillsAt(v, 0)' <=> FillsAt(v, 0))
      BY <1>5, <2>1, <2>2, <2>3
    <3>2. \A v \in S!Writer : (S!Busy(v) /\ writer[v].aside = 0)' => m \in writer'[v].text.marks
      BY <1>7, <2>5, EmptyTexts DEF InFile, S!Busy, Alike
    <3> QED
      BY <1>6, <2>5, <3>1, <3>2 DEF InFile
  <2> QED
    BY <2>0, <2>4, <2>5 DEF SettingsInv
<1> QED
  BY <1>9, <1>10, <1>11, <1>12 DEF SettingsInv

(* A file set aside takes along the writes under way to it, and the marks with them. *)
LEMMA AsideKeeps ==
  ASSUME S!SettingsAssumption, SettingsInv, S!SetAside
  PROVE  SettingsInv'
<1>1. app' = "loaded" /\ UNCHANGED <<live, kept, count>>
  BY DEF S!SetAside
<1>2. CASE file.state # "missing" /\ Len(aside) < MaxAside
  <2>1. PICK n : n = Len(aside) + 1
    OBVIOUS
  <2>2. /\ aside' = Append(aside, file.marks)
        /\ file' = S!Missing
        /\ writer' = [w \in S!Writer |->
             IF writer[w].at = "fill" /\ writer[w].aside = 0
             THEN [writer[w] EXCEPT !.aside = Len(aside')] ELSE writer[w]]
        /\ S!Changes
    BY <1>2 DEF S!SetAside
  <2>3. /\ aside \in Seq(SUBSET S!Mark) /\ Len(aside) \in Nat
        /\ aside' \in Seq(SUBSET S!Mark) /\ Len(aside') = n
        /\ DOMAIN aside = 1 .. Len(aside) /\ DOMAIN aside' = 1 .. n
        /\ aside'[n] = file.marks
        /\ \A k \in DOMAIN aside : aside'[k] = aside[k]
    BY <2>1, <2>2, FileStates DEF SettingsInv, SettingsTyped
  <2>4. MaxAside \in Nat /\ n \in 1 .. MaxAside
    BY <1>2, <2>1, <2>3 DEF S!SettingsAssumption
  <2>5. ASSUME NEW w \in S!Writer
        PROVE  /\ writer'[w] \in WriteRec
               /\ writer'[w].at = writer[w].at /\ writer'[w].text = writer[w].text
               /\ writer'[w].aside = IF FillsAt(w, 0) THEN n ELSE writer[w].aside
    <3>1. writer[w] \in WriteRec
      BY DEF SettingsInv, SettingsTyped
    <3>2. CASE FillsAt(w, 0)
      <4>1. writer'[w] = [writer[w] EXCEPT !.aside = n]
        BY <2>2, <2>3, <3>2 DEF FillsAt
      <4> QED
        BY <2>4, <3>1, <3>2, <4>1 DEF WriteRec
    <3>3. CASE ~FillsAt(w, 0)
      <4>1. writer'[w] = writer[w]
        BY <2>2, <3>3 DEF FillsAt
      <4> QED
        BY <3>1, <3>3, <4>1
    <3> QED
      BY <3>2, <3>3
  <2>6. SettingsTyped'
    <3>1. writer' \in [S!Writer -> WriteRec]
      BY <2>2, <2>5
    <3>2. file' \in S!Text \cup {S!Missing, S!Torn}
      BY <2>2
    <3>3. news' \in [event : BOOLEAN, message : BOOLEAN] /\ missed' \in BOOLEAN
      BY <2>2, ChangesTyped DEF SettingsInv
    <3>4. Len(aside') <= MaxAside
      BY <2>3, <2>4
    <3> QED
      BY <1>1, <2>3, <3>1, <3>2, <3>3, <3>4 DEF SettingsInv, SettingsTyped
  <2>7. S!Busy("hand")' => kept' = {}
    BY <1>1, <2>5 DEF SettingsInv, S!Busy, S!Writer
  <2>8. ASSUME NEW v \in S!Writer
        PROVE  (writer[v].aside > 0 => writer[v].at = "fill")' /\ (writer[v].aside <= Len(aside))'
    <3>1. writer[v].aside <= Len(aside) /\ writer[v].aside \in Nat
      BY DEF SettingsInv, SettingsTyped, WriteRec
    <3> QED
      BY <2>1, <2>3, <2>5, <3>1 DEF SettingsInv, FillsAt
  <2>9. ASSUME NEW m \in kept'
        PROVE  InAside(m)'
    <3>1. \A v \in S!Writer : \A k \in DOMAIN aside : FillsAt(v, k)' <=> FillsAt(v, k)
      BY <2>1, <2>3, <2>5 DEF FillsAt
    <3>2. \A v \in S!Writer : FillsAt(v, n)' <=> FillsAt(v, 0)
      <4>1. \A v \in S!Writer : writer[v].aside # n
        BY <2>1, <2>3 DEF SettingsInv
      <4> QED
        BY <2>3, <2>5, <4>1 DEF FillsAt
    <3>3. ASSUME InAside(m) PROVE InAside(m)'
      <4>1. PICK k \in DOMAIN aside :
              /\ m \in aside[k] \/ \E v \in S!Writer : FillsAt(v, k)
              /\ \A v \in S!Writer : FillsAt(v, k) => m \in writer[v].text.marks
        BY <3>3 DEF InAside
      <4>2. k \in DOMAIN aside' /\ aside'[k] = aside[k]
        BY <2>1, <2>3
      <4> QED
        BY <2>5, <3>1, <4>1, <4>2 DEF InAside
    <3>4. ASSUME InFile(m) PROVE InAside(m)'
      <4>1. \A v \in S!Writer : FillsAt(v, n)' => m \in writer'[v].text.marks
        BY <2>5, <3>2, <3>4 DEF InFile, FillsAt, S!Busy
      <4>2. m \in aside'[n] \/ \E v \in S!Writer : FillsAt(v, n)'
        BY <2>3, <3>2, <3>4 DEF InFile
      <4>3. n \in DOMAIN aside'
        BY <2>3, <2>4
      <4> QED
        BY <4>1, <4>2, <4>3 DEF InAside
    <3> QED
      BY <1>1, <2>9, <3>3, <3>4 DEF SettingsInv
  <2> QED
    BY <2>6, <2>7, <2>8, <2>9 DEF SettingsInv
<1>3. CASE ~(file.state # "missing" /\ Len(aside) < MaxAside)
  <2>1. UNCHANGED <<aside, file, writer, news, missed>>
    BY <1>3 DEF S!SetAside
  <2> QED
    BY <1>1, <2>1, StillKeeps DEF SettingsInv, SettingsTyped
<1> QED
  BY <1>2, <1>3

(* A process that ends takes its write along: one it had begun, and nothing is
   promised, or one that has not touched the file. *)
LEMMA EndKeeps ==
  ASSUME S!SettingsAssumption, SettingsInv, NEW w \in {"panel", "server"},
         writer' = [writer EXCEPT ![w] = S!Resting],
         kept' = IF writer[w].at = "fill" THEN {} ELSE kept,
         UNCHANGED <<file, aside, live, count>>,
         app' \in {"off", "loaded", "aside", "up"}, missed' \in BOOLEAN,
         news' \in [event : BOOLEAN, message : BOOLEAN]
  PROVE  SettingsInv'
<1>1. /\ writer' \in [S!Writer -> WriteRec] /\ w \in S!Writer
      /\ writer'[w] = S!Resting
      /\ \A v \in S!Writer \ {w} : writer'[v] = writer[v]
  BY EmptyTexts DEF SettingsInv, SettingsTyped, S!Writer
<1>2. SettingsTyped'
  BY <1>1 DEF SettingsInv, SettingsTyped
<1>3. S!Busy("hand")' => kept' = {}
  <2>1. "hand" \in S!Writer
    BY DEF S!Writer
  <2>2. S!Busy("hand")' => S!Busy("hand")
    BY <1>1, <2>1 DEF S!Busy
  <2> QED
    BY <2>2 DEF SettingsInv
<1>4. ASSUME NEW v \in S!Writer
      PROVE  (writer[v].aside > 0 => writer[v].at = "fill")' /\ (writer[v].aside <= Len(aside))'
  BY <1>1, EmptyTexts DEF SettingsInv, SettingsTyped
<1>5. ASSUME NEW m \in kept'
      PROVE  InAside(m)' \/ InFile(m)'
  <2>1. m \in kept /\ writer[w].at # "fill"
    BY <1>5
  <2>2. \A v \in S!Writer : \A k : FillsAt(v, k)' <=> FillsAt(v, k)
    BY <1>1, <2>1, EmptyTexts DEF FillsAt
  <2>3. \A v \in S!Writer : \A k : FillsAt(v, k) => writer'[v] = writer[v]
    BY <1>1, <2>1 DEF FillsAt
  <2>4. \A v \in S!Writer : S!Busy(v)' => S!Busy(v) /\ writer'[v] = writer[v]
    BY <1>1, EmptyTexts DEF S!Busy
  <2>5. InAside(m) => InAside(m)'
    BY <2>2, <2>3 DEF InAside
  <2>6. InFile(m) => InFile(m)'
    BY <2>2, <2>4 DEF InFile
  <2> QED
    BY <2>1, <2>5, <2>6 DEF SettingsInv
<1> QED
  BY <1>2, <1>3, <1>4, <1>5 DEF SettingsInv

(* The app reads: what is in force changes, what is written does not. *)
LEMMA AppReads ==
  ASSUME S!SettingsAssumption, SettingsInv,
         S!Load \/ S!Watch \/ S!Burst \/ S!reload_settings
  PROVE  SettingsInv'
<1>1. UNCHANGED <<file, aside, writer, kept>>
  BY DEF S!Load, S!Watch, S!Burst, S!reload_settings
<1>2. live' \in Theme
  <2>1. file.state = "good" => file.theme \in Theme
    BY FileStates DEF SettingsInv, S!Text
  <2> QED
    BY <2>1 DEF S!Load, S!Watch, S!Burst, S!reload_settings, S!SettingsAssumption,
                SettingsInv, SettingsTyped
<1>3. count' \in [hand : 0 .. MaxHand, sets : 0 .. MaxSets, starts : 0 .. MaxStarts]
  <2>1. count \in [hand : 0 .. MaxHand, sets : 0 .. MaxSets, starts : 0 .. MaxStarts]
        /\ MaxStarts \in Nat
    BY DEF SettingsInv, SettingsTyped, S!SettingsAssumption
  <2>2. \/ count' = count
        \/ count.starts < MaxStarts /\ count' = [count EXCEPT !.starts = @ + 1]
    BY DEF S!Load, S!Watch, S!Burst, S!reload_settings
  <2> QED
    BY <2>1, <2>2
<1>4. news' \in [event : BOOLEAN, message : BOOLEAN]
  <2>1. news \in [event : BOOLEAN, message : BOOLEAN]
    BY DEF SettingsInv, SettingsTyped
  <2>2. \/ news' = news \/ news' = [event |-> FALSE, message |-> TRUE]
        \/ news' = [news EXCEPT !.message = FALSE]
    BY DEF S!Load, S!Watch, S!Burst, S!reload_settings
  <2>3. CASE news' = news
    BY <2>1, <2>3
  <2>4. CASE news' = [event |-> FALSE, message |-> TRUE]
    BY <2>4
  <2>5. CASE news' = [news EXCEPT !.message = FALSE]
    <3>1. news' = [event |-> news.event, message |-> FALSE] /\ news.event \in BOOLEAN
      BY <2>1, <2>5
    <3> QED
      BY <3>1
  <2> QED
    BY <2>2, <2>3, <2>4, <2>5
<1>5. app' \in {"off", "loaded", "aside", "up"} /\ missed' \in BOOLEAN
  BY DEF S!Load, S!Watch, S!Burst, S!reload_settings, SettingsInv, SettingsTyped
<1>6. SettingsTyped'
  BY <1>1, <1>2, <1>3, <1>4, <1>5 DEF SettingsInv, SettingsTyped
<1> QED
  BY <1>1, <1>6, StillKeeps

(* SettingsInv is kept by every step of the writers and of the app. *)
LEMMA SettingsNext ==
  ASSUME S!SettingsAssumption, SettingsInv, [S!Next]_(S!vars)
  PROVE  SettingsInv'
<1>1. CASE S!PanelPicks
  BY <1>1, SetKeeps DEF S!PanelPicks
<1>2. CASE S!ServerSets
  BY <1>2, SetKeeps DEF S!ServerSets
<1>3. CASE S!HandEdits
  BY <1>3, HandKeeps
<1>4. ASSUME NEW w \in S!Writer, S!Steps(w)
      PROVE  SettingsInv'
  BY <1>4, TruncateKeeps, FillHereKeeps, FillAsideKeeps DEF S!Steps
<1>5. CASE S!Load \/ S!Watch \/ S!Burst \/ S!reload_settings
  BY <1>5, AppReads
<1>6. CASE S!SetAside
  BY <1>6, AsideKeeps
<1>7. CASE S!Quit
  <2>1. news' \in [event : BOOLEAN, message : BOOLEAN] /\ missed' \in BOOLEAN
    BY <1>7 DEF S!Quit, S!NoChange, SettingsInv, SettingsTyped
  <2>2. /\ writer' = [writer EXCEPT !["panel"] = S!Resting]
        /\ kept' = IF writer["panel"].at = "fill" THEN {} ELSE kept
        /\ app' = "off" /\ UNCHANGED <<file, aside, live, count>>
    BY <1>7 DEF S!Quit
  <2> QED
    BY <2>1, <2>2, EndKeeps
<1>8. CASE S!ServerEnds
  <2>1. UNCHANGED <<news, missed, app>>
    BY <1>8 DEF S!ServerEnds
  <2>2. /\ writer' = [writer EXCEPT !["server"] = S!Resting]
        /\ kept' = IF writer["server"].at = "fill" THEN {} ELSE kept
        /\ UNCHANGED <<file, aside, live, count>>
    BY <1>8 DEF S!ServerEnds
  <2>3. /\ app' \in {"off", "loaded", "aside", "up"} /\ missed' \in BOOLEAN
        /\ news' \in [event : BOOLEAN, message : BOOLEAN]
    BY <2>1 DEF SettingsInv, SettingsTyped
  <2> QED
    BY <2>2, <2>3, EndKeeps
<1>9. CASE UNCHANGED S!vars
  <2>1. UNCHANGED <<file, aside, writer, kept>> /\ SettingsTyped'
    BY <1>9 DEF S!vars, SettingsInv, SettingsTyped
  <2> QED
    BY <2>1, StillKeeps
<1> QED
  BY <1>1, <1>2, <1>3, <1>4, <1>5, <1>6, <1>7, <1>8, <1>9 DEF S!Next, S!AppRuns

-----------------------------------------------------------------------------
(* A text the user wrote with no set under way is destroyed by no set, by no start
   of the app on a half-written file and by no two of them within each other, for
   any number of edits, sets, starts and names to set files aside under
   (set_option_at, json_store's set_aside). *)
THEOREM HandTextLasts ==
  ASSUME S!SettingsAssumption
  PROVE  S!Spec => []S!HandTextKept
<1>1. S!Init => SettingsInv
  BY SettingsInit
<1>2. SettingsInv /\ [S!Next]_(S!vars) => SettingsInv'
  BY SettingsNext
<1>3. SettingsInv => S!HandTextKept
  <2> SUFFICES ASSUME SettingsInv, NEW m \in kept
               PROVE  m \in file.marks
                        \cup (UNION {aside[k] : k \in DOMAIN aside})
                        \cup (UNION {writer[w].text.marks :
                                        w \in {w \in S!Writer : writer[w].at = "fill"}})
    BY DEF S!HandTextKept
  <2>1. ASSUME NEW w \in S!Writer, writer[w].at = "fill", m \in writer[w].text.marks
        PROVE  m \in UNION {writer[v].text.marks : v \in {v \in S!Writer : writer[v].at = "fill"}}
    BY <2>1
  <2>2. CASE InAside(m)
    <3>1. PICK k \in DOMAIN aside :
            /\ m \in aside[k] \/ \E w \in S!Writer : FillsAt(w, k)
            /\ \A w \in S!Writer : FillsAt(w, k) => m \in writer[w].text.marks
      BY <2>2 DEF InAside
    <3> QED
      BY <2>1, <3>1 DEF FillsAt
  <2>3. CASE InFile(m)
    BY <2>1, <2>3 DEF InFile, FillsAt, S!Busy
  <2> QED
    BY <2>2, <2>3 DEF SettingsInv
<1> QED
  BY <1>1, <1>2, <1>3, PTL DEF S!Spec

-----------------------------------------------------------------------------
(* What is underlined.                                                     *)

ProbeOf(x) == [spot |-> x.spot, text |-> x.text]

\* What is underlined and what waits to be are never of one pane.
Apart(c) == c.hover # Nothing /\ c.pending # Nothing => c.hover.pane # c.pending.pane

CoreOK(c) ==
  /\ c = [hover |-> c.hover, pending |-> c.pending, asked |-> c.asked]
  /\ {c.hover, c.pending} \subseteq H!Target \cup {Nothing}
  /\ Apart(c)

\* The pointer is over x, or over the same cells while another tab hides its pane.
Over(x) ==
  \/ pointer = Nothing
  \/ pointer \in H!Place /\ pointer.spot = x.spot /\ (x.pane \in view => pointer.pane = x.pane)

Under(x) == x # Nothing /\ ~blind[x.pane] => sent[x.pane] = ProbeOf(x) /\ Over(x)

HoverInv ==
  /\ view \in {H!Pane, {Left}, {Right}}
  /\ text \in [H!Pane -> [Spot -> H!Shown]]
  /\ pointer \in H!Place \cup {Nothing}
  /\ sent \in [H!Pane -> H!Probe \cup {Nothing}]
  /\ blind \in [H!Pane -> BOOLEAN]
  /\ CoreOK(core)
  /\ Under(core.hover) /\ Under(core.pending)

-----------------------------------------------------------------------------
(* At first nothing is underlined. *)
LEMMA HoverInit ==
  ASSUME H!Init
  PROVE  HoverInv
BY DEF H!Init, HoverInv, CoreOK, Apart, Under, H!Shown, H!Pane

(* What a canvas finds is a probe of the pointer's place in its own pane. *)
LEMMA FoundTyped ==
  ASSUME H!HoverAssumption, HoverInv, NEW P \in H!Pane, NEW place
  PROVE  /\ H!Found(P, place) \in H!Probe \cup {Nothing}
         /\ H!Found(P, place) # Nothing =>
              /\ place = [pane |-> P, spot |-> H!Found(P, place).spot]
              /\ place \in H!Place
<1>1. CASE /\ place \in H!Place /\ place.pane = P /\ held /\ place.spot \in Spot
           /\ text[P][place.spot] # "plain"
  <2>1. H!Found(P, place) = [spot |-> place.spot, text |-> text[P][place.spot]]
    BY <1>1 DEF H!Found
  <2>2. place = [pane |-> P, spot |-> place.spot] /\ place.spot \in Spot
    BY <1>1 DEF H!Place
  <2>3. text[P][place.spot] \in Path \cup {"url"}
    BY <1>1, <2>2 DEF HoverInv, H!Shown
  <2> QED
    BY <1>1, <2>1, <2>2, <2>3 DEF H!Probe
<1>2. CASE ~(/\ place \in H!Place /\ place.pane = P /\ held /\ place.spot \in Spot
             /\ text[P][place.spot] # "plain")
  BY <1>2 DEF H!Found
<1> QED
  BY <1>1, <1>2

(* After a pane's report the targets of that pane are what it found; those  *)
(* of the other are as they were, or gone.                                  *)
Follows(x, was, P, probe) ==
  x # Nothing => IF x.pane = P THEN ProbeOf(x) = probe ELSE x = was

(* A report replaces the targets of its pane and leaves the other pane's, or clears them. *)
LEMMA TargetSet ==
  ASSUME H!HoverAssumption, NEW c, CoreOK(c), NEW P \in H!Pane, NEW probe \in H!Probe \cup {Nothing},
         NEW d, d = H!set_term_target(c, P, probe)
  PROVE  /\ CoreOK(d)
         /\ Follows(d.hover, c.hover, P, probe)
         /\ Follows(d.pending, c.pending, P, probe)
<1>1. c = [hover |-> c.hover, pending |-> c.pending, asked |-> c.asked]
  BY DEF CoreOK
<1>2. CASE probe = Nothing
  <2>1. PICK e : e = H!clear_hover_for(c, P)
    OBVIOUS
  <2>2. CASE c.hover # Nothing /\ c.hover.pane = P
    <3>1. e = [hover |-> Nothing, pending |-> c.pending, asked |-> c.asked]
      BY <1>1, <2>1, <2>2 DEF H!clear_hover_for, H!hovers
    <3>2. d = e \/ d = [hover |-> Nothing, pending |-> Nothing, asked |-> c.asked]
      BY <1>2, <2>1, <3>1 DEF H!set_term_target, H!clear_pending_for
    <3>3. d = e => c.pending = Nothing \/ c.pending.pane # P
      BY <1>2, <2>1, <3>1 DEF H!set_term_target, H!clear_pending_for
    <3> QED
      BY <3>1, <3>2, <3>3 DEF CoreOK, Apart, Follows
  <2>3. CASE ~(c.hover # Nothing /\ c.hover.pane = P)
    <3>1. e = c
      BY <2>1, <2>3 DEF H!clear_hover_for, H!hovers
    <3>2. CASE c.pending # Nothing /\ c.pending.pane = P
      <4>1. d = [hover |-> c.hover, pending |-> Nothing, asked |-> c.asked]
        BY <1>1, <1>2, <2>1, <3>1, <3>2 DEF H!set_term_target, H!clear_pending_for
      <4> QED
        BY <2>3, <4>1 DEF CoreOK, Apart, Follows
    <3>3. CASE ~(c.pending # Nothing /\ c.pending.pane = P)
      <4>1. d = c
        BY <1>2, <2>1, <3>1, <3>3 DEF H!set_term_target, H!clear_pending_for
      <4> QED
        BY <2>3, <3>3, <4>1 DEF CoreOK, Apart, Follows
    <3> QED
      BY <3>2, <3>3
  <2> QED
    BY <2>2, <2>3
<1>3. CASE probe # Nothing
  <2>1. PICK aim : aim = [pane |-> P, spot |-> probe.spot, text |-> probe.text]
    OBVIOUS
  <2>2. aim \in H!Target /\ ProbeOf(aim) = probe /\ aim.pane = P
    BY <1>3, <2>1 DEF H!Target, H!Probe, ProbeOf
  <2>4. CASE probe.text = "url"
    <3>1. PICK e : e = H!clear_pending_for(c, P)
      OBVIOUS
    <3>2. d = [hover |-> aim, pending |-> e.pending, asked |-> c.asked]
      <4>1. d = [hover |-> aim, pending |-> H!clear_pending_for(c, P).pending, asked |-> c.asked]
        BY <1>3, <2>1, <2>4 DEF H!set_term_target
      <4> QED
        BY <3>1, <4>1
    <3>3. CASE c.pending # Nothing /\ c.pending.pane = P
      <4>1. e = [hover |-> c.hover, pending |-> Nothing, asked |-> c.asked]
        BY <1>1, <3>1, <3>3 DEF H!clear_pending_for
      <4>2. d = [hover |-> aim, pending |-> Nothing, asked |-> c.asked]
        BY <3>2, <4>1
      <4> QED
        BY <2>2, <4>2 DEF CoreOK, Apart, Follows
    <3>4. CASE ~(c.pending # Nothing /\ c.pending.pane = P)
      <4>1. e = c
        BY <3>1, <3>4 DEF H!clear_pending_for
      <4>2. d = [hover |-> aim, pending |-> c.pending, asked |-> c.asked]
        BY <3>2, <4>1
      <4> QED
        BY <2>2, <3>4, <4>2 DEF CoreOK, Apart, Follows
    <3> QED
      BY <3>3, <3>4
  <2>5. CASE probe.text # "url" /\ c.pending # aim
    <3>1. d = [hover |-> Nothing, pending |-> aim, asked |-> c.asked \cup {aim}]
      BY <1>3, <2>1, <2>5 DEF H!set_term_target
    <3> QED
      BY <2>2, <3>1 DEF CoreOK, Apart, Follows
  <2>6. CASE probe.text # "url" /\ c.pending = aim
    <3>1. d = c
      BY <1>3, <2>1, <2>6 DEF H!set_term_target
    <3>2. aim # Nothing
      BY <2>2 DEF H!HoverAssumption
    <3> QED
      BY <2>2, <2>6, <3>1, <3>2 DEF CoreOK, Apart, Follows
  <2> QED
    BY <2>4, <2>5, <2>6
<1> QED
  BY <1>2, <1>3

(* The same of a canvas that reports, and nothing of one that does not. *)
LEMMA ReportFollows ==
  ASSUME H!HoverAssumption, HoverInv, NEW c, CoreOK(c), NEW P \in H!Pane, NEW place, NEW reads,
         NEW d, d = H!Reports(c, P, place, reads)
  PROVE  /\ CoreOK(d)
         /\ IF P \in H!Telling(place, reads)
            THEN /\ Follows(d.hover, c.hover, P, H!Found(P, place))
                 /\ Follows(d.pending, c.pending, P, H!Found(P, place))
            ELSE d = c
<1>1. CASE P \in H!Telling(place, reads)
  <2>1. PICK probe : probe = H!Found(P, place)
    OBVIOUS
  <2>2. d = H!set_term_target(c, P, probe) /\ probe \in H!Probe \cup {Nothing}
    BY <1>1, <2>1, FoundTyped DEF H!Reports
  <2> QED
    BY <1>1, <2>1, <2>2, TargetSet
<1>2. CASE P \notin H!Telling(place, reads)
  BY <1>2 DEF H!Reports
<1> QED
  BY <1>1, <1>2

(* What is not blinded in a step was not before, or has reported. *)
LEMMA Seeing ==
  ASSUME NEW missing, NEW telling, H!Blinded(missing, telling),
         NEW x, x # Nothing, x.pane \in H!Pane, x = core'.hover \/ x = core'.pending,
         ~blind'[x.pane]
  PROVE  x.pane \notin missing /\ (~blind[x.pane] \/ x.pane \in telling)
<1>1. PICK P : P = x.pane /\ P \in H!Pane
  OBVIOUS
<1>2. H!Matters(P)'
  BY <1>1 DEF H!Matters
<1>3. blind'[P] = (/\ H!Matters(P)'
                   /\ P \in missing \/ (blind[P] /\ P \notin telling))
  BY <1>1, Zenon DEF H!Blinded
<1> QED
  BY <1>1, <1>2, <1>3

LEMMA BlindTyped ==
  ASSUME NEW missing, NEW telling, H!Blinded(missing, telling)
  PROVE  blind' \in [H!Pane -> BOOLEAN]
<1>1. ASSUME NEW P \in H!Pane
      PROVE  (/\ H!Matters(P)'
              /\ P \in missing \/ (blind[P] /\ P \notin telling)) \in BOOLEAN
  OBVIOUS
<1> QED
  BY <1>1, Zenon DEF H!Blinded

(* The panes that remember are on screen. *)
LEMMA RememberedIs ==
  ASSUME NEW was, NEW none, NEW P \in H!Pane
  PROVE  H!Remembered(was, none)[P] = IF P \in view THEN was[P] ELSE none
  BY DEF H!Remembered

(* A move: the panes that look report, and what they leave is where the pointer is. *)
LEMMA PointerKeeps ==
  ASSUME H!HoverAssumption, HoverInv, NEW place \in H!Place, NEW reads, place.pane \in view,
         H!CursorMoved(place, reads)
  PROVE  HoverInv'
<1>1. PICK c : c = H!Reports(core, Left, place, reads)
  OBVIOUS
<1>2. /\ CoreOK(c)
      /\ IF Left \in H!Telling(place, reads)
         THEN /\ Follows(c.hover, core.hover, Left, H!Found(Left, place))
              /\ Follows(c.pending, core.pending, Left, H!Found(Left, place))
         ELSE c = core
  BY <1>1, ReportFollows DEF HoverInv, H!Pane
<1>3. PICK d : d = H!Reports(c, Right, place, reads)
  OBVIOUS
<1>4. /\ CoreOK(d)
      /\ IF Right \in H!Telling(place, reads)
         THEN /\ Follows(d.hover, c.hover, Right, H!Found(Right, place))
              /\ Follows(d.pending, c.pending, Right, H!Found(Right, place))
         ELSE d = c
  BY <1>2, <1>3, ReportFollows DEF H!Pane
<1>5. /\ pointer' = place /\ core' = d /\ UNCHANGED <<view, text>>
      /\ sent' = [P \in H!Pane |-> IF P \in H!Telling(place, reads) THEN H!Found(P, place)
                                  ELSE H!Remembered(sent, Nothing)[P]]
      /\ H!Blinded(H!Pane \ H!Looking(place, reads), H!Telling(place, reads))
  BY <1>1, <1>3 DEF H!CursorMoved
<1>6. ASSUME NEW P \in H!Pane PROVE sent'[P] \in H!Probe \cup {Nothing}
  BY <1>5, FoundTyped, RememberedIs DEF HoverInv
<1>7. ASSUME NEW x \in H!Target \cup {Nothing}, NEW was, Under(was),
             x = core'.hover \/ x = core'.pending,
             x # Nothing => IF x.pane \in H!Telling(place, reads)
                            THEN ProbeOf(x) = H!Found(x.pane, place) ELSE x = was
      PROVE  Under(x)'
  <2>1. SUFFICES ASSUME x # Nothing, ~blind'[x.pane]
                 PROVE  sent'[x.pane] = ProbeOf(x) /\ Over(x)'
    BY DEF Under
  <2>2. PICK P \in H!Pane : P = x.pane
    BY <2>1 DEF H!Target
  <2>3. P \in H!Looking(place, reads) /\ (~blind[P] \/ P \in H!Telling(place, reads))
    BY <1>5, <1>7, <2>1, <2>2, Seeing
  <2>4. H!Found(P, place) = ProbeOf(x) /\ sent'[P] = ProbeOf(x)
    <3>1. CASE P \in H!Telling(place, reads)
      BY <1>5, <1>7, <2>1, <2>2, <3>1
    <3>2. CASE P \notin H!Telling(place, reads)
      <4>1. sent[P] = ProbeOf(x) /\ P \in view
        BY <1>7, <2>1, <2>2, <2>3, <3>2 DEF Under, H!Looking
      <4>2. H!Found(P, place) = sent[P]
        BY <2>3, <3>2 DEF H!Telling
      <4>3. sent'[P] = sent[P]
        BY <1>5, <3>2, <4>1, RememberedIs
      <4> QED
        BY <4>1, <4>2, <4>3
    <3> QED
      BY <3>1, <3>2
  <2>5. H!Found(P, place) # Nothing
    <3>1. ProbeOf(x) \in H!Probe
      BY <2>1 DEF H!Target, H!Probe, ProbeOf
    <3> QED
      BY <2>4, <3>1 DEF H!HoverAssumption
  <2>6. place = [pane |-> P, spot |-> H!Found(P, place).spot]
    BY <2>5, FoundTyped
  <2>7. H!Found(P, place).spot = x.spot
    BY <2>4 DEF ProbeOf
  <2>8. place.pane = P /\ place.spot = x.spot
    BY <2>6, <2>7
  <2> QED
    BY <1>5, <2>2, <2>4, <2>8 DEF Over
<1>8. Under(core.hover)' /\ Under(core.pending)'
  <2>1. d.hover \in H!Target \cup {Nothing} /\ d.pending \in H!Target \cup {Nothing}
    BY <1>4 DEF CoreOK
  <2>2. ASSUME NEW x, NEW mid, NEW was, x # Nothing,
               IF Left \in H!Telling(place, reads)
               THEN Follows(mid, was, Left, H!Found(Left, place)) ELSE mid = was,
               IF Right \in H!Telling(place, reads)
               THEN Follows(x, mid, Right, H!Found(Right, place)) ELSE x = mid
        PROVE  IF x.pane \in H!Telling(place, reads)
               THEN ProbeOf(x) = H!Found(x.pane, place) ELSE x = was
    BY <2>2 DEF Follows, H!Telling, H!Looking, HoverInv, H!Pane, H!HoverAssumption
  <2>3. Under(d.hover)'
    <3>1. PICK x : x = d.hover /\ x \in H!Target \cup {Nothing}
      BY <2>1
    <3>2. x # Nothing => IF x.pane \in H!Telling(place, reads)
                         THEN ProbeOf(x) = H!Found(x.pane, place) ELSE x = core.hover
      BY <1>2, <1>4, <2>2, <3>1
    <3>3. x = core'.hover
      BY <1>5, <3>1
    <3>4. Under(core.hover)
      BY DEF HoverInv
    <3>5. Under(x)'
      BY <1>7, <3>1, <3>2, <3>3, <3>4
    <3> QED
      BY <3>1, <3>5
  <2>4. Under(d.pending)'
    <3>1. PICK x : x = d.pending /\ x \in H!Target \cup {Nothing}
      BY <2>1
    <3>2. x # Nothing => IF x.pane \in H!Telling(place, reads)
                         THEN ProbeOf(x) = H!Found(x.pane, place) ELSE x = core.pending
      BY <1>2, <1>4, <2>2, <3>1
    <3>3. x = core'.pending
      BY <1>5, <3>1
    <3>4. Under(core.pending)
      BY DEF HoverInv
    <3>5. Under(x)'
      BY <1>7, <3>1, <3>2, <3>3, <3>4
    <3> QED
      BY <3>1, <3>5
  <2> QED
    BY <1>5, <2>3, <2>4 DEF Under, Over
<1>9. blind' \in [H!Pane -> BOOLEAN] /\ sent' \in [H!Pane -> H!Probe \cup {Nothing}]
  BY <1>5, <1>6, BlindTyped
<1> QED
  BY <1>4, <1>5, <1>8, <1>9 DEF HoverInv

(* A step that takes what a pane sent only where it blinds its canvas, and moves the
   pointer nowhere but away. *)
LEMMA StillUnder ==
  ASSUME HoverInv, NEW x \in H!Target \cup {Nothing}, Under(x), x = core'.hover \/ x = core'.pending,
         NEW missing, H!Blinded(missing, {}), UNCHANGED view, pointer' \in {pointer, Nothing},
         \A P \in H!Pane \ missing : x # Nothing /\ P = x.pane => sent'[P] = sent[P]
  PROVE  Under(x)'
<1>1. SUFFICES ASSUME x # Nothing, ~blind'[x.pane]
               PROVE  sent'[x.pane] = ProbeOf(x) /\ Over(x)'
  BY DEF Under
<1>2. x.pane \in H!Pane
  BY <1>1 DEF H!Target
<1>3. x.pane \notin missing /\ ~blind[x.pane]
  BY <1>1, <1>2, Seeing
<1> QED
  BY <1>1, <1>2, <1>3 DEF Under, Over

(* A step that leaves the core alone. *)
LEMMA ForgetKeeps ==
  ASSUME HoverInv, NEW missing, H!Blinded(missing, {}), UNCHANGED <<view, text, core>>,
         pointer' \in {pointer, Nothing},
         sent' \in [H!Pane -> H!Probe \cup {Nothing}],
         \A P \in H!Pane \ missing : sent'[P] = sent[P]
  PROVE  HoverInv'
<1>1. Under(core.hover)' /\ Under(core.pending)'
  <2>1. PICK x, y : x = core.hover /\ y = core.pending
    OBVIOUS
  <2>2. Under(x)' /\ Under(y)'
    BY <2>1, StillUnder DEF HoverInv, CoreOK
  <2> QED
    BY <2>1, <2>2 DEF Under, Over
<1> QED
  BY <1>1, BlindTyped DEF HoverInv, CoreOK, Apart

(* A click: its pane has nothing underlined and no question left. *)
LEMMA ClickKeeps ==
  ASSUME H!HoverAssumption, HoverInv, H!Click
  PROVE  HoverInv'
<1>1. PICK P : P = pointer.pane
  OBVIOUS
<1>2. PICK d : d = H!set_term_target(core, P, Nothing)
  OBVIOUS
<1>3. /\ P \in H!Pane
      /\ sent' = [H!Remembered(sent, Nothing) EXCEPT ![P] = Nothing]
      /\ core' = d
      /\ UNCHANGED <<view, text, pointer>>
      /\ H!Blinded(H!Pane \ view, {})
  BY <1>1, <1>2 DEF H!Click, H!activate_target, H!set_term_target, H!Place, H!Forgetting
<1>4. /\ CoreOK(d)
      /\ Follows(d.hover, core.hover, P, Nothing)
      /\ Follows(d.pending, core.pending, P, Nothing)
  BY <1>2, <1>3, TargetSet DEF HoverInv
<1>5. H!Remembered(sent, Nothing) \in [H!Pane -> H!Probe \cup {Nothing}]
  BY DEF H!Remembered, HoverInv
<1>6. ASSUME NEW x \in H!Target \cup {Nothing}, NEW was, Under(was), Follows(x, was, P, Nothing),
             x = core'.hover \/ x = core'.pending
      PROVE  Under(x)'
  <2>1. CASE x = Nothing
    BY <2>1 DEF Under
  <2>2. CASE x # Nothing
    <3>1. ProbeOf(x) \in H!Probe /\ x.pane \in H!Pane
      BY <2>2 DEF H!Target, H!Probe, ProbeOf
    <3>2. x.pane # P /\ x = was
      BY <1>6, <2>2, <3>1 DEF Follows, H!HoverAssumption
    <3>3. ASSUME NEW Q \in view, Q \in H!Pane, Q # P PROVE sent'[Q] = sent[Q]
      BY <1>3, <1>5, <3>3, RememberedIs
    <3> QED
      BY <1>3, <1>6, <3>1, <3>2, <3>3, StillUnder
  <2> QED
    BY <2>1, <2>2
<1>7. Under(d.hover)' /\ Under(d.pending)'
  <2>1. d.hover \in H!Target \cup {Nothing} /\ d.pending \in H!Target \cup {Nothing}
    BY <1>4 DEF CoreOK
  <2> QED
    BY <1>3, <1>4, <1>6, <2>1 DEF HoverInv
<1>8. Under(core.hover)' /\ Under(core.pending)'
  BY <1>3, <1>7 DEF Under, Over
<1>9. sent' \in [H!Pane -> H!Probe \cup {Nothing}] /\ blind' \in [H!Pane -> BOOLEAN]
  BY <1>3, <1>5, BlindTyped
<1> QED
  BY <1>3, <1>4, <1>8, <1>9 DEF HoverInv

(* An answer: what is underlined by it was waiting for it. *)
LEMMA ResolvedKeeps ==
  ASSUME H!HoverAssumption, HoverInv, NEW request \in H!Request, H!PathResolved(request)
  PROVE  HoverInv'
<1>1. core = [hover |-> core.hover, pending |-> core.pending, asked |-> core.asked]
  BY DEF HoverInv, CoreOK
<1>2. PICK d : d = H!path_resolved(core, request)
  OBVIOUS
<1>3. /\ core' = [d EXCEPT !.asked = @ \ {request}] /\ UNCHANGED <<view, text, pointer, sent>>
      /\ H!Blinded({}, {})
  BY <1>2 DEF H!PathResolved
<1>4. PICK h, x : /\ core' = [hover |-> h, pending |-> x, asked |-> core.asked \ {request}]
                  /\ \/ h = core.hover /\ x = core.pending
                     \/ h \in {core.pending, Nothing} /\ x = Nothing
  <2>1. CASE core.pending # request
    BY <1>1, <1>2, <1>3, <2>1 DEF H!path_resolved
  <2>2. CASE core.pending = request
    <3>1. PICK h : h = IF request.pane \in Rooted THEN request ELSE Nothing
      OBVIOUS
    <3>2. d = [hover |-> h, pending |-> Nothing, asked |-> core.asked]
      BY <1>1, <1>2, <2>2, <3>1 DEF H!path_resolved
    <3> QED
      BY <1>3, <2>2, <3>1, <3>2
  <2> QED
    BY <2>1, <2>2
<1>5. core'.hover = h /\ core'.pending = x /\ CoreOK(core')
  BY <1>4 DEF HoverInv, CoreOK, Apart
<1>6. Under(h)' /\ Under(x)'
  <2>1. {h, x} \subseteq H!Target \cup {Nothing}
    BY <1>5 DEF CoreOK
  <2>2. Under(h) /\ Under(x)
    BY <1>4 DEF HoverInv, Under
  <2> QED
    BY <1>3, <1>5, <2>1, <2>2, StillUnder
<1>7. Under(core.hover)' /\ Under(core.pending)'
  BY <1>5, <1>6 DEF Under, Over
<1> QED
  BY <1>3, <1>5, <1>7, BlindTyped DEF HoverInv

(* Another tab: the pointer stays over the cells it was over. *)
LEMMA SwitchKeeps ==
  ASSUME H!HoverAssumption, HoverInv, H!TabSwitched
  PROVE  HoverInv'
<1>1. PICK P \in H!Pane : view' = {P} /\ view # H!Pane
  BY DEF H!TabSwitched, HoverInv, H!Pane, H!HoverAssumption
<1>2. pointer' \in H!Place \cup {Nothing}
      /\ (pointer \in H!Place => pointer'.pane = P /\ pointer'.spot = pointer.spot)
      /\ (pointer \notin H!Place => pointer' = pointer)
  BY <1>1 DEF H!TabSwitched, HoverInv, H!Place
<1>3. UNCHANGED <<text, sent, blind, core>>
  BY DEF H!TabSwitched
<1>4. ASSUME NEW x, Under(x) PROVE Under(x)'
  <2>1. SUFFICES ASSUME x # Nothing, ~blind[x.pane]
                 PROVE  sent[x.pane] = ProbeOf(x) /\ Over(x)'
    BY <1>3 DEF Under
  <2>2. sent[x.pane] = ProbeOf(x) /\ Over(x)
    BY <1>4, <2>1 DEF Under
  <2>3. Over(x)'
    BY <1>1, <1>2, <2>2 DEF Over, HoverInv, H!HoverAssumption
  <2> QED
    BY <2>2, <2>3
<1> QED
  BY <1>1, <1>2, <1>3, <1>4 DEF HoverInv, CoreOK, Apart, Under, Over, H!Pane

(* HoverInv is kept by every step. *)
LEMMA HoverNext ==
  ASSUME H!HoverAssumption, HoverInv, [H!Next]_(H!vars)
  PROVE  HoverInv'
<1>1. ASSUME H!CursorLeft \/ H!Release \/ \E holds \in BOOLEAN : H!Press(holds)
      PROVE  HoverInv'
  <2>1. /\ UNCHANGED <<view, text, core>> /\ pointer' \in {pointer, Nothing}
        /\ sent' = H!Remembered(sent, Nothing) /\ H!Blinded(H!Pane \ view, {})
    BY <1>1 DEF H!CursorLeft, H!Release, H!Press, H!Forgetting
  <2>2. /\ sent' \in [H!Pane -> H!Probe \cup {Nothing}]
        /\ \A P \in H!Pane \ (H!Pane \ view) : sent'[P] = sent[P]
    BY <2>1 DEF H!Remembered, HoverInv
  <2> QED
    BY <2>1, <2>2, ForgetKeeps
<1>2. CASE H!FocusMoved
  <2>1. /\ UNCHANGED <<view, text, core, pointer>> /\ H!Blinded(H!Pane, {})
        /\ sent' \in [H!Pane -> H!Probe \cup {Nothing}]
    BY <1>2 DEF H!FocusMoved
  <2> QED
    BY <2>1, ForgetKeeps
<1>3. CASE H!Modifier \/ UNCHANGED H!vars
  BY <1>3 DEF H!Modifier, H!vars, HoverInv, CoreOK, Apart, Under, Over
<1>4. ASSUME NEW P \in H!Pane, NEW s \in Spot, H!Output(P, s)
      PROVE  HoverInv'
  <2>1. PICK t \in H!Shown : text' = [text EXCEPT ![P][s] = t]
    BY <1>4 DEF H!Output
  <2>2. text' \in [H!Pane -> [Spot -> H!Shown]]
    BY <2>1 DEF HoverInv
  <2>3. UNCHANGED <<view, pointer, sent, blind, core>>
    BY <1>4 DEF H!Output
  <2> QED
    BY <2>2, <2>3 DEF HoverInv, CoreOK, Apart, Under, Over
<1> QED
  BY <1>1, <1>2, <1>3, <1>4, PointerKeeps, ClickKeeps, ResolvedKeeps, SwitchKeeps DEF H!Next

-----------------------------------------------------------------------------
(* Whatever the panes show, whatever drags, tab switches and mouse-reading  *)
(* children keep their canvases from looking, and however late a path is    *)
(* resolved, nothing stays underlined on screen that the pointer has left   *)
(* and the canvas saw it leave (App::set_term_target, App::path_resolved).  *)
THEOREM NothingLeftUnderlined ==
  ASSUME H!HoverAssumption
  PROVE  H!Spec => []H!HoverUnderPointer
<1>1. H!Init => HoverInv
  BY HoverInit
<1>2. HoverInv /\ [H!Next]_(H!vars) => HoverInv'
  BY HoverNext
<1>3. HoverInv => H!HoverUnderPointer
  <2> SUFFICES ASSUME HoverInv, core.hover # Nothing, core.hover.pane \in view,
                      ~blind[core.hover.pane], pointer # Nothing
               PROVE  pointer = [pane |-> core.hover.pane, spot |-> core.hover.spot]
    BY DEF H!HoverUnderPointer
  <2>1. pointer \in H!Place /\ pointer.spot = core.hover.spot /\ pointer.pane = core.hover.pane
    BY DEF HoverInv, Under, Over
  <2> QED
    BY <2>1 DEF H!Place
<1> QED
  BY <1>1, <1>2, <1>3, PTL DEF H!Spec

\* The filesystem is asked about paths only.
HoverRest ==
  /\ held \in BOOLEAN
  /\ gesture \in [H!Pane -> BOOLEAN]
  /\ core.pending \in H!Request \cup {Nothing}
  /\ core.asked \subseteq H!Request

AsksPaths(c) ==
  /\ c = [hover |-> c.hover, pending |-> c.pending, asked |-> c.asked]
  /\ c.pending \in H!Request \cup {Nothing}
  /\ c.asked \subseteq H!Request

(* A report asks about a path or about nothing. *)
LEMMA TargetAsksPaths ==
  ASSUME H!HoverAssumption, NEW c, AsksPaths(c), NEW P \in H!Pane,
         NEW probe \in H!Probe \cup {Nothing}
  PROVE  AsksPaths(H!set_term_target(c, P, probe))
<1>1. PICK e : e = H!clear_hover_for(c, P)
  OBVIOUS
<1>2. AsksPaths(e)
  BY <1>1 DEF H!clear_hover_for, AsksPaths
<1>3. ASSUME NEW a, AsksPaths(a)
      PROVE  AsksPaths(H!clear_pending_for(a, P))
  <2>1. CASE H!clear_pending_for(a, P) = a
    BY <1>3, <2>1
  <2>2. CASE H!clear_pending_for(a, P) # a
    <3>1. H!clear_pending_for(a, P) = [hover |-> a.hover, pending |-> Nothing, asked |-> a.asked]
      BY <1>3, <2>2 DEF H!clear_pending_for, AsksPaths
    <3> QED
      BY <1>3, <3>1 DEF AsksPaths
  <2> QED
    BY <2>1, <2>2
<1>4. CASE probe = Nothing
  <2>1. H!set_term_target(c, P, probe) = H!clear_pending_for(e, P)
    BY <1>1, <1>4 DEF H!set_term_target
  <2> QED
    BY <1>2, <1>3, <2>1
<1>5. CASE probe # Nothing
  <2>1. PICK aim : aim = [pane |-> P, spot |-> probe.spot, text |-> probe.text]
    OBVIOUS
  <2>2. probe.text # "url" => aim \in H!Request
    BY <1>5, <2>1 DEF H!Probe, H!Request
  <2>3. PICK b : b = H!clear_pending_for(c, P)
    OBVIOUS
  <2>4. AsksPaths(b)
    BY <1>3, <2>3
  <2>5. CASE probe.text = "url"
    <3>0. c.pending # aim
      <4>1. aim \in H!Target /\ aim.text = "url"
        BY <1>5, <2>1, <2>5 DEF H!Probe, H!Target
      <4>2. \A r \in H!Request : r.text # "url"
        BY DEF H!Request, H!HoverAssumption
      <4> QED
        BY <4>1, <4>2 DEF AsksPaths, H!HoverAssumption
    <3>1. H!set_term_target(c, P, probe)
            = [hover |-> aim, pending |-> H!clear_pending_for(c, P).pending, asked |-> c.asked]
      BY <1>5, <2>1, <2>5, <3>0 DEF H!set_term_target
    <3> QED
      BY <2>3, <2>4, <3>1 DEF AsksPaths
  <2>6. CASE probe.text # "url" /\ c.pending = aim
    <3>1. H!set_term_target(c, P, probe) = c
      BY <1>5, <2>1, <2>6 DEF H!set_term_target
    <3> QED
      BY <3>1
  <2>7. CASE probe.text # "url" /\ c.pending # aim
    <3>1. H!set_term_target(c, P, probe)
            = [hover |-> Nothing, pending |-> aim, asked |-> c.asked \cup {aim}]
      BY <1>5, <2>1, <2>7 DEF H!set_term_target
    <3> QED
      BY <2>2, <2>7, <3>1 DEF AsksPaths
  <2> QED
    BY <2>5, <2>6, <2>7
<1> QED
  BY <1>4, <1>5

(* The types are kept by every step. *)
LEMMA HoverRestNext ==
  ASSUME H!HoverAssumption, HoverInv, HoverRest, [H!Next]_(H!vars)
  PROVE  HoverRest'
<1>0. AsksPaths(core) /\ H!Remembered(gesture, FALSE) \in [H!Pane -> BOOLEAN]
  BY DEF HoverInv, CoreOK, HoverRest, AsksPaths, H!Remembered
<1>1. ASSUME NEW place, NEW reads, H!CursorMoved(place, reads)
      PROVE  HoverRest'
  <2>1. ASSUME NEW c, AsksPaths(c), NEW P \in H!Pane
        PROVE  AsksPaths(H!Reports(c, P, place, reads))
    <3>1. \/ H!Reports(c, P, place, reads) = c
          \/ H!Reports(c, P, place, reads) = H!set_term_target(c, P, H!Found(P, place))
      BY DEF H!Reports
    <3> QED
      BY <2>1, <3>1, FoundTyped, TargetAsksPaths
  <2>2. PICK c : c = H!Reports(core, Left, place, reads)
    OBVIOUS
  <2>3. /\ core' = H!Reports(c, Right, place, reads) /\ held' = held
        /\ gesture' = H!Remembered(gesture, FALSE)
    BY <1>1, <2>2 DEF H!CursorMoved
  <2>4. AsksPaths(core')
    BY <1>0, <2>1, <2>2, <2>3 DEF H!Pane
  <2> QED
    BY <1>0, <2>3, <2>4 DEF HoverRest, AsksPaths
<1>2. CASE H!Click
  <2>1. /\ core' = H!set_term_target(core, pointer.pane, Nothing)
        /\ pointer.pane \in H!Pane /\ held' = held
        /\ gesture' = H!Remembered(gesture, FALSE)
    BY <1>2 DEF H!Click, H!activate_target, H!set_term_target, H!Place
  <2>2. AsksPaths(core')
    BY <1>0, <2>1, TargetAsksPaths
  <2> QED
    BY <1>0, <2>1, <2>2 DEF HoverRest, AsksPaths
<1>3. ASSUME NEW request \in H!Request, H!PathResolved(request)
      PROVE  HoverRest'
  <2>1. PICK d : d = H!path_resolved(core, request)
    OBVIOUS
  <2>2. core' = [d EXCEPT !.asked = @ \ {request}] /\ held' = held /\ gesture' = gesture
    BY <1>3, <2>1 DEF H!PathResolved
  <2>3. PICK h, x : /\ d = [hover |-> h, pending |-> x, asked |-> core.asked]
                    /\ x \in {core.pending, Nothing}
    <3>1. CASE core.pending # request
      BY <1>0, <2>1, <3>1 DEF H!path_resolved, AsksPaths
    <3>2. CASE core.pending = request
      BY <1>0, <2>1, <3>2 DEF H!path_resolved, AsksPaths
    <3> QED
      BY <3>1, <3>2
  <2>4. core' = [hover |-> h, pending |-> x, asked |-> core.asked \ {request}]
    BY <2>2, <2>3
  <2> QED
    BY <2>2, <2>3, <2>4 DEF HoverRest
<1>4. ASSUME \/ H!CursorLeft \/ H!Release \/ H!Modifier \/ H!TabSwitched \/ H!FocusMoved
             \/ (\E P \in H!Pane, s \in Spot : H!Output(P, s)) \/ UNCHANGED H!vars
      PROVE  HoverRest'
  BY <1>0, <1>4 DEF H!CursorLeft, H!Release, H!Modifier, H!TabSwitched, H!FocusMoved, H!Output,
     H!vars, HoverRest
<1>5. ASSUME NEW holds \in BOOLEAN, H!Press(holds)
      PROVE  HoverRest'
  <2>1. gesture' \in [H!Pane -> BOOLEAN]
    BY <1>0, <1>5 DEF H!Press
  <2> QED
    BY <1>5, <2>1 DEF H!Press, HoverRest
<1> QED
  BY <1>1, <1>2, <1>3, <1>4, <1>5 DEF H!Next

-----------------------------------------------------------------------------
(* The sidebar.                                                            *)

ScansTyped ==
  /\ tree \in [File -> C!Version] /\ shown \in [File -> C!Version]
  /\ found \in [File -> C!Entry] /\ cache \in [File -> C!Entry]

\* Nothing shown is newer than the file; the cache is what is shown; and what a
\* scan found lies between the two.
Between(k) ==
  /\ shown[k] <= tree[k]
  /\ cache[k].sig # C!Unread => cache[k].digest = shown[k]
  /\ found[k].digest # C!Unread => found[k].digest >= shown[k] /\ found[k].digest <= tree[k]

ScansInv == ScansTyped /\ \A k \in File : Between(k)

-----------------------------------------------------------------------------
(* Versions are numbers, and Unread is none of them. *)
LEMMA VersionIsNat ==
  ASSUME C!ScansAssumption
  PROVE  /\ MaxVersion \in Nat
         /\ C!Version \subseteq Nat
         /\ C!Unread \in Nat /\ C!Unread \notin C!Version
BY DEF C!ScansAssumption, C!Version, C!Unread

(* A scan that has read nothing. *)
LEMMA NothingFoundTyped ==
  /\ C!NothingFound \in [File -> C!Entry]
  /\ \A k \in File : C!NothingFound[k].digest = C!Unread /\ C!NothingFound[k].sig = C!Unread
BY DEF C!NothingFound, C!Entry

(* At first every file is shown as it is. *)
LEMMA ScansInit ==
  ASSUME C!ScansAssumption, C!Init
  PROVE  ScansInv
<1>1. 0 \in C!Version
  BY DEF C!ScansAssumption, C!Version
<1>2. ScansTyped
  BY <1>1, NothingFoundTyped DEF C!Init, ScansTyped
<1>3. ASSUME NEW k \in File PROVE Between(k)
  BY <1>1, VersionIsNat, NothingFoundTyped DEF C!Init, Between
<1> QED
  BY <1>2, <1>3 DEF ScansInv

(* A scan starts or one more is asked for: nothing it found is carried over. *)
LEMMA RescanKeeps ==
  ASSUME C!ScansAssumption, ScansInv, C!rescan, UNCHANGED <<tree, cache, shown>>
  PROVE  ScansInv'
<1>1. found' = found \/ found' = C!NothingFound
  BY DEF C!rescan
<1>2. ScansTyped'
  BY <1>1, NothingFoundTyped DEF ScansInv, ScansTyped
<1>3. ASSUME NEW k \in File PROVE Between(k)'
  BY <1>1, NothingFoundTyped DEF ScansInv, Between
<1> QED
  BY <1>2, <1>3 DEF ScansInv

(* A digest comes from the file, or from the cache and so from the sidebar. *)
LEMMA DigestKeeps ==
  ASSUME C!ScansAssumption, ScansInv, NEW k \in File, C!Digest(k)
  PROVE  ScansInv'
<1>1. PICK v : v = IF found[k].sig = cache[k].sig THEN cache[k].digest ELSE tree[k]
  OBVIOUS
<1>2. /\ found' = [found EXCEPT ![k].digest = v]
      /\ UNCHANGED <<tree, cache, shown>>
      /\ found[k].sig # C!Unread
  BY <1>1 DEF C!Digest
<1>3. v = shown[k] \/ v = tree[k]
  BY <1>1, <1>2 DEF ScansInv, Between
<1>4. v \in C!Version /\ v >= shown[k] /\ v <= tree[k]
  BY <1>3, VersionIsNat DEF ScansInv, ScansTyped, Between
<1>5. ScansTyped'
  <2>1. found[k] \in C!Entry
    BY DEF ScansInv, ScansTyped
  <2>2. [found[k] EXCEPT !.digest = v] \in C!Entry
    BY <1>4, <2>1 DEF C!Entry
  <2>3. found' \in [File -> C!Entry]
    BY <1>2, <2>2 DEF ScansInv, ScansTyped
  <2> QED
    BY <1>2, <2>3 DEF ScansInv, ScansTyped
<1>6. ASSUME NEW j \in File PROVE Between(j)'
  <2>1. CASE j = k
    <3>1. found'[j].digest = v
      BY <1>2, <2>1 DEF ScansInv, ScansTyped, C!Entry
    <3> QED
      BY <1>2, <1>4, <2>1, <3>1 DEF ScansInv, Between
  <2>2. CASE j # k
    <3>1. found'[j] = found[j]
      BY <1>2, <2>2 DEF ScansInv, ScansTyped
    <3> QED
      BY <1>2, <3>1 DEF ScansInv, Between
  <2> QED
    BY <2>1, <2>2
<1> QED
  BY <1>5, <1>6 DEF ScansInv

(* What was found becomes what is shown and what the cache holds. *)
LEMMA CompletedKeeps ==
  ASSUME C!ScansAssumption, ScansInv, C!ScanCompleted
  PROVE  ScansInv' /\ \A k \in File : shown'[k] >= shown[k]
<1>1. /\ cache' = found
      /\ shown' = [k \in File |-> found[k].digest]
      /\ tree' = tree
      /\ found' = C!NothingFound
      /\ \A k \in File : found[k].digest # C!Unread
  BY DEF C!ScanCompleted, C!scan_settled
<1>2. \A k \in File : found[k].digest \in C!Version
  BY <1>1 DEF ScansInv, ScansTyped, C!Entry
<1>3. ScansTyped'
  BY <1>1, <1>2, NothingFoundTyped DEF ScansInv, ScansTyped
<1>4. ASSUME NEW k \in File PROVE Between(k)' /\ shown'[k] >= shown[k]
  BY <1>1, NothingFoundTyped DEF ScansInv, Between
<1> QED
  BY <1>3, <1>4 DEF ScansInv

(* ScansInv is kept by every step, and none takes the sidebar back. *)
LEMMA ScansNext ==
  ASSUME C!ScansAssumption, ScansInv, [C!Next]_(C!vars)
  PROVE  ScansInv' /\ \A k \in File : shown'[k] >= shown[k]
<1> USE DEF ScansInv
<1>0. \A k \in File : shown[k] \in Nat /\ tree[k] \in Nat
  BY VersionIsNat DEF ScansTyped
<1>1. ASSUME NEW k \in File, C!Change(k)
      PROVE  ScansInv' /\ shown' = shown
  <2>1. /\ tree[k] < MaxVersion
        /\ tree' = [tree EXCEPT ![k] = @ + 1]
        /\ UNCHANGED <<found, cache, shown>>
    BY <1>1 DEF C!Change, C!scan
  <2>2. tree[k] + 1 \in C!Version
    BY <1>0, <2>1 DEF ScansTyped, C!ScansAssumption, C!Version
  <2>3. ScansTyped'
    BY <2>1, <2>2 DEF ScansTyped
  <2>4. ASSUME NEW j \in File PROVE Between(j)'
    <3>1. tree'[j] >= tree[j] /\ tree'[j] \in Nat
      BY <1>0, <2>1 DEF ScansTyped
    <3>2. found[j].digest # C!Unread => found[j].digest \in Nat
      BY VersionIsNat DEF ScansTyped, C!Entry
    <3> QED
      BY <1>0, <2>1, <3>1, <3>2 DEF Between
  <2> QED
    BY <2>1, <2>3, <2>4
<1>2. CASE C!Boot \/ C!Watch \/ C!Burst \/ UNCHANGED C!vars
  <2>1. UNCHANGED <<tree, shown, found, cache>>
    BY <1>2 DEF C!Boot, C!Watch, C!Burst, C!vars, C!scan
  <2> QED
    BY <1>0, <2>1 DEF ScansTyped, Between
<1>3. CASE C!ProjectsChanged
  <2>1. C!rescan /\ UNCHANGED <<tree, cache, shown>>
    BY <1>3 DEF C!ProjectsChanged
  <2> QED
    BY <1>0, <2>1, RescanKeeps
<1>4. ASSUME NEW k \in File, C!file_sig(k)
      PROVE  ScansInv' /\ shown' = shown
  <2>1. /\ found' = [found EXCEPT ![k].sig = tree[k]]
        /\ UNCHANGED <<tree, cache, shown>>
    BY <1>4 DEF C!file_sig
  <2>2. found[k] \in C!Entry /\ tree[k] \in C!Version
    BY DEF ScansTyped
  <2>3. [found[k] EXCEPT !.sig = tree[k]] \in C!Entry
    BY <2>2 DEF C!Entry
  <2>4. ScansTyped'
    BY <2>1, <2>3 DEF ScansTyped
  <2>5. ASSUME NEW j \in File PROVE found'[j].digest = found[j].digest
    BY <2>1, <2>2 DEF ScansTyped, C!Entry
  <2> QED
    BY <2>1, <2>4, <2>5 DEF Between
<1>5. ASSUME NEW k \in File, C!Digest(k)
      PROVE  ScansInv' /\ shown' = shown
  BY <1>5, DigestKeeps DEF C!Digest
<1>6. CASE C!ScanCompleted
  BY <1>6, CompletedKeeps
<1>7. CASE C!ScanFailed
  <2>1. UNCHANGED <<tree, cache, shown>> /\ found' = C!NothingFound
    BY <1>7 DEF C!ScanFailed, C!scan_settled
  <2> QED
    BY <1>0, <2>1, NothingFoundTyped DEF ScansTyped, Between
<1> QED
  BY <1>0, <1>1, <1>2, <1>3, <1>4, <1>5, <1>6, <1>7 DEF C!Next, C!Scan

-----------------------------------------------------------------------------
(* No scan shows an older version of a file than the one before it did,     *)
(* whatever changed while it read and whatever it took from the cache       *)
(* (scan_folder, Shell::update on ScanCompleted).                           *)
THEOREM SidebarNeverBack ==
  ASSUME C!ScansAssumption
  PROVE  C!Spec => C!SidebarForward
<1>1. C!Init => ScansInv
  BY ScansInit
<1>2. ScansInv /\ [C!Next]_(C!vars) => ScansInv'
  BY ScansNext
<1>3. ScansInv /\ [C!Next]_(C!vars) => [\A k \in File : shown'[k] >= shown[k]]_(C!vars)
  BY ScansNext
<1> QED
  BY <1>1, <1>2, <1>3, PTL DEF C!Spec, C!SidebarForward

ScansFlags ==
  /\ started \in BOOLEAN /\ watching \in BOOLEAN /\ event \in BOOLEAN
  /\ scanning \in BOOLEAN /\ rescan_pending \in BOOLEAN /\ scan_error \in BOOLEAN
  /\ rescan_pending => scanning

ScansRest ==
  /\ ScansFlags
  /\ due \in [File -> C!Version]
  /\ messages \in Nat
  /\ failures \in 0 .. MaxFailed

(* The flags keep their types, and a rescan is owed only during a scan. *)
LEMMA ScansFlagsNext ==
  ASSUME ScansFlags, [C!Next]_(C!vars)
  PROVE  ScansFlags'
<1>1. CASE (\E k \in File : C!Change(k)) \/ UNCHANGED C!vars
  <2>1. /\ started' = started /\ watching' = watching /\ scan_error' = scan_error
        /\ scanning' = scanning /\ rescan_pending' = rescan_pending
    BY <1>1 DEF C!Change, C!scan, C!vars
  <2>2. event' = event \/ event' = (event \/ watching)
    BY <1>1 DEF C!Change, C!vars
  <2> QED
    BY <2>1, <2>2, Zenon DEF ScansFlags
<1>2. CASE C!Boot
  <2>1. /\ watching' = watching /\ event' = event /\ scan_error' = scan_error
        /\ rescan_pending' = rescan_pending /\ started' = TRUE /\ scanning' = TRUE
    BY <1>2 DEF C!Boot
  <2> QED
    BY <2>1, Zenon DEF ScansFlags
<1>3. CASE C!Watch \/ C!Burst
  <2>1. /\ started' = started /\ scanning' = scanning /\ rescan_pending' = rescan_pending
        /\ scan_error' = scan_error
        /\ watching' = watching \/ watching' = TRUE
        /\ event' = event \/ event' = FALSE
    BY <1>3 DEF C!Watch, C!Burst, C!scan
  <2> QED
    BY <2>1, Zenon DEF ScansFlags
<1>4. CASE C!ProjectsChanged
  <2>1. /\ started' = started /\ watching' = watching /\ event' = event
        /\ scan_error' = scan_error
    BY <1>4 DEF C!ProjectsChanged
  <2>2. \/ scanning /\ scanning' = scanning /\ rescan_pending' = TRUE
        \/ scanning' = TRUE /\ rescan_pending' = rescan_pending
    BY <1>4 DEF C!ProjectsChanged, C!rescan
  <2> QED
    BY <2>1, <2>2, Zenon DEF ScansFlags
<1>5. CASE \E k \in File : C!file_sig(k) \/ C!Digest(k)
  <2>1. /\ started' = started /\ watching' = watching /\ event' = event
        /\ scanning' = scanning /\ rescan_pending' = rescan_pending
        /\ scan_error' = scan_error
    BY <1>5 DEF C!file_sig, C!Digest
  <2> QED
    BY <2>1, Zenon DEF ScansFlags
<1>6. CASE C!ScanCompleted \/ C!ScanFailed
  <2>1. /\ started' = started /\ watching' = watching /\ event' = event
        /\ scanning' = rescan_pending /\ rescan_pending' = FALSE
        /\ scan_error' \in BOOLEAN
    BY <1>6 DEF C!ScanCompleted, C!ScanFailed, C!scan_settled
  <2> QED
    BY <2>1, Zenon DEF ScansFlags
<1> QED
  BY <1>1, <1>2, <1>3, <1>4, <1>5, <1>6, Zenon DEF C!Next, C!Scan

(* The types are kept by every step. *)
LEMMA ScansRestNext ==
  ASSUME C!ScansAssumption, ScansInv, ScansRest, [C!Next]_(C!vars)
  PROVE  ScansRest'
<1>1. due' \in [File -> C!Version]
  <2>1. ASSUME NEW k \in File, C!Change(k)
        PROVE  due' \in [File -> C!Version]
    <3>1. tree[k] + 1 \in C!Version
      BY <2>1, VersionIsNat DEF C!Change, ScansInv, ScansTyped, C!ScansAssumption, C!Version
    <3>2. tree'[k] = tree[k] + 1
      BY <2>1 DEF C!Change, ScansInv, ScansTyped
    <3> QED
      BY <2>1, <3>1, <3>2 DEF C!Change, ScansRest
  <2>2. ASSUME \A k \in File : ~C!Change(k)
        PROVE  due' = due
    BY <2>2 DEF C!Next, C!Scan, C!Boot, C!Watch, C!Burst, C!ProjectsChanged, C!file_sig,
                C!Digest, C!ScanCompleted, C!ScanFailed, C!vars
  <2> QED
    BY <2>1, <2>2 DEF ScansRest
<1>2. messages' \in Nat
  <2>1. messages' = messages \/ messages' = messages + 1
          \/ (messages > 0 /\ messages' = messages - 1)
    BY DEF C!Next, C!Scan, C!Change, C!Boot, C!Watch, C!Burst, C!ProjectsChanged, C!file_sig,
           C!Digest, C!ScanCompleted, C!ScanFailed, C!vars
  <2> QED
    BY <2>1 DEF ScansRest
<1>3. failures' \in 0 .. MaxFailed
  <2>1. failures' = failures \/ (failures < MaxFailed /\ failures' = failures + 1)
    BY DEF C!Next, C!Scan, C!Change, C!Boot, C!Watch, C!Burst, C!ProjectsChanged, C!file_sig,
           C!Digest, C!ScanCompleted, C!ScanFailed, C!vars
  <2> QED
    BY <2>1 DEF ScansRest, C!ScansAssumption
<1> QED
  BY <1>1, <1>2, <1>3, ScansFlagsNext DEF ScansRest

-----------------------------------------------------------------------------
(* The four together.                                                      *)

TasksInv ==
  /\ LinksInv /\ LinksRest
  /\ SettingsInv
  /\ HoverInv /\ HoverRest
  /\ ScansInv /\ ScansRest

(* The first states. *)
LEMMA TasksInit ==
  ASSUME L!LinksAssumption, S!SettingsAssumption, H!HoverAssumption, C!ScansAssumption, Init
  PROVE  TasksInv
<1>1. LinksInv /\ LinksRest
  BY LinksInit, LinksRestInit DEF Init
<1>2. SettingsInv
  BY SettingsInit DEF Init
<1>3. HoverInv /\ HoverRest
  BY HoverInit DEF Init, H!Init, HoverRest
<1>4. ScansInv /\ ScansRest
  <2>1. 0 \in C!Version /\ MaxFailed \in Nat
    BY DEF C!Version, C!ScansAssumption
  <2>2. ScansFlags
    BY Zenon DEF Init, C!Init, ScansFlags
  <2>3. C!Init
    BY DEF Init
  <2>4. due = [k \in File |-> 0] /\ messages = 0 /\ failures = 0
    BY <2>3 DEF C!Init
  <2> QED
    BY <2>1, <2>2, <2>3, <2>4, ScansInit DEF ScansRest
<1> QED
  BY <1>1, <1>2, <1>3, <1>4 DEF TasksInv

(* Each of the four takes its own steps, and no other's variables change. *)
LEMMA TasksNext ==
  ASSUME L!LinksAssumption, S!SettingsAssumption, H!HoverAssumption, C!ScansAssumption,
         TasksInv, [Next]_vars
  PROVE  TasksInv'
<1>1. [L!Next]_(L!vars)
  BY DEF Next, vars, linksVars, L!vars
<1>2. [S!Next]_(S!vars)
  BY DEF Next, vars, settingsVars, S!vars
<1>3. [H!Next]_(H!vars)
  BY DEF Next, vars, hoverVars, H!vars
<1>4. [C!Next]_(C!vars)
  BY DEF Next, vars, scansVars, C!vars, C!scan
<1>5. LinksInv' /\ LinksRest'
  BY <1>1, LinksNext, LinksRestNext DEF TasksInv, LinksInv
<1>6. SettingsInv'
  BY <1>2, SettingsNext DEF TasksInv
<1>7. HoverInv' /\ HoverRest'
  BY <1>3, HoverNext, HoverRestNext DEF TasksInv
<1>8. ScansInv' /\ ScansRest'
  BY <1>4, ScansNext, ScansRestNext DEF TasksInv
<1> QED
  BY <1>5, <1>6, <1>7, <1>8 DEF TasksInv

(* The invariants give the types the four components state. *)
LEMMA TasksTypes ==
  ASSUME L!LinksAssumption, C!ScansAssumption, TasksInv
  PROVE  TypeOK
<1>1. L!TypeOK
  <2>1. lock # Nobody => L!Alive(lock)
    BY DEF TasksInv, LinksRest, L!Alive
  <2> QED
    BY <2>1, SameCardinality
    DEF TasksInv, LinksInv, LinksTyped, LinksRest, L!TypeOK, ChangedRec, DrainRec
<1>2. S!TypeOK
  <2>1. aside \in UNION {[1 .. n -> SUBSET S!Mark] : n \in 0 .. MaxAside}
    <3>1. aside \in Seq(SUBSET S!Mark) /\ Len(aside) <= MaxAside
      BY DEF TasksInv, SettingsInv, SettingsTyped
    <3>2. PICK n \in Nat : n = Len(aside)
      BY <3>1
    <3>3. n \in 0 .. MaxAside /\ aside \in [1 .. n -> SUBSET S!Mark]
      BY <3>1, <3>2
    <3> QED
      BY <3>3
  <2>2. ASSUME NEW w \in S!Writer
        PROVE  /\ writer[w].at \in {"rest", "truncate", "fill"}
               /\ writer[w].text \in S!Text
               /\ writer[w].aside \in 0 .. MaxAside
               /\ writer[w].met \in BOOLEAN
    <3>1. writer[w] \in WriteRec
      BY DEF TasksInv, SettingsInv, SettingsTyped
    <3> QED
      BY <3>1 DEF WriteRec
  <2> QED
    BY <2>1, <2>2 DEF TasksInv, SettingsInv, SettingsTyped, S!TypeOK
<1>3. H!TypeOK
  BY DEF TasksInv, HoverInv, CoreOK, HoverRest, H!TypeOK
<1>4. C!TypeOK
  BY DEF TasksInv, ScansInv, ScansTyped, ScansRest, ScansFlags, C!TypeOK
<1> QED
  BY <1>1, <1>2, <1>3, <1>4 DEF TypeOK

(* The four components keep their types, for any launches, files, panes and bounds:
   among them that the single-instance lock is held by a launch that lives
   (acquire_single_instance) and that a rescan is owed only during a scan (rescan). *)
THEOREM TasksTyped ==
  ASSUME L!LinksAssumption, S!SettingsAssumption, H!HoverAssumption, C!ScansAssumption
  PROVE  Spec => []TypeOK
<1>1. Init => TasksInv
  BY TasksInit
<1>2. TasksInv /\ [Next]_vars => TasksInv'
  BY TasksNext
<1>3. TasksInv => TypeOK
  BY TasksTypes
<1> QED
  BY <1>1, <1>2, <1>3, PTL DEF Spec
=============================================================================
