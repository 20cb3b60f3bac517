------------------------------ MODULE PaneTree ------------------------------
(***************************************************************************)
(* One tab's layout: a binary tree of splits whose leaves are sessions,    *)
(* and the path of the focused leaf (crates/core/src/workspace.rs).        *)
(*                                                                         *)
(* A layout is a record                                                    *)
(*    at     the path of each hosted session's leaf, from the root         *)
(*    dir    the orientation of the split at each inner node               *)
(*    focus  the path of the focused leaf                                  *)
(* where a path is a sequence of branches.  The split ratio is left out:   *)
(* nothing but the drawing reads it.                                       *)
(***************************************************************************)
EXTENDS Integers, Sequences, FiniteSets, SequencesExt

Branch == {"A", "B"}
SplitDir == {"Horizontal", "Vertical"}
Direction == {"Left", "Right", "Up", "Down"}

Opposite(b) == IF b = "A" THEN "B" ELSE "A"

(* The split orientation a directional move crosses, and the side it goes to. *)
Axis(d) == IF d \in {"Left", "Right"} THEN "Vertical" ELSE "Horizontal"
Toward(d) == IF d \in {"Right", "Down"} THEN "B" ELSE "A"

NewLayout(s) == [at |-> [t \in {s} |-> <<>>], dir |-> <<>>, focus |-> <<>>]

Hosted(tab) == DOMAIN tab.at
LeafPaths(tab) == {tab.at[s] : s \in Hosted(tab)}

(* The session whose leaf is at a path.  *)
SessionAt(tab, path) == CHOOSE s \in Hosted(tab) : tab.at[s] = path

(* The session in focus: meaningful only when the focus path ends on a leaf. *)
FocusedSession(tab) == SessionAt(tab, tab.focus)

(* From the node at a path, keep taking branch b down to a leaf. *)
Descend(tab, path, b) ==
  CHOOSE q \in LeafPaths(tab) :
    /\ IsPrefix(path, q)
    /\ \A i \in Len(path) + 1 .. Len(q) : q[i] = b

FirstSession(tab) == SessionAt(tab, Descend(tab, <<>>, "A"))

(* Leaf p is drawn before (left of or above) leaf q. *)
Before(p, q) ==
  \E i \in DOMAIN p \cap DOMAIN q :
    /\ p[i] = "A" /\ q[i] = "B"
    /\ \A j \in 1 .. i - 1 : p[j] = q[j]

(* Every leaf's path, left to right. *)
LeafOrder(tab) ==
  CHOOSE order \in [1 .. Cardinality(LeafPaths(tab)) -> LeafPaths(tab)] :
    \A i, j \in DOMAIN order : i < j => Before(order[i], order[j])

(***************************************************************************)
(* Splitting and closing.                                                  *)
(***************************************************************************)

(* The focused leaf becomes a split: it goes to side A of it, `new` to side B. *)
SplitPath(tab, new, s) ==
  CASE s = new -> Append(tab.focus, "B")
    [] s # new /\ tab.at[s] = tab.focus -> Append(tab.focus, "A")
    [] OTHER -> tab.at[s]

(* Mutant of SplitFocus: the split leaf is not moved below its new split. *)
SplitFocusInPlace(tab, d, new) ==
  [at |-> [s \in Hosted(tab) \cup {new} |->
             IF s = new THEN Append(tab.focus, "B") ELSE tab.at[s]],
   dir |-> [p \in DOMAIN tab.dir \cup {tab.focus} |-> IF p = tab.focus THEN d ELSE tab.dir[p]],
   focus |-> Append(tab.focus, "B")]

(* Wrap the focused leaf in a split with `new` on side B, which takes focus. *)
SplitFocus(tab, d, new) ==
  [at |-> [s \in Hosted(tab) \cup {new} |-> SplitPath(tab, new, s)],
   dir |-> [p \in DOMAIN tab.dir \cup {tab.focus} |-> IF p = tab.focus THEN d ELSE tab.dir[p]],
   focus |-> Append(tab.focus, "B")]

(* What is left of a path below `above`. *)
Below(p, above) == SubSeq(p, Len(above) + 1, Len(p))

(* The leaf of s goes and its sibling subtree takes the parent split's place:
   every path under the sibling loses the branch it took below the parent. *)
Collapse(tab, s) ==
  LET parent == Front(tab.at[s])
      sibling == Append(parent, Opposite(Last(tab.at[s])))
      Lifted(p) == IF IsPrefix(sibling, p) THEN parent \o Below(p, sibling) ELSE p
      Origin(q) == IF IsPrefix(parent, q) THEN sibling \o Below(q, parent) ELSE q
  IN [tab EXCEPT !.at = [t \in Hosted(tab) \ {s} |-> Lifted(tab.at[t])],
                 !.dir = [q \in {Lifted(p) : p \in DOMAIN tab.dir \ {parent}} |->
                            tab.dir[Origin(q)]]]

(* Mutant of CloseLeaf: the sibling takes the focus whoever had it. *)
CloseLeafToSibling(tab, s) ==
  LET rest == Collapse(tab, s)
  IN [rest EXCEPT !.focus = Descend(rest, Front(tab.at[s]), "A")]

(* Focus stays with the leaf that had it, unless that leaf is the closed one:
   then the first leaf of the sibling subtree has it. *)
CloseLeaf(tab, s) ==
  LET rest == Collapse(tab, s)
  IN [rest EXCEPT !.focus = IF tab.focus = tab.at[s]
                            THEN Descend(rest, Front(tab.at[s]), "A")
                            ELSE rest.at[FocusedSession(tab)]]

(***************************************************************************)
(* Moving the focus.                                                       *)
(***************************************************************************)

FocusOn(tab, s) == [tab EXCEPT !.focus = tab.at[s]]

(* The index `step` ("Next" or "Prev") away from index i of 1..n, wrapping. *)
IndexAfter(step, i, n) ==
  IF step = "Next" THEN (i % n) + 1 ELSE ((i + n - 2) % n) + 1

(* The next or previous pane in drawing order, wrapping. *)
CycleFocus(tab, step) ==
  LET order == LeafOrder(tab)
      here == CHOOSE i \in DOMAIN order : order[i] = tab.focus
  IN [tab EXCEPT !.focus = order[IndexAfter(step, here, Len(order))]]

(* How many branches deep are the ancestor splits of the focus that have the
   axis of a move d. *)
Crossings(tab, d) ==
  {i \in 0 .. Len(tab.focus) - 1 :
     LET p == SubSeq(tab.focus, 1, i)
     IN p \in DOMAIN tab.dir /\ tab.dir[p] = Axis(d)}

(* Those the move can cross: the focus is on the side it leaves. *)
Crossable(tab, d) ==
  {i \in Crossings(tab, d) : tab.focus[i + 1] = Opposite(Toward(d))}

(* Mutant of EdgeLeaf: the far edge of the subtree entered, not the near one. *)
FarEdgeLeaf(tab, i, branch, d) ==
  Descend(tab, Append(SubSeq(tab.focus, 1, i), branch), Toward(d))

(* The leaf a move d lands on, entering `branch` of the split i deep. *)
EdgeLeaf(tab, i, branch, d) ==
  Descend(tab, Append(SubSeq(tab.focus, 1, i), branch), Opposite(Toward(d)))

(* A move steps across the nearest split it can cross, else wraps around the
   outermost split of its axis, else does nothing. *)
FocusDirOf(tab, d) ==
  IF Crossable(tab, d) # {}
  THEN [tab EXCEPT !.focus = EdgeLeaf(tab, Max(Crossable(tab, d)), Toward(d), d)]
  ELSE IF Crossings(tab, d) # {}
  THEN [tab EXCEPT !.focus = EdgeLeaf(tab, Min(Crossings(tab, d)), Opposite(Toward(d)), d)]
  ELSE tab

(***************************************************************************)
(* What makes a layout a tree with its focus on a leaf.                    *)
(***************************************************************************)

(* The leaves' paths are those of a binary tree whose inner nodes are exactly
   the recorded splits: every split has something under both branches, and no
   leaf is above or below another. *)
IsTree(tab) ==
  /\ tab.dir \in [DOMAIN tab.dir -> SplitDir]
  /\ LeafPaths(tab) \cup DOMAIN tab.dir \subseteq Seq(Branch)
  /\ \A p \in DOMAIN tab.dir, b \in Branch :
       Append(p, b) \in LeafPaths(tab) \cup DOMAIN tab.dir
  /\ \A p \in (LeafPaths(tab) \cup DOMAIN tab.dir) \ {<<>>} : Front(p) \in DOMAIN tab.dir
  /\ LeafPaths(tab) \cap DOMAIN tab.dir = {}
  /\ \A s, t \in Hosted(tab) : tab.at[s] = tab.at[t] => s = t

FocusOnLeaf(tab) == tab.focus \in LeafPaths(tab)
=============================================================================
