----------------------------- MODULE CoreProofs -----------------------------
(***************************************************************************)
(* What the operations of a tab's layout (module PaneTree), of the strip   *)
(* (module TabStrip) and of the app (module AppCore) guarantee, of trees   *)
(* of any depth and strips of any length: the lemmas behind modules        *)
(* WorkspaceProofs, AppProofs and ShellProofs.                             *)
(*                                                                         *)
(* Each handler of module AppCore is shown to answer sanely (`Sane`) from  *)
(* any app that fits (`Fits`).  `Fits` asks for a good strip (`Good`)      *)
(* besides a registry of the sessions hosted: without it a close, which    *)
(* finds the panes that die through the tree's leaves, need not kill what  *)
(* it forgets.                                                             *)
(***************************************************************************)
EXTENDS AppCore, SequenceTheorems, FiniteSetTheorems, WellFoundedInduction, TLAPS

-----------------------------------------------------------------------------
(***************************************************************************)
(* Naturals.  Induction comes from FiniteSetTheorems: the intervals 1 .. n *)
(* are well founded under inclusion, so a set of naturals has a least      *)
(* element.                                                                *)
(***************************************************************************)

(* Any nonempty set of naturals has a least element. *)
LEMMA Least ==
  ASSUME NEW T, T \subseteq Nat, T # {}
  PROVE  \E x \in T : \A y \in T : x <= y
<1>1. PICK U : U = {1 .. n : n \in T}
  OBVIOUS
<1>2. U \subseteq FiniteSubsetsOf(Nat) /\ U # {}
  <2>1. ASSUME NEW n \in T PROVE 1 .. n \in SUBSET Nat /\ IsFiniteSet(1 .. n)
    <3>1. n \in Int /\ 1 \in Int
      OBVIOUS
    <3> QED
      BY <3>1, FS_Interval
  <2> QED
    BY <1>1, <2>1 DEF FiniteSubsetsOf
<1>3. PICK R : R = StrictSubsetOrdering(Nat)
  OBVIOUS
<1>4. IsWellFoundedOn(R, FiniteSubsetsOf(Nat))
  BY <1>3, FS_StrictSubsetOrderingWellFounded
<1>5. PICK I \in U : \A J \in U : ~ (<<J, I>> \in R)
  BY <1>2, <1>4, WFMin
<1>6. PICK x \in T : I = 1 .. x
  BY <1>1, <1>5
<1>7. ASSUME NEW y \in T, y < x PROVE FALSE
  <2>1. 1 .. y \in U
    BY <1>1
  <2>2. 1 .. y \subseteq 1 .. x /\ x \in 1 .. x /\ x \notin 1 .. y /\ 1 .. x \subseteq Nat
    BY <1>7
  <2>3. <<1 .. y, 1 .. x>> \in R
    BY <1>3, <2>2 DEF StrictSubsetOrdering
  <2> QED
    BY <1>5, <1>6, <2>1, <2>3
<1> QED
  BY <1>7

(* A nonempty set of integers no greater than some bound has a greatest. *)
LEMMA Greatest ==
  ASSUME NEW T, T \subseteq Nat, T # {}, NEW n \in Nat, \A x \in T : x <= n
  PROVE  \E x \in T : \A y \in T : y <= x
<1>1. PICK U : U = {n - x : x \in T}
  OBVIOUS
<1>2. U \subseteq Nat /\ U # {}
  <2>1. \A x \in T : n - x \in Nat
    OBVIOUS
  <2> QED
    BY <1>1, <2>1
<1>3. PICK u \in U : \A v \in U : u <= v
  BY <1>2, Least
<1>4. PICK x \in T : u = n - x
  BY <1>1
<1>5. \A y \in T : n - x <= n - y
  BY <1>1, <1>3, <1>4
<1>6. \A y \in T : y <= x
  BY <1>5
<1> QED
  BY <1>6

(* Paths of branches, from the root of a tab. *)
Path == Seq(Branch)

(* One branch further down. *)
LEMMA AppendIs ==
  ASSUME NEW p \in Path, NEW b \in Branch
  PROVE  /\ Append(p, b) \in Path
         /\ Append(p, b) # <<>>
         /\ Len(p) \in Nat
         /\ Len(Append(p, b)) = Len(p) + 1
         /\ \A i \in 1 .. Len(p) : Append(p, b)[i] = p[i]
         /\ Append(p, b)[Len(p) + 1] = b
BY AppendProperties, LenProperties DEF Path

(* Paths are equal when they take the same branches. *)
LEMMA PathEqual ==
  ASSUME NEW p \in Path, NEW q \in Path, Len(p) = Len(q), \A i \in 1 .. Len(p) : p[i] = q[i]
  PROVE  p = q
BY SeqEqual DEF Path

(* A path is a function on 1 .. its length. *)
LEMMA PathIs ==
  ASSUME NEW p \in Path
  PROVE  Len(p) \in Nat /\ DOMAIN p = 1 .. Len(p) /\ \A i \in 1 .. Len(p) : p[i] \in Branch
BY LenProperties, ElementOfSeq DEF Path

(* The first k branches of a path. *)
LEMMA UptoIs ==
  ASSUME NEW p \in Path, NEW k \in 0 .. Len(p)
  PROVE  /\ SubSeq(p, 1, k) \in Path
         /\ Len(SubSeq(p, 1, k)) = k
         /\ \A i \in 1 .. k : SubSeq(p, 1, k)[i] = p[i]
<1>1. Len(p) \in Nat /\ \A i \in 1 .. k : p[i] \in Branch
  BY PathIs
<1>2. k \in Int /\ 1 \in Int
  BY <1>1
<1>3. SubSeq(p, 1, k) \in Seq(Branch)
  BY <1>1, <1>2, SubSeqProperties
<1>4. Len(SubSeq(p, 1, k)) = IF 1 <= k THEN k - 1 + 1 ELSE 0
  BY <1>1, <1>2, SubSeqProperties
<1>5. \A i \in 1 .. k - 1 + 1 : SubSeq(p, 1, k)[i] = p[1 + i - 1]
  BY <1>1, <1>2, SubSeqProperties
<1> QED
  BY <1>1, <1>3, <1>4, <1>5 DEF Path

(* A path other than the root's is its parent's and a branch. *)
LEMMA FrontIs ==
  ASSUME NEW p \in Path, p # <<>>
  PROVE  /\ Front(p) \in Path
         /\ Len(p) \in Nat \ {0}
         /\ Len(Front(p)) = Len(p) - 1
         /\ \A i \in 1 .. Len(p) - 1 : Front(p)[i] = p[i]
         /\ Last(p) \in Branch
         /\ p = Append(Front(p), Last(p))
<1>1. Len(p) \in Nat \ {0}
  BY EmptySeq DEF Path
<1>2. Len(p) - 1 \in 0 .. Len(p)
  BY <1>1
<1>3. Front(p) = SubSeq(p, 1, Len(p) - 1)
  BY DEF Front
<1>4. Front(p) \in Path /\ Len(Front(p)) = Len(p) - 1
  BY <1>2, <1>3, UptoIs
<1>5. \A i \in 1 .. Len(p) - 1 : Front(p)[i] = p[i]
  BY <1>2, <1>3, UptoIs
<1>6. Last(p) \in Branch /\ Last(p) = p[Len(p)]
  BY <1>1, PathIs DEF Last
<1>7. PICK q : q = Append(Front(p), Last(p))
  OBVIOUS
<1>8. q \in Path /\ Len(q) = Len(p) /\ q[Len(p)] = Last(p)
  BY <1>1, <1>4, <1>6, <1>7, AppendIs
<1>9. \A i \in 1 .. Len(p) - 1 : q[i] = Front(p)[i]
  BY <1>4, <1>6, <1>7, AppendIs
<1>10. \A i \in 1 .. Len(p) : q[i] = p[i]
  BY <1>1, <1>5, <1>6, <1>8, <1>9
<1>11. q = p
  BY <1>8, <1>10, PathEqual
<1> QED
  BY <1>1, <1>4, <1>5, <1>6, <1>7, <1>11

(* Taking off the branch just put on. *)
LEMMA FrontAppend ==
  ASSUME NEW p \in Path, NEW b \in Branch
  PROVE  Front(Append(p, b)) = p /\ Last(Append(p, b)) = b
<1>1. PICK q : q = Append(p, b)
  OBVIOUS
<1>2. q \in Path /\ q # <<>> /\ Len(q) = Len(p) + 1 /\ Len(p) \in Nat
  BY <1>1, AppendIs
<1>3. q[Len(q)] = b
  BY <1>1, <1>2, AppendIs
<1>4. Front(q) \in Path /\ Len(Front(q)) = Len(p)
  BY <1>2, FrontIs
<1>5. \A i \in 1 .. Len(p) : Front(q)[i] = q[i]
  <2>1. \A i \in 1 .. Len(q) - 1 : Front(q)[i] = q[i]
    BY <1>2, FrontIs
  <2>2. Len(q) - 1 = Len(p)
    BY <1>2
  <2> QED
    BY <2>1, <2>2
<1>6. \A i \in 1 .. Len(p) : q[i] = p[i]
  BY <1>1, AppendIs
<1>7. Front(q) = p
  BY <1>4, <1>5, <1>6, PathEqual
<1> QED
  BY <1>1, <1>3, <1>7 DEF Last

(* A prefix, branch by branch. *)
LEMMA PrefixIs ==
  ASSUME NEW p \in Path, NEW q \in Path
  PROVE  IsPrefix(q, p) <=> Len(q) <= Len(p) /\ \A i \in 1 .. Len(q) : q[i] = p[i]
<1>0. Len(p) \in Nat /\ Len(q) \in Nat
  BY PathIs
<1>1. CASE Len(q) <= Len(p)
  <2>1. Len(q) \in 0 .. Len(p) /\ Len(q) \in 0 .. Len(q)
    BY <1>0, <1>1
  <2>2. PICK u : u = SubSeq(p, 1, Len(q))
    OBVIOUS
  <2>3. u \in Path /\ Len(u) = Len(q)
    BY <2>1, <2>2, UptoIs
  <2>4. \A i \in 1 .. Len(q) : u[i] = p[i]
    BY <2>1, <2>2, UptoIs
  <2>5. PICK v : v = SubSeq(q, 1, Len(q))
    OBVIOUS
  <2>6. v \in Path /\ Len(v) = Len(q)
    BY <2>1, <2>5, UptoIs
  <2>7. \A i \in 1 .. Len(q) : v[i] = q[i]
    BY <2>1, <2>5, UptoIs
  <2>8. u = v <=> \A i \in 1 .. Len(q) : q[i] = p[i]
    BY <2>3, <2>4, <2>6, <2>7, PathEqual
  <2> QED
    BY <1>1, <2>2, <2>5, <2>8 DEF IsPrefix
<1>2. CASE ~(Len(q) <= Len(p))
  BY <1>2 DEF IsPrefix
<1> QED
  BY <1>1, <1>2

(* A prefix is the path as far as it goes. *)
LEMMA PrefixUpto ==
  ASSUME NEW p \in Path, NEW q \in Path, IsPrefix(q, p)
  PROVE  Len(q) \in 0 .. Len(p) /\ q = SubSeq(p, 1, Len(q))
<1>1. Len(q) \in 0 .. Len(p) /\ \A i \in 1 .. Len(q) : q[i] = p[i]
  BY PathIs, PrefixIs
<1>2. SubSeq(p, 1, Len(q)) \in Path /\ Len(SubSeq(p, 1, Len(q))) = Len(q)
  BY <1>1, UptoIs
<1>3. \A i \in 1 .. Len(q) : SubSeq(p, 1, Len(q))[i] = p[i]
  BY <1>1, UptoIs
<1> QED
  BY <1>1, <1>2, <1>3, PathEqual

-----------------------------------------------------------------------------
(***************************************************************************)
(* Paths in a tree.                                                        *)
(***************************************************************************)

(* The path to a node's parent, of a node on a path. *)
LEMMA FrontUpto ==
  ASSUME NEW p \in Path, NEW k \in 1 .. Len(p)
  PROVE  SubSeq(p, 1, k) # <<>> /\ Front(SubSeq(p, 1, k)) = SubSeq(p, 1, k - 1)
<1>0. Len(p) \in Nat
  BY PathIs
<1>1. PICK q : q = SubSeq(p, 1, k)
  OBVIOUS
<1>2. k \in 0 .. Len(p) /\ k - 1 \in 0 .. Len(p)
  BY <1>0
<1>3. q \in Path /\ Len(q) = k
  BY <1>1, <1>2, UptoIs
<1>4. \A i \in 1 .. k : q[i] = p[i]
  BY <1>1, <1>2, UptoIs
<1>5. q # <<>>
  BY <1>3, EmptySeq
<1>6. Front(q) \in Path /\ Len(Front(q)) = k - 1
  BY <1>3, <1>5, FrontIs
<1>7. \A i \in 1 .. k - 1 : Front(q)[i] = q[i]
  <2>1. \A i \in 1 .. Len(q) - 1 : Front(q)[i] = q[i]
    BY <1>3, <1>5, FrontIs
  <2> QED
    BY <1>3, <2>1
<1>8. PICK r : r = SubSeq(p, 1, k - 1)
  OBVIOUS
<1>9. r \in Path /\ Len(r) = k - 1
  BY <1>2, <1>8, UptoIs
<1>10. \A i \in 1 .. k - 1 : r[i] = p[i]
  BY <1>2, <1>8, UptoIs
<1>11. \A i \in 1 .. k - 1 : Front(q)[i] = r[i]
  BY <1>0, <1>4, <1>7, <1>10
<1>12. Front(q) = r
  BY <1>6, <1>9, <1>11, PathEqual
<1> QED
  BY <1>1, <1>5, <1>8, <1>12

(* A path cut at its own length. *)
LEMMA UptoAll ==
  ASSUME NEW p \in Path
  PROVE  SubSeq(p, 1, Len(p)) = p
<1>1. Len(p) \in 0 .. Len(p)
  BY PathIs
<1>2. SubSeq(p, 1, Len(p)) \in Path /\ Len(SubSeq(p, 1, Len(p))) = Len(p)
  BY <1>1, UptoIs
<1>3. \A i \in 1 .. Len(p) : SubSeq(p, 1, Len(p))[i] = p[i]
  BY <1>1, UptoIs
<1> QED
  BY <1>2, <1>3, PathEqual

(* The leaves and the splits. *)
Nodes(tab) == LeafPaths(tab) \cup DOMAIN tab.dir

(* What IsTree says, over the nodes. *)
LEMMA TreeIs ==
  ASSUME NEW tab, IsTree(tab)
  PROVE  /\ Nodes(tab) \subseteq Path
         /\ \A p \in DOMAIN tab.dir, b \in Branch : Append(p, b) \in Nodes(tab)
         /\ \A p \in Nodes(tab) : p # <<>> => Front(p) \in DOMAIN tab.dir
         /\ LeafPaths(tab) \cap DOMAIN tab.dir = {}
BY DEF IsTree, Nodes, Path

(* Everything strictly above a node is a split. *)
LEMMA AboveIsSplit ==
  ASSUME NEW tab, IsTree(tab), NEW p \in Nodes(tab), NEW k \in 0 .. Len(p) - 1
  PROVE  SubSeq(p, 1, k) \in DOMAIN tab.dir
<1>0. p \in Path /\ Len(p) \in Nat
  BY TreeIs, PathIs
<1>1. PICK T : T = {d \in 1 .. Len(p) : SubSeq(p, 1, Len(p) - d) \notin DOMAIN tab.dir}
  OBVIOUS
<1>2. SUFFICES ASSUME T # {} PROVE FALSE
  <2>1. Len(p) - k \in 1 .. Len(p) /\ Len(p) - (Len(p) - k) = k
    BY <1>0
  <2>2. Len(p) - k \notin T
    BY <1>2
  <2>3. SubSeq(p, 1, Len(p) - (Len(p) - k)) \in DOMAIN tab.dir
    BY <1>1, <2>1, <2>2
  <2> QED
    BY <2>1, <2>3
<1>3. T \subseteq Nat
  BY <1>0, <1>1
<1>4. PICK d \in T : \A e \in T : d <= e
  BY <1>2, <1>3, Least
<1>5. d \in 1 .. Len(p) /\ SubSeq(p, 1, Len(p) - d) \notin DOMAIN tab.dir
  BY <1>1, <1>4
<1>6. PICK q : q = SubSeq(p, 1, Len(p) - d + 1)
  OBVIOUS
<1>7. q \in Nodes(tab)
  <2>1. CASE d = 1
    <3>1. Len(p) - d + 1 = Len(p)
      BY <1>0, <2>1
    <3> QED
      BY <1>0, <1>6, <3>1, UptoAll
  <2>2. CASE d # 1
    <3>1. d - 1 \in 1 .. Len(p) /\ Len(p) - (d - 1) = Len(p) - d + 1
      BY <1>0, <1>5, <2>2
    <3>2. d - 1 \notin T
      BY <1>0, <1>4, <1>5
    <3>3. SubSeq(p, 1, Len(p) - (d - 1)) \in DOMAIN tab.dir
      BY <1>1, <3>1, <3>2
    <3> QED
      BY <1>6, <3>1, <3>3 DEF Nodes
  <2> QED
    BY <2>1, <2>2
<1>8. Len(p) - d + 1 \in 1 .. Len(p) /\ Len(p) - d + 1 - 1 = Len(p) - d
  BY <1>0, <1>5
<1>9. q # <<>> /\ Front(q) = SubSeq(p, 1, Len(p) - d)
  <2>1. PICK j : j = Len(p) - d + 1
    OBVIOUS
  <2>2. j \in 1 .. Len(p) /\ j - 1 = Len(p) - d
    BY <1>0, <1>5, <1>8, <2>1
  <2>3. SubSeq(p, 1, j) # <<>> /\ Front(SubSeq(p, 1, j)) = SubSeq(p, 1, j - 1)
    BY <1>0, <2>2, FrontUpto
  <2> QED
    BY <1>6, <2>1, <2>2, <2>3
<1> QED
  BY <1>5, <1>7, <1>9, TreeIs

(* No leaf is above another node. *)
LEMMA LeafIsLast ==
  ASSUME NEW tab, IsTree(tab), NEW p \in Nodes(tab), NEW q \in LeafPaths(tab), IsPrefix(q, p)
  PROVE  q = p
<1>1. p \in Path /\ q \in Path /\ Len(p) \in Nat /\ q \notin DOMAIN tab.dir
  BY TreeIs, PathIs DEF Nodes
<1>2. Len(q) \in 0 .. Len(p) /\ q = SubSeq(p, 1, Len(q))
  BY <1>1, PrefixUpto
<1>3. CASE Len(q) = Len(p)
  BY <1>1, <1>2, <1>3, UptoAll
<1>4. CASE Len(q) # Len(p)
  <2>1. Len(q) \in 0 .. Len(p) - 1
    BY <1>1, <1>2, <1>4
  <2> QED
    BY <1>1, <1>2, <2>1, AboveIsSplit
<1> QED
  BY <1>3, <1>4

(* No path of the tree is longer than some bound. *)
Bounded(tab) == \E n \in Nat : \A p \in Nodes(tab) : Len(p) <= n

(* Below p, path q takes only branch b. *)
Only(p, q, b) == IsPrefix(p, q) /\ \A i \in Len(p) + 1 .. Len(q) : q[i] = b

(* One more branch b of a path that takes only b. *)
LEMMA OnlyAppend ==
  ASSUME NEW p \in Path, NEW q \in Path, NEW b \in Branch, Only(p, q, b)
  PROVE  Only(p, Append(q, b), b)
<1>1. PICK r : r = Append(q, b)
  OBVIOUS
<1>2. r \in Path /\ Len(r) = Len(q) + 1 /\ r[Len(q) + 1] = b
  BY <1>1, AppendIs
<1>3. \A i \in 1 .. Len(q) : r[i] = q[i]
  BY <1>1, AppendIs
<1>4. Len(p) \in Nat /\ Len(q) \in Nat
  BY PathIs
<1>5. Len(p) <= Len(q) /\ \A i \in 1 .. Len(p) : p[i] = q[i]
  BY PrefixIs DEF Only
<1>6. IsPrefix(p, r)
  BY <1>2, <1>3, <1>4, <1>5, PrefixIs
<1>7. \A i \in Len(p) + 1 .. Len(r) : r[i] = b
  BY <1>2, <1>3, <1>4 DEF Only
<1> QED
  BY <1>1, <1>6, <1>7 DEF Only

(* Taking one branch from any node ends on a leaf. *)
LEMMA DescendIs ==
  ASSUME NEW tab, IsTree(tab), Bounded(tab), NEW p \in Nodes(tab), NEW b \in Branch
  PROVE  Descend(tab, p, b) \in LeafPaths(tab) /\ Only(p, Descend(tab, p, b), b)
<1>1. PICK n \in Nat : \A q \in Nodes(tab) : Len(q) <= n
  BY DEF Bounded
<1>2. Nodes(tab) \subseteq Path
  BY TreeIs
<1>3. PICK D : D = {q \in Nodes(tab) : Only(p, q, b)}
  OBVIOUS
<1>4. PICK T : T = {Len(q) : q \in D}
  OBVIOUS
<1>5. T \subseteq Nat /\ \A x \in T : x <= n
  BY <1>1, <1>2, <1>3, <1>4, PathIs
<1>6. p \in D
  <2>1. IsPrefix(p, p)
    BY <1>2, PathIs, PrefixIs
  <2>2. \A i \in Len(p) + 1 .. Len(p) : FALSE
    BY <1>2, PathIs
  <2> QED
    BY <1>3, <2>1, <2>2 DEF Only
<1>7. T # {}
  BY <1>4, <1>6
<1>8. PICK x \in T : \A y \in T : y <= x
  BY <1>5, <1>7, Greatest
<1>9. PICK q \in D : x = Len(q)
  BY <1>4, <1>8
<1>10. q \in Nodes(tab) /\ q \in Path /\ Only(p, q, b)
  BY <1>2, <1>3, <1>9
<1>11. q \notin DOMAIN tab.dir
  <2> SUFFICES ASSUME q \in DOMAIN tab.dir PROVE FALSE
    OBVIOUS
  <2>1. PICK r : r = Append(q, b)
    OBVIOUS
  <2>2. r \in Nodes(tab) /\ Len(r) = Len(q) + 1 /\ Len(q) \in Nat
    BY <1>10, <2>1, TreeIs, AppendIs
  <2>3. Only(p, r, b)
    BY <1>2, <1>10, <2>1, OnlyAppend
  <2>4. Len(r) \in T
    BY <1>3, <1>4, <2>2, <2>3
  <2> QED
    BY <1>8, <1>9, <2>2, <2>4
<1>12. q \in LeafPaths(tab)
  BY <1>10, <1>11 DEF Nodes
<1> QED
  BY <1>10, <1>12 DEF Descend, Only

-----------------------------------------------------------------------------
(***************************************************************************)
(* Splitting the focused leaf.                                             *)
(***************************************************************************)

(* The two branches. *)
LEMMA BranchIs == "A" \in Branch /\ "B" \in Branch /\ \A b \in Branch : b = "A" \/ b = "B"
BY DEF Branch

(* A layout of one session is the tree of one leaf. *)
LEMMA NewLayoutTree ==
  ASSUME NEW s
  PROVE  /\ IsTree(NewLayout(s))
         /\ FocusOnLeaf(NewLayout(s))
         /\ Bounded(NewLayout(s))
<1>1. PICK l : l = NewLayout(s)
  OBVIOUS
<1>2. Hosted(l) = {s} /\ l.at[s] = <<>> /\ l.dir = <<>> /\ l.focus = <<>>
  BY <1>1 DEF NewLayout, Hosted
<1>3. DOMAIN l.dir = {} /\ l.dir \in [{} -> SplitDir]
  BY <1>2
<1>4. LeafPaths(l) = {<<>>}
  BY <1>2 DEF LeafPaths
<1>5. <<>> \in Seq(Branch) /\ Len(<<>>) = 0
  BY EmptySeq
<1>6. IsTree(l)
  BY <1>2, <1>3, <1>4, <1>5 DEF IsTree
<1>7. Bounded(l)
  BY <1>3, <1>4, <1>5 DEF Bounded, Nodes
<1> QED
  BY <1>1, <1>2, <1>4, <1>6, <1>7 DEF FocusOnLeaf

(* The paths of the leaves after a split. *)
LEMMA SplitPathIs ==
  ASSUME NEW l, NEW s, s \notin Hosted(l), NEW t \in Hosted(l)
  PROVE  /\ SplitPath(l, s, s) = Append(l.focus, "B")
         /\ l.at[t] = l.focus => SplitPath(l, s, t) = Append(l.focus, "A")
         /\ l.at[t] # l.focus => SplitPath(l, s, t) = l.at[t]
<1>1. SplitPath(l, s, s) = Append(l.focus, "B")
  BY DEF SplitPath
<1>2. s # t
  OBVIOUS
<1>3. ASSUME l.at[t] = l.focus PROVE SplitPath(l, s, t) = Append(l.focus, "A")
  BY <1>2, <1>3 DEF SplitPath
<1>4. ASSUME l.at[t] # l.focus PROVE SplitPath(l, s, t) = l.at[t]
  BY <1>2, <1>4 DEF SplitPath
<1> QED
  BY <1>1, <1>3, <1>4

(* A split of the focused leaf is a tree with the focus on the new leaf. *)
LEMMA SplitFocusTree ==
  ASSUME NEW l, IsTree(l), FocusOnLeaf(l), Bounded(l),
         NEW d \in SplitDir, NEW s, s \notin Hosted(l)
  PROVE  /\ IsTree(SplitFocus(l, d, s))
         /\ FocusOnLeaf(SplitFocus(l, d, s))
         /\ Bounded(SplitFocus(l, d, s))
<1>1. PICK m : m = SplitFocus(l, d, s)
  OBVIOUS
<1>2. PICK f : f = l.focus
  OBVIOUS
<1>3. f \in LeafPaths(l) /\ f \in Nodes(l) /\ f \in Path /\ f \notin DOMAIN l.dir
  BY <1>2, TreeIs DEF FocusOnLeaf, Nodes
<1>4. PICK a : a = Append(f, "A")
  OBVIOUS
<1>5. PICK b : b = Append(f, "B")
  OBVIOUS
<1>6. a \in Path /\ a # <<>> /\ Front(a) = f /\ Len(a) = Len(f) + 1 /\ Len(f) \in Nat
  BY <1>3, <1>4, BranchIs, AppendIs, FrontAppend
<1>7. b \in Path /\ b # <<>> /\ Front(b) = f /\ Len(b) = Len(f) + 1
  BY <1>3, <1>5, BranchIs, AppendIs, FrontAppend
<1>8. a # b
  <2>1. Last(a) = "A" /\ Last(b) = "B"
    BY <1>3, <1>4, <1>5, BranchIs, FrontAppend
  <2>2. "A" # "B"
    OBVIOUS
  <2> QED
    BY <2>1, <2>2
<1>9. a \notin Nodes(l) /\ b \notin Nodes(l)
  BY <1>3, <1>6, <1>7, TreeIs
<1>10. a # f /\ b # f
  BY <1>6, <1>7
<1>11. Hosted(m) = Hosted(l) \cup {s} /\ DOMAIN m.dir = DOMAIN l.dir \cup {f} /\ m.focus = b
  BY <1>1, <1>2, <1>5 DEF SplitFocus, Hosted
<1>12. m.at[s] = b
  BY <1>1, <1>2, <1>5, <1>11 DEF SplitFocus, SplitPath, Hosted
<1>13. \A t \in Hosted(l) : m.at[t] = IF l.at[t] = f THEN a ELSE l.at[t]
  <2> SUFFICES ASSUME NEW t \in Hosted(l) PROVE m.at[t] = IF l.at[t] = f THEN a ELSE l.at[t]
    OBVIOUS
  <2>1. m.at[t] = SplitPath(l, s, t)
    BY <1>1 DEF SplitFocus, Hosted
  <2> QED
    BY <1>2, <1>4, <2>1, SplitPathIs
<1>14. PICK u \in Hosted(l) : l.at[u] = f
  BY <1>3 DEF LeafPaths
<1>15. LeafPaths(m) = (LeafPaths(l) \ {f}) \cup {a, b}
  <2>1. LeafPaths(m) = {m.at[t] : t \in Hosted(l)} \cup {b}
    BY <1>11, <1>12 DEF LeafPaths
  <2>2. {m.at[t] : t \in Hosted(l)} = (LeafPaths(l) \ {f}) \cup {a}
    BY <1>13, <1>14 DEF LeafPaths
  <2> QED
    BY <2>1, <2>2
<1>16. Nodes(m) = Nodes(l) \cup {a, b}
  BY <1>3, <1>11, <1>15 DEF Nodes
<1>17. m.dir \in [DOMAIN m.dir -> SplitDir]
  <2>1. m.dir = [p \in DOMAIN l.dir \cup {f} |-> IF p = f THEN d ELSE l.dir[p]]
    BY <1>1, <1>2 DEF SplitFocus
  <2>2. l.dir \in [DOMAIN l.dir -> SplitDir]
    BY DEF IsTree
  <2>3. \A p \in DOMAIN l.dir : l.dir[p] \in SplitDir
    BY <2>2
  <2> QED
    BY <1>11, <2>1, <2>3
<1>18. Nodes(m) \subseteq Seq(Branch)
  BY <1>6, <1>7, <1>16, TreeIs DEF Path
<1>19. \A p \in DOMAIN m.dir, c \in Branch : Append(p, c) \in Nodes(m)
  <2> SUFFICES ASSUME NEW p \in DOMAIN m.dir, NEW c \in Branch PROVE Append(p, c) \in Nodes(m)
    OBVIOUS
  <2>1. CASE p = f
    BY <1>4, <1>5, <1>16, <2>1, BranchIs
  <2>2. CASE p # f
    BY <1>11, <1>16, <2>2, TreeIs
  <2> QED
    BY <2>1, <2>2
<1>20. \A p \in Nodes(m) \ {<<>>} : Front(p) \in DOMAIN m.dir
  BY <1>6, <1>7, <1>11, <1>16, TreeIs
<1>21. LeafPaths(m) \cap DOMAIN m.dir = {}
  <2>1. a \notin DOMAIN l.dir /\ b \notin DOMAIN l.dir
    BY <1>9 DEF Nodes
  <2>2. LeafPaths(l) \cap DOMAIN l.dir = {}
    BY TreeIs
  <2> QED
    BY <1>10, <1>11, <1>15, <2>1, <2>2
<1>22. \A t, v \in Hosted(m) : m.at[t] = m.at[v] => t = v
  <2>1. \A t \in Hosted(l) : l.at[t] # a /\ l.at[t] # b
    BY <1>9 DEF Nodes, LeafPaths
  <2>2. \A t, v \in Hosted(l) : l.at[t] = l.at[v] => t = v
    BY DEF IsTree
  <2>3. \A t \in Hosted(l) : m.at[t] # b
    BY <1>8, <1>13, <2>1
  <2>4. \A t, v \in Hosted(l) : m.at[t] = m.at[v] => t = v
    BY <1>13, <2>1, <2>2
  <2> QED
    BY <1>11, <1>12, <2>3, <2>4
<1>23. IsTree(m)
  BY <1>17, <1>18, <1>19, <1>20, <1>21, <1>22 DEF IsTree, Nodes
<1>24. FocusOnLeaf(m)
  BY <1>11, <1>15 DEF FocusOnLeaf
<1>25. Bounded(m)
  <2>1. PICK n \in Nat : \A p \in Nodes(l) : Len(p) <= n
    BY DEF Bounded
  <2>2. Len(f) <= n
    BY <1>3, <2>1
  <2>3. \A p \in Nodes(l) : Len(p) \in Nat
    BY TreeIs, PathIs
  <2>4. \A p \in Nodes(m) : Len(p) <= n + 1
    BY <1>6, <1>7, <1>16, <2>1, <2>2, <2>3
  <2>5. n + 1 \in Nat
    OBVIOUS
  <2> QED
    BY <2>4, <2>5 DEF Bounded
<1> QED
  BY <1>1, <1>23, <1>24, <1>25

-----------------------------------------------------------------------------
(***************************************************************************)
(* Where a collapse takes a path, and where it came from.                  *)
(***************************************************************************)

(* Where a path goes when the subtree at `above`'s sibling branch takes the
   place of `above`, and where it came from. *)
Lift(p, above, sibling) ==
  IF IsPrefix(sibling, p) THEN above \o Below(p, sibling) ELSE p
Sink(q, above, sibling) ==
  IF IsPrefix(above, q) THEN sibling \o Below(q, above) ELSE q

(* What a path is below a prefix. *)
LEMMA BelowIs ==
  ASSUME NEW p \in Path, NEW q \in Path, Len(q) <= Len(p)
  PROVE  /\ Below(p, q) \in Path
         /\ Len(Below(p, q)) = Len(p) - Len(q)
         /\ \A i \in 1 .. Len(p) - Len(q) : Below(p, q)[i] = p[Len(q) + i]
<1>1. Len(p) \in Nat /\ Len(q) \in Nat /\ \A i \in Len(q) + 1 .. Len(p) : p[i] \in Branch
  BY PathIs
<1>2. PICK m : m = Len(q) + 1
  OBVIOUS
<1>3. PICK n : n = Len(p)
  OBVIOUS
<1>4. m \in Int /\ n \in Int /\ \A i \in m .. n : p[i] \in Branch
  BY <1>1, <1>2, <1>3
<1>5. SubSeq(p, m, n) \in Seq(Branch)
  BY <1>4, SubSeqProperties
<1>6. Len(SubSeq(p, m, n)) = IF m <= n THEN n - m + 1 ELSE 0
  BY <1>4, SubSeqProperties
<1>7. \A i \in 1 .. n - m + 1 : SubSeq(p, m, n)[i] = p[m + i - 1]
  BY <1>4, SubSeqProperties
<1>8. Below(p, q) = SubSeq(p, m, n)
  BY <1>2, <1>3 DEF Below
<1>9. n - m + 1 = Len(p) - Len(q)
  BY <1>1, <1>2, <1>3
<1>10. Len(Below(p, q)) = Len(p) - Len(q)
  BY <1>1, <1>2, <1>3, <1>6, <1>8
<1>11. \A i \in 1 .. Len(p) - Len(q) : m + i - 1 = Len(q) + i
  BY <1>1, <1>2
<1> QED
  BY <1>5, <1>7, <1>8, <1>9, <1>10, <1>11 DEF Path

(* A path moved from under one node to under another. *)
LEMMA MovedIs ==
  ASSUME NEW p \in Path, NEW q \in Path, NEW r \in Path, Len(q) <= Len(p)
  PROVE  /\ r \o Below(p, q) \in Path
         /\ Len(r \o Below(p, q)) = Len(r) + (Len(p) - Len(q))
         /\ \A i \in 1 .. Len(r) : (r \o Below(p, q))[i] = r[i]
         /\ \A i \in 1 .. Len(p) - Len(q) : (r \o Below(p, q))[Len(r) + i] = p[Len(q) + i]
<1>1. PICK t : t = Below(p, q)
  OBVIOUS
<1>2. t \in Path /\ Len(t) = Len(p) - Len(q)
  BY <1>1, BelowIs
<1>3. \A i \in 1 .. Len(p) - Len(q) : t[i] = p[Len(q) + i]
  BY <1>1, BelowIs
<1>4. Len(p) \in Nat /\ Len(q) \in Nat /\ Len(r) \in Nat
  BY PathIs
<1>5. PICK u : u = r \o t
  OBVIOUS
<1>6. u \in Seq(Branch) /\ Len(u) = Len(r) + Len(t)
  BY <1>2, <1>5, ConcatProperties DEF Path
<1>7. \A i \in 1 .. Len(r) + Len(t) : u[i] = IF i <= Len(r) THEN r[i] ELSE t[i - Len(r)]
  BY <1>2, <1>5, ConcatProperties DEF Path
<1>8. \A i \in 1 .. Len(r) : u[i] = r[i]
  BY <1>2, <1>4, <1>7
<1>9. \A i \in 1 .. Len(p) - Len(q) : u[Len(r) + i] = p[Len(q) + i]
  <2> SUFFICES ASSUME NEW i \in 1 .. Len(p) - Len(q) PROVE u[Len(r) + i] = p[Len(q) + i]
    OBVIOUS
  <2>1. PICK j : j = Len(r) + i
    OBVIOUS
  <2>2. j \in 1 .. Len(r) + Len(t) /\ ~(j <= Len(r)) /\ j - Len(r) = i
    BY <1>2, <1>4, <2>1
  <2>3. u[j] = t[i]
    BY <1>7, <2>2
  <2> QED
    BY <1>3, <2>1, <2>3
<1>10. u \in Path
  BY <1>6 DEF Path
<1> QED
  BY <1>1, <1>2, <1>5, <1>6, <1>8, <1>9, <1>10

(* A path under the sibling loses the branch that led there. *)
LEMMA LiftIs ==
  ASSUME NEW P \in Path, NEW c \in Branch, NEW p \in Path, IsPrefix(Append(P, c), p)
  PROVE  /\ Lift(p, P, Append(P, c)) \in Path
         /\ Len(p) \in Nat \ {0} /\ Len(P) \in 0 .. Len(p) - 1
         /\ Len(Lift(p, P, Append(P, c))) = Len(p) - 1
         /\ \A i \in 1 .. Len(P) : Lift(p, P, Append(P, c))[i] = P[i]
         /\ \A i \in Len(P) + 1 .. Len(p) - 1 : Lift(p, P, Append(P, c))[i] = p[i + 1]
<1>1. PICK S : S = Append(P, c)
  OBVIOUS
<1>2. S \in Path /\ Len(S) = Len(P) + 1 /\ Len(P) \in Nat
  BY <1>1, AppendIs
<1>3. Len(S) <= Len(p) /\ Len(p) \in Nat
  BY <1>1, <1>2, PrefixIs, PathIs
<1>4. PICK u : u = P \o Below(p, S)
  OBVIOUS
<1>5. u = Lift(p, P, S)
  BY <1>1, <1>4 DEF Lift
<1>6. u \in Path /\ Len(u) = Len(P) + (Len(p) - Len(S))
  BY <1>2, <1>3, <1>4, MovedIs
<1>7. \A i \in 1 .. Len(P) : u[i] = P[i]
  BY <1>2, <1>3, <1>4, MovedIs
<1>8. \A i \in 1 .. Len(p) - Len(S) : u[Len(P) + i] = p[Len(S) + i]
  BY <1>2, <1>3, <1>4, MovedIs
<1>9. \A i \in Len(P) + 1 .. Len(p) - 1 : u[i] = p[i + 1]
  <2> SUFFICES ASSUME NEW i \in Len(P) + 1 .. Len(p) - 1 PROVE u[i] = p[i + 1]
    OBVIOUS
  <2>1. PICK j : j = i - Len(P)
    OBVIOUS
  <2>2. j \in 1 .. Len(p) - Len(S) /\ Len(P) + j = i /\ Len(S) + j = i + 1
    BY <1>2, <1>3, <2>1
  <2> QED
    BY <1>8, <2>2
<1>10. Len(p) \in Nat \ {0} /\ Len(P) \in 0 .. Len(p) - 1
  BY <1>2, <1>3
<1>11. Len(u) = Len(p) - 1
  BY <1>2, <1>3, <1>6
<1> QED
  BY <1>1, <1>5, <1>6, <1>7, <1>9, <1>10, <1>11

(* Nothing is lost: a path that was lifted sinks back. *)
LEMMA SinkLift ==
  ASSUME NEW P \in Path, NEW c \in Branch, NEW p \in Path,
         IsPrefix(Append(P, c), p) \/ ~IsPrefix(P, p)
  PROVE  /\ Sink(Lift(p, P, Append(P, c)), P, Append(P, c)) = p
         /\ IsPrefix(P, Lift(p, P, Append(P, c))) <=> IsPrefix(Append(P, c), p)
<1>1. PICK S : S = Append(P, c)
  OBVIOUS
<1>2. S \in Path /\ Len(S) = Len(P) + 1 /\ Len(P) \in Nat /\ Len(p) \in Nat
  BY <1>1, AppendIs, PathIs
<1>3. \A i \in 1 .. Len(P) : S[i] = P[i]
  BY <1>1, AppendIs
<1>4. CASE IsPrefix(S, p)
  <2>1. PICK u : u = Lift(p, P, S)
    OBVIOUS
  <2>0. u \in Path /\ Len(u) = Len(p) - 1 /\ Len(P) <= Len(p) - 1
    BY <1>1, <1>2, <1>4, <2>1, LiftIs
  <2>2. u \in Path /\ Len(u) = Len(p) - 1 /\ Len(P) <= Len(u)
    BY <2>0
  <2>3. \A i \in 1 .. Len(P) : u[i] = P[i]
    BY <1>1, <1>4, <2>1, LiftIs
  <2>4. \A i \in Len(P) + 1 .. Len(p) - 1 : u[i] = p[i + 1]
    BY <1>1, <1>4, <2>1, LiftIs
  <2>5. IsPrefix(P, u)
    BY <1>2, <2>2, <2>3, PrefixIs
  <2>6. PICK v : v = S \o Below(u, P)
    OBVIOUS
  <2>7. v \in Path /\ Len(v) = Len(S) + (Len(u) - Len(P))
    BY <1>2, <2>2, <2>6, MovedIs
  <2>8. \A i \in 1 .. Len(S) : v[i] = S[i]
    BY <1>2, <2>2, <2>6, MovedIs
  <2>9. \A i \in 1 .. Len(u) - Len(P) : v[Len(S) + i] = u[Len(P) + i]
    <3>1. \A i \in 1 .. Len(u) - Len(P) : (S \o Below(u, P))[Len(S) + i] = u[Len(P) + i]
      BY <1>2, <2>2, MovedIs
    <3> QED
      BY <2>6, <3>1
  <2>10. Len(v) = Len(p)
    BY <1>2, <2>2, <2>7
  <2>11. \A i \in 1 .. Len(S) : p[i] = S[i]
    BY <1>2, <1>4, PrefixIs
  <2>12. \A i \in Len(S) + 1 .. Len(p) : v[i] = p[i]
    <3> SUFFICES ASSUME NEW i \in Len(S) + 1 .. Len(p) PROVE v[i] = p[i]
      OBVIOUS
    <3>1. PICK j : j = i - Len(S)
      OBVIOUS
    <3>2. j \in 1 .. Len(u) - Len(P) /\ Len(S) + j = i
      BY <1>2, <2>2, <3>1
    <3>3. PICK k : k = Len(P) + j
      OBVIOUS
    <3>4. k \in Len(P) + 1 .. Len(p) - 1 /\ k + 1 = i
      BY <1>2, <2>2, <3>2, <3>3
    <3> QED
      BY <2>4, <2>9, <3>2, <3>3, <3>4
  <2>13. \A i \in 1 .. Len(p) : v[i] = p[i]
    BY <1>2, <2>8, <2>11, <2>12
  <2>14. v = p
    BY <2>7, <2>10, <2>13, PathEqual
  <2>15. Sink(u, P, S) = v
    BY <2>5, <2>6 DEF Sink
  <2> QED
    BY <1>1, <1>4, <2>1, <2>5, <2>14, <2>15
<1>5. CASE ~IsPrefix(S, p) /\ ~IsPrefix(P, p)
  <2>1. Lift(p, P, S) = p
    BY <1>5 DEF Lift
  <2>2. Sink(p, P, S) = p
    BY <1>5 DEF Sink
  <2> QED
    BY <1>1, <1>5, <2>1, <2>2
<1> QED
  BY <1>1, <1>4, <1>5

(* Lifting commutes with taking a branch. *)
LEMMA LiftAppend ==
  ASSUME NEW P \in Path, NEW c \in Branch, NEW p \in Path, NEW b \in Branch,
         Append(p, b) # Append(P, c)
  PROVE  /\ Lift(Append(p, b), P, Append(P, c)) = Append(Lift(p, P, Append(P, c)), b)
         /\ Lift(p, P, Append(P, c)) \in Path
<1>1. PICK S : S = Append(P, c)
  OBVIOUS
<1>2. S \in Path /\ Len(S) = Len(P) + 1 /\ Len(P) \in Nat /\ Len(p) \in Nat
  BY <1>1, AppendIs, PathIs
<1>3. PICK r : r = Append(p, b)
  OBVIOUS
<1>4. r \in Path /\ Len(r) = Len(p) + 1 /\ r[Len(p) + 1] = b
  BY <1>3, AppendIs
<1>5. \A i \in 1 .. Len(p) : r[i] = p[i]
  BY <1>3, AppendIs
<1>6. IsPrefix(S, r) <=> IsPrefix(S, p)
  <2>1. ASSUME IsPrefix(S, p) PROVE IsPrefix(S, r)
    <3>1. Len(S) <= Len(p) /\ \A i \in 1 .. Len(S) : S[i] = p[i]
      BY <1>2, <2>1, PrefixIs
    <3>2. Len(S) <= Len(r) /\ \A i \in 1 .. Len(S) : S[i] = r[i]
      BY <1>2, <1>4, <1>5, <3>1
    <3> QED
      BY <1>2, <1>4, <3>2, PrefixIs
  <2>2. ASSUME IsPrefix(S, r) PROVE IsPrefix(S, p)
    <3>1. Len(S) <= Len(r) /\ \A i \in 1 .. Len(S) : S[i] = r[i]
      BY <1>2, <1>4, <2>2, PrefixIs
    <3>2. Len(S) # Len(r)
      BY <1>1, <1>2, <1>3, <1>4, <3>1, PathEqual
    <3>3. Len(S) <= Len(p) /\ \A i \in 1 .. Len(S) : S[i] = p[i]
      BY <1>2, <1>4, <1>5, <3>1, <3>2
    <3> QED
      BY <1>2, <3>3, PrefixIs
  <2> QED
    BY <2>1, <2>2
<1>7. CASE IsPrefix(S, p)
  <2>1. PICK u : u = Lift(p, P, S)
    OBVIOUS
  <2>2. u \in Path /\ Len(u) = Len(p) - 1 /\ Len(P) \in 0 .. Len(p) - 1 /\ Len(p) \in Nat \ {0}
    BY <1>1, <1>2, <1>7, <2>1, LiftIs
  <2>3. \A i \in 1 .. Len(P) : u[i] = P[i]
    BY <1>1, <1>7, <2>1, LiftIs
  <2>4. \A i \in Len(P) + 1 .. Len(p) - 1 : u[i] = p[i + 1]
    BY <1>1, <1>7, <2>1, LiftIs
  <2>5. PICK v : v = Lift(r, P, S)
    OBVIOUS
  <2>6. v \in Path /\ Len(v) = Len(r) - 1
    BY <1>1, <1>4, <1>6, <1>7, <2>5, LiftIs
  <2>7. \A i \in 1 .. Len(P) : v[i] = P[i]
    BY <1>1, <1>4, <1>6, <1>7, <2>5, LiftIs
  <2>8. \A i \in Len(P) + 1 .. Len(r) - 1 : v[i] = r[i + 1]
    BY <1>1, <1>4, <1>6, <1>7, <2>5, LiftIs
  <2>9. PICK w : w = Append(u, b)
    OBVIOUS
  <2>10. w \in Path /\ Len(w) = Len(p) /\ w[Len(p)] = b
    <3>1. w \in Path /\ Len(w) = Len(u) + 1 /\ w[Len(u) + 1] = b
      BY <2>2, <2>9, AppendIs
    <3>2. Len(u) + 1 = Len(p)
      BY <2>2
    <3> QED
      BY <3>1, <3>2
  <2>11. \A i \in 1 .. Len(p) - 1 : w[i] = u[i]
    BY <2>2, <2>9, AppendIs
  <2>12. ASSUME NEW i \in 1 .. Len(p) PROVE v[i] = w[i]
    <3>1. CASE i <= Len(P)
      <4>1. i \in 1 .. Len(P) /\ i \in 1 .. Len(p) - 1
        BY <1>2, <2>2, <2>12, <3>1
      <4> QED
        BY <2>3, <2>7, <2>11, <4>1
    <3>2. CASE i > Len(P) /\ i < Len(p)
      <4>1. i \in Len(P) + 1 .. Len(p) - 1 /\ i \in Len(P) + 1 .. Len(r) - 1
            /\ i \in 1 .. Len(p) - 1 /\ i + 1 \in 1 .. Len(p)
        BY <1>2, <1>4, <2>2, <2>12, <3>2
      <4> QED
        BY <1>5, <2>4, <2>8, <2>11, <4>1
    <3>3. CASE i > Len(P) /\ i = Len(p)
      <4>1. i \in Len(P) + 1 .. Len(r) - 1 /\ i + 1 = Len(p) + 1
        BY <1>2, <1>4, <2>2, <2>12, <3>3
      <4> QED
        BY <1>4, <2>8, <2>10, <3>3, <4>1
    <3>4. i <= Len(P) \/ (i > Len(P) /\ i < Len(p)) \/ (i > Len(P) /\ i = Len(p))
      BY <1>2, <2>12
    <3> QED
      BY <3>1, <3>2, <3>3, <3>4
  <2>13. Len(v) = Len(p)
    BY <1>2, <1>4, <2>6
  <2>14. v = w
    BY <2>6, <2>10, <2>12, <2>13, PathEqual
  <2> QED
    BY <1>1, <1>3, <2>1, <2>2, <2>5, <2>9, <2>14
<1>8. CASE ~IsPrefix(S, p)
  BY <1>1, <1>3, <1>6, <1>8 DEF Lift
<1> QED
  BY <1>7, <1>8

-----------------------------------------------------------------------------
(***************************************************************************)
(* A collapse leaves a tree.                                               *)
(***************************************************************************)

(* Where `Collapse` puts the leaves and the splits. *)
CollapsedAt(l, s, above, sibling) ==
  [t \in Hosted(l) \ {s} |-> Lift(l.at[t], above, sibling)]
CollapsedDir(l, above, sibling) ==
  [q \in {Lift(p, above, sibling) : p \in DOMAIN l.dir \ {above}} |->
     l.dir[Sink(q, above, sibling)]]

(* A layout has its three fields. *)
Shaped(l) == l = [at |-> l.at, dir |-> l.dir, focus |-> l.focus]

(* The split above the leaf of a session, and the node beside that leaf. *)
Above(l, s) == Front(l.at[s])
Sibling(l, s) == Append(Front(l.at[s]), Opposite(Last(l.at[s])))

(* The collapse, field by field. *)
LEMMA CollapseIs ==
  ASSUME NEW l, Shaped(l), NEW s
  PROVE  Collapse(l, s) = [at |-> CollapsedAt(l, s, Above(l, s), Sibling(l, s)),
                           dir |-> CollapsedDir(l, Above(l, s), Sibling(l, s)),
                           focus |-> l.focus]
<1>1. PICK A : A = CollapsedAt(l, s, Front(l.at[s]), Append(Front(l.at[s]), Opposite(Last(l.at[s]))))
  OBVIOUS
<1>2. PICK D : D = CollapsedDir(l, Front(l.at[s]), Append(Front(l.at[s]), Opposite(Last(l.at[s]))))
  OBVIOUS
<1>3. Collapse(l, s) = [l EXCEPT !.at = A, !.dir = D]
  BY <1>1, <1>2, Zenon DEF Collapse, CollapsedAt, CollapsedDir, Lift, Sink
<1>4. PICK m : m = [l EXCEPT !.at = A, !.dir = D]
  OBVIOUS
<1>5. /\ A = CollapsedAt(l, s, Above(l, s), Sibling(l, s))
      /\ D = CollapsedDir(l, Above(l, s), Sibling(l, s))
  BY <1>1, <1>2 DEF Above, Sibling
<1>6. m.at = A /\ m.dir = D /\ m.focus = l.focus /\ Shaped(m)
  BY <1>4 DEF Shaped
<1>7. m = [at |-> A, dir |-> D, focus |-> l.focus]
  BY <1>6 DEF Shaped
<1> QED
  BY <1>3, <1>4, <1>5, <1>7

(* A leaf that is not alone has a parent, and its sibling is a node. *)
LEMMA ParentIs ==
  ASSUME NEW l, IsTree(l), NEW s \in Hosted(l), Hosted(l) # {s}
  PROVE  /\ l.at[s] \in Path /\ l.at[s] # <<>>
         /\ l.at[s] \in LeafPaths(l)
         /\ Front(l.at[s]) \in DOMAIN l.dir
         /\ Front(l.at[s]) \in Path
         /\ Last(l.at[s]) \in Branch
         /\ Opposite(Last(l.at[s])) \in Branch
         /\ Opposite(Last(l.at[s])) # Last(l.at[s])
         /\ l.at[s] = Append(Front(l.at[s]), Last(l.at[s]))
<1>1. PICK q : q = l.at[s]
  OBVIOUS
<1>2. q \in LeafPaths(l) /\ q \in Nodes(l) /\ q \in Path
  BY <1>1, TreeIs DEF LeafPaths, Nodes
<1>3. q # <<>>
  <2>1. PICK t \in Hosted(l) : t # s
    OBVIOUS
  <2>2. l.at[t] # q
    BY <1>1, <2>1 DEF IsTree
  <2>3. l.at[t] \in Nodes(l) /\ l.at[t] \in Path
    BY TreeIs DEF LeafPaths, Nodes
  <2>4. q = <<>> => IsPrefix(q, l.at[t])
    <3>1. Len(<<>>) = 0 /\ <<>> \in Path
      BY EmptySeq DEF Path
    <3>2. Len(l.at[t]) \in Nat
      BY <2>3, PathIs
    <3> QED
      BY <2>3, <3>1, <3>2, PrefixIs
  <2> QED
    BY <1>2, <2>2, <2>3, <2>4, LeafIsLast
<1>4. Front(q) \in DOMAIN l.dir /\ Front(q) \in Path
  BY <1>2, <1>3, TreeIs, FrontIs
<1>5. Last(q) \in Branch /\ q = Append(Front(q), Last(q))
  BY <1>2, <1>3, FrontIs
<1>6. Opposite(Last(q)) \in Branch /\ Opposite(Last(q)) # Last(q)
  BY <1>5 DEF Opposite, Branch
<1> QED
  BY <1>1, <1>2, <1>3, <1>4, <1>5, <1>6

(* The nodes that stay are under the sibling or not under the parent. *)
LEMMA StaysApart ==
  ASSUME NEW l, IsTree(l), NEW P \in Path, NEW b \in Branch, NEW c \in Branch, b # c,
         Append(P, b) \in LeafPaths(l), NEW p \in Nodes(l), p # P, p # Append(P, b)
  PROVE  p \in Path /\ (IsPrefix(Append(P, c), p) \/ ~IsPrefix(P, p))
<1>1. p \in Path /\ Len(p) \in Nat /\ Len(P) \in Nat
  BY TreeIs, PathIs
<1> SUFFICES ASSUME IsPrefix(P, p) PROVE IsPrefix(Append(P, c), p)
  BY <1>1
<1>2. Len(P) <= Len(p) /\ \A i \in 1 .. Len(P) : P[i] = p[i]
  BY <1>1, PrefixIs
<1>3. Len(P) # Len(p)
  BY <1>1, <1>2, PathEqual
<1>4. Len(P) + 1 \in 1 .. Len(p)
  BY <1>1, <1>2, <1>3
<1>5. PICK d \in Branch : d = p[Len(P) + 1]
  BY <1>1, <1>4, PathIs
<1>6. PICK S : S = Append(P, d)
  OBVIOUS
<1>7. S \in Path /\ Len(S) = Len(P) + 1 /\ S[Len(P) + 1] = d
  BY <1>6, AppendIs
<1>8. \A i \in 1 .. Len(P) : S[i] = P[i]
  BY <1>6, AppendIs
<1>9. Len(S) <= Len(p) /\ \A i \in 1 .. Len(S) : S[i] = p[i]
  BY <1>1, <1>2, <1>4, <1>5, <1>7, <1>8
<1>10. IsPrefix(S, p)
  BY <1>1, <1>7, <1>9, PrefixIs
<1>11. d # b
  BY <1>6, <1>10, LeafIsLast
<1>12. d = c
  BY <1>5, <1>11 DEF Branch
<1> QED
  BY <1>6, <1>10, <1>12

(* A tree stays one when a leaf is taken out and its sibling lifted. *)
LEMMA CollapseTree ==
  ASSUME NEW l, IsTree(l), Bounded(l),
         Shaped(l),
         NEW s \in Hosted(l), Hosted(l) # {s}
  PROVE  /\ IsTree(Collapse(l, s))
         /\ Bounded(Collapse(l, s))
         /\ Front(l.at[s]) \in Nodes(Collapse(l, s))
<1>1. PICK P : P = Front(l.at[s])
  OBVIOUS
<1>2. PICK b : b = Last(l.at[s])
  OBVIOUS
<1>3. PICK c : c = Opposite(b)
  OBVIOUS
<1>4. PICK S : S = Append(P, c)
  OBVIOUS
<1>5. P \in Path /\ P \in DOMAIN l.dir /\ b \in Branch /\ c \in Branch /\ c # b
  BY <1>1, <1>2, <1>3, ParentIs
<1>6. l.at[s] = Append(P, b) /\ Append(P, b) \in LeafPaths(l)
  BY <1>1, <1>2, ParentIs
<1>7. PICK m : m = Collapse(l, s)
  OBVIOUS
<1>8. /\ m.at = CollapsedAt(l, s, P, S)
      /\ m.dir = CollapsedDir(l, P, S)
  <2>1. P = Above(l, s) /\ S = Sibling(l, s)
    BY <1>1, <1>2, <1>3, <1>4 DEF Above, Sibling
  <2>2. m = [at |-> CollapsedAt(l, s, Above(l, s), Sibling(l, s)),
             dir |-> CollapsedDir(l, Above(l, s), Sibling(l, s)),
             focus |-> l.focus]
    BY <1>7, CollapseIs
  <2> QED
    BY <2>1, <2>2
<1>9. PICK N : N = Nodes(l) \ {P, Append(P, b)}
  OBVIOUS
<1>10. \A p \in N : p \in Path /\ (IsPrefix(S, p) \/ ~IsPrefix(P, p))
  BY <1>4, <1>5, <1>6, <1>9, StaysApart
<1>11. \A p \in N : Sink(Lift(p, P, S), P, S) = p
  BY <1>4, <1>5, <1>10, SinkLift
<1>12. P \notin LeafPaths(l) /\ Append(P, b) \notin DOMAIN l.dir
  BY <1>5, <1>6, TreeIs
<1>13. LeafPaths(l) \ {Append(P, b)} \subseteq N /\ DOMAIN l.dir \ {P} \subseteq N
       /\ N = (LeafPaths(l) \ {Append(P, b)}) \cup (DOMAIN l.dir \ {P})
  BY <1>9, <1>12 DEF Nodes
<1>14. \A t \in Hosted(l) \ {s} : l.at[t] \in LeafPaths(l) \ {Append(P, b)}
  BY <1>6 DEF LeafPaths, IsTree
<1>15. Hosted(m) = Hosted(l) \ {s} /\ \A t \in Hosted(m) : m.at[t] = Lift(l.at[t], P, S)
  BY <1>8 DEF Hosted, CollapsedAt
<1>16. LeafPaths(m) = {Lift(p, P, S) : p \in LeafPaths(l) \ {Append(P, b)}}
  <2>1. {l.at[t] : t \in Hosted(l) \ {s}} = LeafPaths(l) \ {Append(P, b)}
    BY <1>6, <1>14 DEF LeafPaths
  <2> QED
    BY <1>15, <2>1 DEF LeafPaths
<1>17. DOMAIN m.dir = {Lift(p, P, S) : p \in DOMAIN l.dir \ {P}}
  BY <1>8 DEF CollapsedDir
<1>18. Nodes(m) = {Lift(p, P, S) : p \in N}
  BY <1>13, <1>16, <1>17 DEF Nodes
<1>19. m.dir \in [DOMAIN m.dir -> SplitDir]
  <2>1. ASSUME NEW q \in DOMAIN m.dir PROVE m.dir[q] \in SplitDir
    <3>1. PICK p \in DOMAIN l.dir \ {P} : q = Lift(p, P, S)
      BY <1>17, <2>1
    <3>2. m.dir[q] = l.dir[Sink(q, P, S)]
      BY <1>8, <1>17, <2>1 DEF CollapsedDir
    <3>3. m.dir[q] = l.dir[p]
      BY <1>11, <1>13, <3>1, <3>2
    <3> QED
      BY <3>1, <3>3 DEF IsTree
  <2>2. m.dir = [q \in DOMAIN m.dir |-> m.dir[q]]
    BY <1>8 DEF CollapsedDir
  <2> QED
    BY <2>1, <2>2
<1>20. S \in N /\ Lift(S, P, S) = P
  <2>1. S \in Nodes(l) /\ S \in Path /\ Len(S) = Len(P) + 1 /\ Len(P) \in Nat
    BY <1>4, <1>5, TreeIs, AppendIs
  <2>2. S # P /\ S # Append(P, b)
    BY <1>4, <1>5, <2>1, FrontAppend
  <2>3. IsPrefix(S, S)
    BY <2>1, PrefixIs, PathIs
  <2>4. PICK u : u = Lift(S, P, S)
    OBVIOUS
  <2>5. u \in Path /\ Len(u) = Len(S) - 1
    <3>1. IsPrefix(Append(P, c), S)
      BY <1>4, <2>3
    <3>2. Lift(S, P, Append(P, c)) \in Path /\ Len(Lift(S, P, Append(P, c))) = Len(S) - 1
      BY <1>5, <2>1, <3>1, LiftIs
    <3> QED
      BY <1>4, <2>4, <3>2
  <2>6. \A i \in 1 .. Len(P) : u[i] = P[i]
    BY <1>4, <1>5, <2>1, <2>3, <2>4, LiftIs
  <2>7. Len(u) = Len(P)
    BY <2>1, <2>5
  <2>8. u = P
    BY <1>5, <2>5, <2>6, <2>7, PathEqual
  <2> QED
    BY <1>9, <2>1, <2>2, <2>4, <2>8
<1>21. \A p \in N : Lift(p, P, S) \in Path
  <2> SUFFICES ASSUME NEW p \in N PROVE Lift(p, P, S) \in Path
    OBVIOUS
  <2>1. CASE IsPrefix(S, p)
    BY <1>4, <1>5, <1>10, <2>1, LiftIs
  <2>2. CASE ~IsPrefix(S, p)
    BY <1>10, <2>2 DEF Lift
  <2> QED
    BY <2>1, <2>2
<1>22. Nodes(m) \subseteq Seq(Branch)
  BY <1>18, <1>21 DEF Path
<1>23. \A q \in DOMAIN m.dir, e \in Branch : Append(q, e) \in Nodes(m)
  <2> SUFFICES ASSUME NEW q \in DOMAIN m.dir, NEW e \in Branch PROVE Append(q, e) \in Nodes(m)
    OBVIOUS
  <2>1. PICK p \in DOMAIN l.dir \ {P} : q = Lift(p, P, S)
    BY <1>17
  <2>2. PICK r : r = Append(p, e)
    OBVIOUS
  <2>3. r \in Nodes(l) /\ p \in Path
    BY <1>10, <1>13, <2>1, <2>2, TreeIs
  <2>4. Front(r) = p
    BY <2>2, <2>3, FrontAppend
  <2>5. r # S /\ r # Append(P, b)
    BY <1>4, <1>5, <2>1, <2>4, FrontAppend
  <2>6. Lift(r, P, S) = Append(q, e)
    BY <1>4, <1>5, <2>1, <2>2, <2>3, <2>5, LiftAppend
  <2>7. CASE r = P
    <3>1. ~IsPrefix(S, P)
      <4>1. Len(S) = Len(P) + 1 /\ Len(P) \in Nat /\ S \in Path
        BY <1>4, <1>5, AppendIs
      <4> QED
        BY <1>5, <4>1, PrefixIs
    <3>2. Lift(r, P, S) = P
      BY <2>7, <3>1 DEF Lift
    <3> QED
      BY <1>18, <1>20, <2>6, <3>2
  <2>8. CASE r # P
    <3>1. r \in N
      BY <1>9, <2>3, <2>5, <2>8
    <3> QED
      BY <1>18, <2>6, <3>1
  <2> QED
    BY <2>7, <2>8
<1>24. \A q \in Nodes(m) \ {<<>>} : Front(q) \in DOMAIN m.dir
  <2> SUFFICES ASSUME NEW q \in Nodes(m), q # <<>> PROVE Front(q) \in DOMAIN m.dir
    OBVIOUS
  <2>1. PICK p \in N : q = Lift(p, P, S)
    BY <1>18
  <2>2. ~IsPrefix(S, P) /\ Lift(P, P, S) = P
    <3>1. Len(S) = Len(P) + 1 /\ Len(P) \in Nat /\ S \in Path
      BY <1>4, <1>5, AppendIs
    <3>2. ~IsPrefix(S, P)
      BY <1>5, <3>1, PrefixIs
    <3> QED
      BY <3>2 DEF Lift
  <2>3. CASE p = S
    <3>1. q = P /\ P # <<>>
      BY <1>20, <2>1, <2>3
    <3>2. Front(P) \in DOMAIN l.dir
      BY <1>5, <3>1, TreeIs DEF Nodes
    <3>3. Front(P) \in Path /\ Len(Front(P)) = Len(P) - 1 /\ Len(P) \in Nat
      BY <1>5, <3>1, FrontIs
    <3>4. Front(P) # P
      BY <3>3
    <3>5. ~IsPrefix(S, Front(P))
      <4>1. Len(S) = Len(P) + 1 /\ S \in Path
        BY <1>4, <1>5, AppendIs
      <4> QED
        BY <3>3, <4>1, PrefixIs
    <3>6. Lift(Front(P), P, S) = Front(P)
      BY <3>5 DEF Lift
    <3>7. Front(P) \in {Lift(x, P, S) : x \in DOMAIN l.dir \ {P}}
      BY <3>2, <3>4, <3>6
    <3> QED
      BY <1>17, <3>1, <3>7
  <2>4. CASE p # S
    <3>1. p # <<>>
      <4>1. ASSUME p = <<>> PROVE FALSE
        <5>1. Len(S) = Len(P) + 1 /\ Len(P) \in Nat /\ S \in Path /\ Len(<<>>) = 0 /\ <<>> \in Path
          BY <1>4, <1>5, AppendIs, EmptySeq DEF Path
        <5>2. ~IsPrefix(S, p)
          BY <4>1, <5>1, PrefixIs
        <5>3. q = p
          BY <2>1, <5>2 DEF Lift
        <5> QED
          BY <4>1, <5>3
      <4> QED
        BY <4>1
    <3>2. PICK f : f = Front(p)
      OBVIOUS
    <3>3. PICK e : e = Last(p)
      OBVIOUS
    <3>4. f \in Path /\ e \in Branch /\ p = Append(f, e)
      BY <1>10, <3>1, <3>2, <3>3, FrontIs
    <3>5. f \in DOMAIN l.dir
      BY <1>9, <3>1, <3>2, TreeIs
    <3>6. f # P
      <4>1. e = b \/ e = c
        BY <1>5, <3>4 DEF Branch
      <4> QED
        BY <1>4, <1>9, <2>4, <3>4, <4>1
    <3>7. q = Append(Lift(f, P, S), e) /\ Lift(f, P, S) \in Path
      BY <1>4, <1>5, <2>1, <2>4, <3>4, LiftAppend
    <3>8. Front(q) = Lift(f, P, S)
      BY <3>4, <3>7, FrontAppend
    <3> QED
      BY <1>17, <3>5, <3>6, <3>8
  <2> QED
    BY <2>3, <2>4
<1>25. LeafPaths(m) \cap DOMAIN m.dir = {}
  <2> SUFFICES ASSUME NEW p \in LeafPaths(l) \ {Append(P, b)}, NEW q \in DOMAIN l.dir \ {P},
                      Lift(p, P, S) = Lift(q, P, S)
               PROVE  FALSE
    BY <1>16, <1>17
  <2>1. p = q
    BY <1>11, <1>13
  <2> QED
    BY <2>1, TreeIs
<1>26. \A t, v \in Hosted(m) : m.at[t] = m.at[v] => t = v
  <2> SUFFICES ASSUME NEW t \in Hosted(m), NEW v \in Hosted(m), m.at[t] = m.at[v] PROVE t = v
    OBVIOUS
  <2>1. l.at[t] \in N /\ l.at[v] \in N /\ t \in Hosted(l) /\ v \in Hosted(l)
    BY <1>13, <1>14, <1>15
  <2>2. l.at[t] = l.at[v]
    BY <1>11, <1>15, <2>1
  <2> QED
    BY <2>1, <2>2 DEF IsTree
<1>27. IsTree(m)
  BY <1>19, <1>22, <1>23, <1>24, <1>25, <1>26 DEF IsTree, Nodes
<1>28. Bounded(m)
  <2>1. PICK n \in Nat : \A p \in Nodes(l) : Len(p) <= n
    BY DEF Bounded
  <2>2. ASSUME NEW p \in N PROVE Len(Lift(p, P, S)) <= n
    <3>1. Len(p) <= n /\ p \in Path /\ Len(p) \in Nat
      BY <1>9, <1>10, <2>1, PathIs
    <3>2. CASE IsPrefix(S, p)
      <4>1. Len(Lift(p, P, S)) = Len(p) - 1
        BY <1>4, <1>5, <3>1, <3>2, LiftIs
      <4> QED
        BY <3>1, <4>1
    <3>3. CASE ~IsPrefix(S, p)
      BY <3>1, <3>3 DEF Lift
    <3> QED
      BY <3>2, <3>3
  <2>3. \A q \in Nodes(m) : Len(q) <= n
    BY <1>18, <2>2
  <2> QED
    BY <2>3 DEF Bounded
<1>29. P \in Nodes(m)
  BY <1>18, <1>20
<1> QED
  BY <1>1, <1>7, <1>27, <1>28, <1>29

-----------------------------------------------------------------------------
(***************************************************************************)
(* Drawing order.                                                          *)
(***************************************************************************)

(* Drawing order is strict. *)
LEMMA BeforeTransitive ==
  ASSUME NEW p \in Path, NEW q \in Path, NEW r \in Path, Before(p, q), Before(q, r)
  PROVE  Before(p, r)
<1>1. /\ Len(p) \in Nat /\ DOMAIN p = 1 .. Len(p)
      /\ Len(q) \in Nat /\ DOMAIN q = 1 .. Len(q)
      /\ Len(r) \in Nat /\ DOMAIN r = 1 .. Len(r)
  BY PathIs
<1>2. PICK i \in DOMAIN p \cap DOMAIN q :
        p[i] = "A" /\ q[i] = "B" /\ \A k \in 1 .. i - 1 : p[k] = q[k]
  BY DEF Before
<1>3. PICK j \in DOMAIN q \cap DOMAIN r :
        q[j] = "A" /\ r[j] = "B" /\ \A k \in 1 .. j - 1 : q[k] = r[k]
  BY DEF Before
<1>4. "A" # "B"
  OBVIOUS
<1>5. i # j
  BY <1>2, <1>3, <1>4
<1>6. CASE i < j
  <2>1. i \in 1 .. j - 1 /\ i \in DOMAIN p \cap DOMAIN r
    BY <1>1, <1>2, <1>3, <1>6
  <2>2. r[i] = "B" /\ p[i] = "A"
    BY <1>2, <1>3, <2>1
  <2>3. \A k \in 1 .. i - 1 : p[k] = r[k]
    BY <1>1, <1>2, <1>3, <1>6
  <2> QED
    BY <2>1, <2>2, <2>3 DEF Before
<1>7. CASE j < i
  <2>1. j \in 1 .. i - 1 /\ j \in DOMAIN p \cap DOMAIN r
    BY <1>1, <1>2, <1>3, <1>7
  <2>2. p[j] = "A" /\ r[j] = "B"
    BY <1>2, <1>3, <2>1
  <2>3. \A k \in 1 .. j - 1 : p[k] = r[k]
    BY <1>1, <1>2, <1>3, <1>7
  <2> QED
    BY <2>1, <2>2, <2>3 DEF Before
<1> QED
  BY <1>1, <1>2, <1>3, <1>5, <1>6, <1>7

(* No leaf is drawn before itself. *)
LEMMA BeforeIrreflexive ==
  ASSUME NEW p
  PROVE  ~Before(p, p)
<1>1. "A" # "B"
  OBVIOUS
<1> QED
  BY <1>1 DEF Before

(* Of two leaves one is drawn before the other. *)
LEMMA BeforeTotal ==
  ASSUME NEW l, IsTree(l), NEW p \in LeafPaths(l), NEW q \in LeafPaths(l), p # q
  PROVE  Before(p, q) \/ Before(q, p)
<1>1. /\ p \in Path /\ Len(p) \in Nat /\ DOMAIN p = 1 .. Len(p) /\ p \in Nodes(l)
      /\ q \in Path /\ Len(q) \in Nat /\ DOMAIN q = 1 .. Len(q) /\ q \in Nodes(l)
  BY TreeIs, PathIs DEF Nodes
<1>2. PICK D : D = {i \in DOMAIN p \cap DOMAIN q : p[i] # q[i]}
  OBVIOUS
<1>3. D # {}
  <2> SUFFICES ASSUME D = {} PROVE FALSE
    OBVIOUS
  <2>1. \A i \in DOMAIN p \cap DOMAIN q : p[i] = q[i]
    BY <1>2
  <2>2. CASE Len(p) <= Len(q)
    <3>1. \A i \in 1 .. Len(p) : p[i] = q[i]
      BY <1>1, <2>1, <2>2
    <3>2. IsPrefix(p, q)
      BY <1>1, <2>2, <3>1, PrefixIs
    <3> QED
      BY <1>1, <3>2, LeafIsLast
  <2>3. CASE Len(q) <= Len(p)
    <3>1. \A i \in 1 .. Len(q) : q[i] = p[i]
      BY <1>1, <2>1, <2>3
    <3>2. IsPrefix(q, p)
      BY <1>1, <2>3, <3>1, PrefixIs
    <3> QED
      BY <1>1, <3>2, LeafIsLast
  <2> QED
    BY <1>1, <2>2, <2>3
<1>4. D \subseteq Nat
  BY <1>1, <1>2
<1>5. PICK i \in D : \A j \in D : i <= j
  BY <1>3, <1>4, Least
<1>6. i \in DOMAIN p \cap DOMAIN q /\ p[i] # q[i]
  BY <1>2, <1>5
<1>7. \A j \in 1 .. i - 1 : p[j] = q[j] /\ q[j] = p[j]
  <2> SUFFICES ASSUME NEW j \in 1 .. i - 1 PROVE p[j] = q[j]
    OBVIOUS
  <2>1. j \in DOMAIN p \cap DOMAIN q /\ ~(i <= j)
    BY <1>1, <1>6
  <2> QED
    BY <1>2, <1>5, <2>1
<1>8. p[i] \in Branch /\ q[i] \in Branch
  BY <1>1, <1>6, PathIs
<1>9. (p[i] = "A" /\ q[i] = "B") \/ (q[i] = "A" /\ p[i] = "B")
  BY <1>6, <1>8 DEF Branch
<1> QED
  BY <1>6, <1>7, <1>9 DEF Before

(* Some leaf is drawn first. *)
DrawnFirst(U, p) == p \in U /\ \A q \in U \ {p} : Before(p, q)

(* Some of any leaves is drawn first: their number cannot be a least one of which
   none is. *)
LEMMA FirstExists ==
  ASSUME NEW l, IsTree(l), IsFiniteSet(LeafPaths(l)),
         NEW V \in SUBSET LeafPaths(l), V # {}
  PROVE  \E p : DrawnFirst(V, p)
<1>1. \A U \in SUBSET LeafPaths(l) : IsFiniteSet(U) /\ Cardinality(U) \in Nat
  BY FS_Subset, FS_CardinalityType
<1>2. PICK B : B = {U \in SUBSET LeafPaths(l) : U # {} /\ ~\E p : DrawnFirst(U, p)}
  OBVIOUS
<1> SUFFICES ASSUME B # {} PROVE FALSE
  BY <1>2
<1>3. PICK T : T = {Cardinality(U) : U \in B}
  OBVIOUS
<1>4. T \subseteq Nat /\ T # {}
  BY <1>1, <1>2, <1>3
<1>5. PICK n \in T : \A m \in T : n <= m
  BY <1>4, Least
<1>6. PICK U \in B : n = Cardinality(U)
  BY <1>3, <1>5
<1>7. U \in SUBSET LeafPaths(l) /\ U # {} /\ ~\E p : DrawnFirst(U, p)
  BY <1>2, <1>6
<1>8. PICK x \in U : TRUE
  BY <1>7
<1>9. PICK W : W = U \ {x}
  OBVIOUS
<1>10. W \in SUBSET LeafPaths(l) /\ Cardinality(W) = n - 1 /\ n \in Nat
  BY <1>1, <1>6, <1>7, <1>8, <1>9, FS_RemoveElement
<1>11. W # {}
  BY <1>7, <1>8, <1>9 DEF DrawnFirst
<1>12. W \notin B
  BY <1>3, <1>5, <1>10
<1>13. PICK y : DrawnFirst(W, y)
  BY <1>2, <1>10, <1>11, <1>12
<1>14. y \in U /\ y # x /\ \A q \in U \ {x, y} : Before(y, q)
  BY <1>9, <1>13 DEF DrawnFirst
<1>15. CASE Before(x, y)
  <2>1. \A q \in U : q \in Path
    BY <1>7, TreeIs DEF Nodes
  <2>2. \A q \in U \ {x} : Before(x, q)
    BY <1>14, <1>15, <2>1, BeforeTransitive
  <2> QED
    BY <1>7, <2>2 DEF DrawnFirst
<1>16. CASE Before(y, x)
  <2>1. DrawnFirst(U, y)
    BY <1>14, <1>16 DEF DrawnFirst
  <2> QED
    BY <1>7, <2>1
<1> QED
  BY <1>7, <1>14, <1>15, <1>16, BeforeTotal

(* f lists the leaves U in drawing order. *)
Sorted(f, U) ==
  /\ f \in [1 .. Cardinality(U) -> U]
  /\ \A i, j \in 1 .. Cardinality(U) : i < j => Before(f[i], f[j])

(* Any leaves can be put in drawing order. *)
LEMMA SortedExists ==
  ASSUME NEW l, IsTree(l), IsFiniteSet(LeafPaths(l)), NEW V \in SUBSET LeafPaths(l)
  PROVE  \E f : Sorted(f, V)
<1>1. \A U \in SUBSET LeafPaths(l) : IsFiniteSet(U) /\ Cardinality(U) \in Nat
  BY FS_Subset, FS_CardinalityType
<1>2. PICK B : B = {U \in SUBSET LeafPaths(l) : ~\E f : Sorted(f, U)}
  OBVIOUS
<1> SUFFICES ASSUME B # {} PROVE FALSE
  BY <1>2
<1>3. PICK T : T = {Cardinality(U) : U \in B}
  OBVIOUS
<1>4. T \subseteq Nat /\ T # {}
  BY <1>1, <1>2, <1>3
<1>5. PICK n \in T : \A m \in T : n <= m
  BY <1>4, Least
<1>6. PICK U \in B : n = Cardinality(U)
  BY <1>3, <1>5
<1>7. U \in SUBSET LeafPaths(l) /\ ~\E f : Sorted(f, U)
  BY <1>2, <1>6
<1>8. U # {}
  <2> SUFFICES ASSUME U = {} PROVE FALSE
    OBVIOUS
  <2>1. Cardinality(U) = 0
    BY FS_EmptySet
  <2>2. PICK f : f = [i \in 1 .. 0 |-> 0]
    OBVIOUS
  <2>3. f \in [1 .. 0 -> U] /\ 1 .. 0 = {}
    BY <2>2
  <2>4. Sorted(f, U)
    BY <2>1, <2>3 DEF Sorted
  <2> QED
    BY <1>7, <2>4
<1>9. PICK x : DrawnFirst(U, x)
  BY <1>7, <1>8, FirstExists
<1>10. PICK W : W = U \ {x}
  OBVIOUS
<1>11. W \in SUBSET LeafPaths(l) /\ Cardinality(W) = n - 1 /\ n \in Nat
  BY <1>1, <1>6, <1>7, <1>9, <1>10, FS_RemoveElement DEF DrawnFirst
<1>12. W \notin B
  BY <1>3, <1>5, <1>11
<1>13. PICK g : Sorted(g, W)
  BY <1>2, <1>11, <1>12
<1>14. /\ g \in [1 .. n - 1 -> W]
       /\ \A i, j \in 1 .. n - 1 : i < j => Before(g[i], g[j])
  BY <1>11, <1>13 DEF Sorted
<1>15. PICK f : f = [i \in 1 .. n |-> IF i = 1 THEN x ELSE g[i - 1]]
  OBVIOUS
<1>16. \A i \in 2 .. n : i \in 1 .. n /\ i - 1 \in 1 .. n - 1 /\ f[i] = g[i - 1] /\ f[i] \in W
  <2> SUFFICES ASSUME NEW i \in 2 .. n
               PROVE  i \in 1 .. n /\ i - 1 \in 1 .. n - 1 /\ f[i] = g[i - 1] /\ f[i] \in W
    OBVIOUS
  <2>1. i \in 1 .. n /\ i - 1 \in 1 .. n - 1 /\ i # 1
    BY <1>11
  <2>2. f[i] = g[i - 1]
    BY <1>15, <2>1
  <2> QED
    BY <1>14, <2>1, <2>2
<1>17. f \in [1 .. n -> U]
  <2>1. \A i \in 1 .. n : f[i] \in U
    <3> SUFFICES ASSUME NEW i \in 1 .. n PROVE f[i] \in U
      OBVIOUS
    <3>1. CASE i = 1
      BY <1>9, <1>15, <3>1 DEF DrawnFirst
    <3>2. CASE i # 1
      <4>1. i \in 2 .. n
        BY <1>11, <3>2
      <4> QED
        BY <1>10, <1>16, <4>1
    <3> QED
      BY <3>1, <3>2
  <2> QED
    BY <1>15, <2>1
<1>18. ASSUME NEW i \in 1 .. n, NEW j \in 1 .. n, i < j PROVE Before(f[i], f[j])
  <2>1. j \in 2 .. n
    BY <1>11, <1>18
  <2>2. CASE i = 1
    <3>1. f[i] = x /\ f[j] \in W
      BY <1>15, <1>16, <2>1, <2>2
    <3> QED
      BY <1>9, <1>10, <3>1 DEF DrawnFirst
  <2>3. CASE i # 1
    <3>1. i \in 2 .. n
      BY <1>11, <2>3
    <3>2. PICK k \in 1 .. n - 1 : k = i - 1 /\ f[i] = g[k]
      BY <1>16, <3>1
    <3>3. PICK m \in 1 .. n - 1 : m = j - 1 /\ f[j] = g[m]
      BY <1>16, <2>1
    <3>4. k < m
      BY <1>11, <1>18, <3>2, <3>3
    <3> QED
      BY <1>14, <3>2, <3>3, <3>4
  <2> QED
    BY <2>2, <2>3
<1>19. Sorted(f, U)
  BY <1>6, <1>17, <1>18 DEF Sorted
<1> QED
  BY <1>7, <1>19

(* The leaves' order lists every leaf once. *)
LEMMA LeafOrderIs ==
  ASSUME NEW l, IsTree(l), IsFiniteSet(Hosted(l))
  PROVE  /\ Cardinality(LeafPaths(l)) \in Nat
         /\ DOMAIN LeafOrder(l) = 1 .. Cardinality(LeafPaths(l))
         /\ Len(LeafOrder(l)) = Cardinality(LeafPaths(l))
         /\ \A i \in DOMAIN LeafOrder(l) : LeafOrder(l)[i] \in LeafPaths(l)
         /\ \A i, j \in DOMAIN LeafOrder(l) : LeafOrder(l)[i] = LeafOrder(l)[j] => i = j
         /\ \A p \in LeafPaths(l) : \E i \in DOMAIN LeafOrder(l) : LeafOrder(l)[i] = p
<1>1. IsFiniteSet(LeafPaths(l))
  <2>1. PICK f : f = [s \in Hosted(l) |-> l.at[s]]
    OBVIOUS
  <2>2. f \in Surjection(Hosted(l), LeafPaths(l))
    BY <2>1 DEF Surjection, LeafPaths
  <2> QED
    BY <2>2, FS_Surjection DEF ExistsSurjection
<1>2. PICK n \in Nat : n = Cardinality(LeafPaths(l))
  BY <1>1, FS_CardinalityType
<1>3. PICK o : o = LeafOrder(l)
  OBVIOUS
<1>4. \E f : Sorted(f, LeafPaths(l))
  BY <1>1, SortedExists
<1>5. \E f \in [1 .. n -> LeafPaths(l)] : \A i, j \in DOMAIN f : i < j => Before(f[i], f[j])
  BY <1>2, <1>4 DEF Sorted
<1>6. o \in [1 .. n -> LeafPaths(l)] /\ \A i, j \in DOMAIN o : i < j => Before(o[i], o[j])
  BY <1>2, <1>3, <1>5 DEF LeafOrder
<1>7. DOMAIN o = 1 .. n /\ \A i \in 1 .. n : o[i] \in LeafPaths(l)
  BY <1>6
<1>8. Len(o) = n
  <2>1. o \in Seq(LeafPaths(l))
    BY <1>6, SeqDef
  <2> QED
    BY <1>7, <2>1, LenProperties
<1>9. \A i, j \in 1 .. n : o[i] = o[j] => i = j
  <2> SUFFICES ASSUME NEW i \in 1 .. n, NEW j \in 1 .. n, o[i] = o[j], i < j PROVE FALSE
    OBVIOUS
  <2>1. Before(o[i], o[j])
    BY <1>6, <1>7
  <2> QED
    BY <2>1, BeforeIrreflexive
<1>10. PICK R : R = {o[i] : i \in 1 .. n}
  OBVIOUS
<1>11. R \subseteq LeafPaths(l)
  BY <1>7, <1>10
<1>12. o \in Bijection(1 .. n, R)
  BY <1>6, <1>7, <1>9, <1>10 DEF Bijection, Injection, Surjection, IsInjective
<1>13. IsFiniteSet(1 .. n) /\ Cardinality(1 .. n) = n
  <2>1. n \in Int /\ 1 \in Int
    OBVIOUS
  <2>2. Cardinality(1 .. n) = IF 1 > n THEN 0 ELSE n - 1 + 1
    BY <2>1, FS_Interval
  <2>3. Cardinality(1 .. n) = n
    BY <2>2
  <2> QED
    BY <2>1, <2>3, FS_Interval
<1>14. Cardinality(R) = n
  BY <1>12, <1>13, FS_Bijection DEF ExistsBijection
<1>15. R = LeafPaths(l)
  BY <1>1, <1>2, <1>11, <1>14, FS_Subset
<1> QED
  BY <1>2, <1>3, <1>7, <1>8, <1>9, <1>10, <1>15

-----------------------------------------------------------------------------
(***************************************************************************)
(* What every operation leaves of a layout.                                *)
(***************************************************************************)

(* What every layout of a tab is: a finite tree with its focus on a leaf. *)
LayoutFits(l) ==
  /\ Shaped(l)
  /\ IsFiniteSet(Hosted(l))
  /\ IsTree(l)
  /\ FocusOnLeaf(l)
  /\ Bounded(l)

(* A tab opens on one pane. *)
LEMMA NewLayoutFits ==
  ASSUME NEW s
  PROVE  LayoutFits(NewLayout(s)) /\ Hosted(NewLayout(s)) = {s}
<1>1. Shaped(NewLayout(s)) /\ Hosted(NewLayout(s)) = {s}
  BY DEF Shaped, NewLayout, Hosted
<1>2. IsFiniteSet(Hosted(NewLayout(s)))
  BY <1>1, FS_Singleton
<1> QED
  BY <1>1, <1>2, NewLayoutTree DEF LayoutFits

(* A split adds the new session's pane, with the focus. *)
LEMMA SplitFocusFits ==
  ASSUME NEW l, LayoutFits(l), NEW d \in SplitDir, NEW s, s \notin Hosted(l)
  PROVE  LayoutFits(SplitFocus(l, d, s)) /\ Hosted(SplitFocus(l, d, s)) = Hosted(l) \cup {s}
<1>1. Shaped(SplitFocus(l, d, s)) /\ Hosted(SplitFocus(l, d, s)) = Hosted(l) \cup {s}
  BY DEF Shaped, SplitFocus, Hosted
<1>2. IsFiniteSet(Hosted(SplitFocus(l, d, s)))
  BY <1>1, FS_AddElement DEF LayoutFits
<1>3. IsTree(SplitFocus(l, d, s)) /\ FocusOnLeaf(SplitFocus(l, d, s)) /\ Bounded(SplitFocus(l, d, s))
  BY SplitFocusTree DEF LayoutFits
<1> QED
  BY <1>1, <1>2, <1>3 DEF LayoutFits

(* A session that has the focus is one of the layout's, and each session is
   where its leaf is. *)
LEMMA FocusedSessionIs ==
  ASSUME NEW l, LayoutFits(l)
  PROVE  FocusedSession(l) \in Hosted(l) /\ l.at[FocusedSession(l)] = l.focus
<1>1. \E s \in Hosted(l) : l.at[s] = l.focus
  BY DEF LayoutFits, FocusOnLeaf, LeafPaths
<1> QED
  BY <1>1 DEF FocusedSession, SessionAt

(* Each session is the one at its leaf. *)
LEMMA SessionAtIs ==
  ASSUME NEW l, IsTree(l), NEW s \in Hosted(l)
  PROVE  SessionAt(l, l.at[s]) = s
BY DEF SessionAt, IsTree

(* A layout has a first pane: from the root, branches A lead down to a leaf. *)
LEMMA FirstSessionIs ==
  ASSUME NEW l, LayoutFits(l)
  PROVE  FirstSession(l) \in Hosted(l)
<1>1. PICK p : p = l.focus
  OBVIOUS
<1>2. IsTree(l) /\ Bounded(l) /\ p \in LeafPaths(l) /\ p \in Nodes(l)
  BY <1>1 DEF LayoutFits, FocusOnLeaf, Nodes
<1>3. p \in Path
  BY <1>2, TreeIs
<1>4. <<>> \in Nodes(l)
  <2>1. CASE p # <<>>
    <3>1. Len(p) \in Nat \ {0}
      BY <1>3, <2>1, FrontIs
    <3>2. 0 \in 0 .. Len(p) - 1 /\ 0 \in 0 .. Len(p)
      BY <3>1
    <3>3. SubSeq(p, 1, 0) \in DOMAIN l.dir
      BY <1>2, <3>2, AboveIsSplit
    <3>4. SubSeq(p, 1, 0) = <<>>
      BY <1>3, <3>2, UptoIs, EmptySeq DEF Path
    <3> QED
      BY <3>3, <3>4 DEF Nodes
  <2> QED
    BY <1>2, <2>1
<1>5. Descend(l, <<>>, "A") \in LeafPaths(l)
  BY <1>2, <1>4, DescendIs, BranchIs
<1>6. PICK s \in Hosted(l) : l.at[s] = Descend(l, <<>>, "A")
  BY <1>5 DEF LeafPaths
<1> QED
  BY <1>2, <1>6, SessionAtIs DEF FirstSession

(* Moving the focus to a leaf changes nothing else. *)
LEMMA RefocusFits ==
  ASSUME NEW l, Shaped(l), IsTree(l), Bounded(l), IsFiniteSet(Hosted(l)), NEW f \in LeafPaths(l)
  PROVE  /\ LayoutFits([l EXCEPT !.focus = f])
         /\ Hosted([l EXCEPT !.focus = f]) = Hosted(l)
         /\ [l EXCEPT !.focus = f].at = l.at
         /\ [l EXCEPT !.focus = f].focus = f
<1>1. PICK m : m = [l EXCEPT !.focus = f]
  OBVIOUS
<1>2. m = [at |-> l.at, dir |-> l.dir, focus |-> f]
  BY <1>1 DEF Shaped
<1>3. m.at = l.at /\ m.dir = l.dir /\ m.focus = f /\ Shaped(m)
  BY <1>2 DEF Shaped
<1>4. Hosted(m) = Hosted(l) /\ LeafPaths(m) = LeafPaths(l) /\ Nodes(m) = Nodes(l)
  BY <1>3 DEF Hosted, LeafPaths, Nodes
<1>5. IsTree(m)
  BY <1>3, <1>4 DEF IsTree
<1>6. Bounded(m) /\ FocusOnLeaf(m)
  BY <1>3, <1>4 DEF Bounded, FocusOnLeaf
<1> QED
  BY <1>1, <1>3, <1>4, <1>5, <1>6 DEF LayoutFits

(* A click puts the focus on the pane clicked. *)
LEMMA FocusOnFits ==
  ASSUME NEW l, LayoutFits(l), NEW s \in Hosted(l)
  PROVE  /\ LayoutFits(FocusOn(l, s)) /\ Hosted(FocusOn(l, s)) = Hosted(l)
         /\ FocusedSession(FocusOn(l, s)) = s
<1>1. l.at[s] \in LeafPaths(l)
  BY DEF LeafPaths
<1>2. PICK m : m = FocusOn(l, s)
  OBVIOUS
<1>3. m = [l EXCEPT !.focus = l.at[s]]
  BY <1>2 DEF FocusOn
<1>4. LayoutFits(m) /\ Hosted(m) = Hosted(l) /\ m.at = l.at /\ m.focus = l.at[s]
  BY <1>1, <1>3, RefocusFits DEF LayoutFits
<1>5. SessionAt(m, m.at[s]) = s
  BY <1>4, SessionAtIs DEF LayoutFits
<1> QED
  BY <1>2, <1>4, <1>5 DEF FocusedSession

(* A close leaves the other panes, with the focus on one of them. *)
LEMMA CloseLeafFits ==
  ASSUME NEW l, LayoutFits(l), NEW s \in Hosted(l), Hosted(l) # {s}
  PROVE  LayoutFits(CloseLeaf(l, s)) /\ Hosted(CloseLeaf(l, s)) = Hosted(l) \ {s}
<1>1. PICK rest : rest = Collapse(l, s)
  OBVIOUS
<1>2. IsTree(rest)
  BY <1>1, CollapseTree DEF LayoutFits
<1>3. Bounded(rest)
  BY <1>1, CollapseTree DEF LayoutFits
<1>4. Front(l.at[s]) \in Nodes(rest)
  BY <1>1, CollapseTree DEF LayoutFits
<1>5. Shaped(rest) /\ Hosted(rest) = Hosted(l) \ {s}
  <2>1. Shaped(l)
    BY DEF LayoutFits
  <2>2. PICK A : A = CollapsedAt(l, s, Above(l, s), Sibling(l, s))
    OBVIOUS
  <2>3. PICK D : D = CollapsedDir(l, Above(l, s), Sibling(l, s))
    OBVIOUS
  <2>4. rest = [at |-> A, dir |-> D, focus |-> l.focus]
    BY <1>1, <2>1, <2>2, <2>3, CollapseIs
  <2>5. DOMAIN A = Hosted(l) \ {s}
    BY <2>2 DEF CollapsedAt
  <2> QED
    BY <2>4, <2>5 DEF Hosted, Shaped
<1>6. IsFiniteSet(Hosted(rest))
  BY <1>5, FS_RemoveElement DEF LayoutFits
<1>7. PICK f : f = IF l.focus = l.at[s] THEN Descend(rest, Front(l.at[s]), "A")
                   ELSE rest.at[FocusedSession(l)]
  OBVIOUS
<1>8. f \in LeafPaths(rest)
  <2>1. CASE l.focus = l.at[s]
    BY <1>2, <1>3, <1>4, <1>7, <2>1, BranchIs, DescendIs
  <2>2. CASE l.focus # l.at[s]
    <3>1. FocusedSession(l) \in Hosted(rest)
      BY <1>5, <2>2, FocusedSessionIs
    <3> QED
      BY <1>7, <2>2, <3>1 DEF LeafPaths
  <2> QED
    BY <2>1, <2>2
<1>9. CloseLeaf(l, s) = [rest EXCEPT !.focus = f]
  BY <1>1, <1>7 DEF CloseLeaf
<1> QED
  BY <1>2, <1>3, <1>5, <1>6, <1>8, <1>9, RefocusFits

(* Stepping through the panes goes to one of them. *)
LEMMA CycleFocusFits ==
  ASSUME NEW l, LayoutFits(l), NEW step
  PROVE  LayoutFits(CycleFocus(l, step)) /\ Hosted(CycleFocus(l, step)) = Hosted(l)
<1>1. PICK order : order = LeafOrder(l)
  OBVIOUS
<1>2. PICK n \in Nat : n = Cardinality(LeafPaths(l))
  BY LeafOrderIs DEF LayoutFits
<1>3. DOMAIN order = 1 .. n /\ Len(order) = n /\ \A i \in 1 .. n : order[i] \in LeafPaths(l)
  BY <1>1, <1>2, LeafOrderIs DEF LayoutFits
<1>4. \E i \in DOMAIN order : order[i] = l.focus
  BY <1>1, LeafOrderIs DEF LayoutFits, FocusOnLeaf
<1>5. PICK here : here = CHOOSE i \in DOMAIN order : order[i] = l.focus
  OBVIOUS
<1>6. here \in 1 .. n
  BY <1>3, <1>4, <1>5
<1>7. IndexAfter(step, here, n) \in 1 .. n
  <2>1. n \in Nat /\ n > 0 /\ here \in Nat
    BY <1>6
  <2>2. here % n \in 0 .. n - 1
    BY <2>1
  <2>3. here + n - 2 \in Int /\ (here + n - 2) % n \in 0 .. n - 1
    BY <2>1
  <2> QED
    BY <2>1, <2>2, <2>3 DEF IndexAfter
<1>8. PICK f : f = order[IndexAfter(step, here, Len(order))]
  OBVIOUS
<1>9. f \in LeafPaths(l)
  BY <1>3, <1>7, <1>8
<1>10. CycleFocus(l, step) = [l EXCEPT !.focus = f]
  BY <1>1, <1>5, <1>8 DEF CycleFocus
<1> QED
  BY <1>9, <1>10, RefocusFits DEF LayoutFits

(* Entering a split the focus is under, on either side, ends on a leaf. *)
LEMMA EdgeLeafIs ==
  ASSUME NEW l, LayoutFits(l), NEW d \in Direction, NEW i \in Crossings(l, d), NEW b \in Branch
  PROVE  EdgeLeaf(l, i, b, d) \in LeafPaths(l)
<1>1. PICK p : p = SubSeq(l.focus, 1, i)
  OBVIOUS
<1>2. p \in DOMAIN l.dir
  BY <1>1 DEF Crossings
<1>3. Append(p, b) \in Nodes(l)
  BY <1>2, TreeIs DEF LayoutFits
<1>4. Opposite(Toward(d)) \in Branch
  BY DEF Opposite, Toward, Branch
<1> QED
  BY <1>1, <1>3, <1>4, DescendIs DEF EdgeLeaf, LayoutFits

(* The splits a move may cross have a nearest and an outermost one. *)
LEMMA CrossingsAre ==
  ASSUME NEW l, LayoutFits(l), NEW d, NEW C \in SUBSET Crossings(l, d), C # {}
  PROVE  Max(C) \in Crossings(l, d) /\ Min(C) \in Crossings(l, d)
<1>1. PICK n \in Nat : n = Len(l.focus)
  <2>1. l.focus \in Path
    BY TreeIs DEF LayoutFits, FocusOnLeaf, Nodes
  <2> QED
    BY <2>1, PathIs
<1>2. C \subseteq Nat /\ \A i \in C : i <= n
  BY <1>1 DEF Crossings
<1>3. \E x \in C : \A y \in C : y <= x
  BY <1>2, Greatest
<1>4. \E x \in C : \A y \in C : x >= y
  BY <1>2, <1>3
<1>5. \E x \in C : \A y \in C : x <= y
  BY <1>2, Least
<1>6. Max(C) \in C
  BY <1>4 DEF Max
<1>7. Min(C) \in C
  BY <1>5 DEF Min
<1> QED
  BY <1>6, <1>7

(* A directional move changes the focus at most, to another leaf. *)
LEMMA FocusDirFits ==
  ASSUME NEW l, LayoutFits(l), NEW d \in Direction
  PROVE  LayoutFits(FocusDirOf(l, d)) /\ Hosted(FocusDirOf(l, d)) = Hosted(l)
<1>0. Toward(d) \in Branch /\ Opposite(Toward(d)) \in Branch
  BY DEF Opposite, Toward, Branch
<1>1. CASE Crossable(l, d) # {}
  <2>1. Crossable(l, d) \in SUBSET Crossings(l, d)
    BY DEF Crossable
  <2>2. PICK f : f = EdgeLeaf(l, Max(Crossable(l, d)), Toward(d), d)
    OBVIOUS
  <2>3. f \in LeafPaths(l)
    BY <1>0, <1>1, <2>1, <2>2, CrossingsAre, EdgeLeafIs
  <2>4. FocusDirOf(l, d) = [l EXCEPT !.focus = f]
    BY <1>1, <2>2 DEF FocusDirOf
  <2> QED
    BY <2>3, <2>4, RefocusFits DEF LayoutFits
<1>2. CASE Crossable(l, d) = {} /\ Crossings(l, d) # {}
  <2>1. PICK f : f = EdgeLeaf(l, Min(Crossings(l, d)), Opposite(Toward(d)), d)
    OBVIOUS
  <2>2. f \in LeafPaths(l)
    <3>1. Min(Crossings(l, d)) \in Crossings(l, d)
      BY <1>2, CrossingsAre
    <3> QED
      BY <1>0, <2>1, <3>1, EdgeLeafIs
  <2>3. FocusDirOf(l, d) = [l EXCEPT !.focus = f]
    BY <1>2, <2>1 DEF FocusDirOf
  <2> QED
    BY <2>2, <2>3, RefocusFits DEF LayoutFits
<1>3. CASE Crossable(l, d) = {} /\ Crossings(l, d) = {}
  BY <1>3 DEF FocusDirOf
<1> QED
  BY <1>1, <1>2, <1>3

-----------------------------------------------------------------------------
(***************************************************************************)
(* The strip.                                                              *)
(***************************************************************************)

(* Strips of the tabs T. *)
StripsOver(T) == [tabs : Seq(T), active : Nat \ {0}]

(* The unparked tabs are exactly the first n. *)
Boundary(tabs, n) ==
  /\ n \in 0 .. Len(tabs)
  /\ \A i \in 1 .. Len(tabs) : tabs[i].parked <=> i > n

(* The index of the tab shown names a tab, an unparked one if there is any. *)
ShownFits(w, n) ==
  Len(w.tabs) > 0 => w.active \in 1 .. Len(w.tabs) /\ (w.active <= n \/ n = 0)

Sound(w) == \E n \in Nat : Boundary(w.tabs, n) /\ ShownFits(w, n)

(* No session has a pane in two tabs. *)
Apart(tabs) ==
  \A i, j \in 1 .. Len(tabs) : i # j => HostedBy(tabs[i]) \cap HostedBy(tabs[j]) = {}

(* None of the sessions H has a pane in the strip. *)
HostsNone(tabs, H) == \A i \in 1 .. Len(tabs) : H \cap HostedBy(tabs[i]) = {}

-----------------------------------------------------------------------------
(***************************************************************************)
(* Taking an element out of a sequence and putting one in, by index.       *)
(***************************************************************************)

(* Taking out the element at i shifts every later one down. *)
LEMMA RemoveAtIs ==
  ASSUME NEW S, NEW s \in Seq(S), NEW i \in 1 .. Len(s)
  PROVE  /\ RemoveAt(s, i) \in Seq(S)
         /\ Len(RemoveAt(s, i)) = Len(s) - 1
         /\ \A j \in 1 .. Len(s) - 1 :
              RemoveAt(s, i)[j] = IF j < i THEN s[j] ELSE s[j + 1]
<1> DEFINE before == SubSeq(s, 1, i - 1)
           after == SubSeq(s, i + 1, Len(s))
<1>0. Len(s) \in Nat /\ \A j \in 1 .. Len(s) : s[j] \in S
  BY ElementOfSeq, LenProperties
<1>1. /\ before \in Seq(S)
      /\ Len(before) = i - 1
      /\ \A j \in 1 .. i - 1 : before[j] = s[j]
  <2>1. \A j \in 1 .. i - 1 : s[j] \in S
    BY <1>0
  <2>2. /\ before \in Seq(S)
        /\ Len(before) = IF 1 <= i - 1 THEN i - 1 - 1 + 1 ELSE 0
        /\ \A j \in 1 .. i - 1 - 1 + 1 : before[j] = s[1 + j - 1]
    BY <1>0, <2>1, SubSeqProperties
  <2> QED
    BY <1>0, <2>2
<1>2. /\ after \in Seq(S)
      /\ Len(after) = Len(s) - i
      /\ \A j \in 1 .. Len(s) - i : after[j] = s[i + j]
  <2>1. \A j \in i + 1 .. Len(s) : s[j] \in S
    BY <1>0
  <2>2. /\ after \in Seq(S)
        /\ Len(after) = IF i + 1 <= Len(s) THEN Len(s) - (i + 1) + 1 ELSE 0
        /\ \A j \in 1 .. Len(s) - (i + 1) + 1 : after[j] = s[(i + 1) + j - 1]
    BY <1>0, <2>1, SubSeqProperties
  <2> QED
    BY <1>0, <2>2
<1>3. /\ before \o after \in Seq(S)
      /\ Len(before \o after) = Len(before) + Len(after)
      /\ \A j \in 1 .. Len(before) + Len(after) :
           (before \o after)[j] = IF j <= Len(before) THEN before[j] ELSE after[j - Len(before)]
  BY <1>1, <1>2, ConcatProperties
<1> HIDE DEF before, after
<1>4. RemoveAt(s, i) = before \o after
  BY DEF RemoveAt, before, after
<1>5. ASSUME NEW j \in 1 .. Len(s) - 1
      PROVE  (before \o after)[j] = IF j < i THEN s[j] ELSE s[j + 1]
  <2>1. CASE j < i
    BY <1>0, <1>1, <1>2, <1>3, <2>1
  <2>2. CASE j >= i
    <3>1. j - (i - 1) \in 1 .. Len(s) - i /\ i + (j - (i - 1)) = j + 1
      BY <1>0, <2>2
    <3> QED
      BY <1>0, <1>1, <1>2, <1>3, <2>2, <3>1
  <2>3. j < i \/ j >= i
    BY <1>0
  <2> QED
    BY <2>1, <2>2, <2>3
<1>6. Len(before) + Len(after) = Len(s) - 1
  BY <1>0, <1>1, <1>2
<1> QED
  BY <1>3, <1>4, <1>5, <1>6

(* Putting e in at i shifts the element there and every later one up. *)
LEMMA InsertAtElement ==
  ASSUME NEW S, NEW s \in Seq(S), NEW i \in 1 .. Len(s) + 1, NEW e \in S,
         NEW k \in 1 .. Len(s) + 1
  PROVE  /\ InsertAt(s, i, e) \in Seq(S)
         /\ Len(InsertAt(s, i, e)) = Len(s) + 1
         /\ InsertAt(s, i, e)[k] = IF k < i THEN s[k] ELSE IF k = i THEN e ELSE s[k - 1]
<1> DEFINE before == SubSeq(s, 1, i - 1)
           after == SubSeq(s, i, Len(s))
           front == before \o <<e>>
<1>0. Len(s) \in Nat /\ \A j \in 1 .. Len(s) : s[j] \in S
  BY ElementOfSeq, LenProperties
<1>1. /\ before \in Seq(S)
      /\ Len(before) = i - 1
      /\ \A j \in 1 .. i - 1 : before[j] = s[j]
  <2>1. \A j \in 1 .. i - 1 : s[j] \in S
    BY <1>0
  <2>2. /\ before \in Seq(S)
        /\ Len(before) = IF 1 <= i - 1 THEN i - 1 - 1 + 1 ELSE 0
        /\ \A j \in 1 .. i - 1 - 1 + 1 : before[j] = s[1 + j - 1]
    BY <1>0, <2>1, SubSeqProperties
  <2> QED
    BY <1>0, <2>2
<1>2. /\ after \in Seq(S)
      /\ Len(after) = Len(s) - i + 1
      /\ \A j \in 1 .. Len(s) - i + 1 : after[j] = s[i + j - 1]
  <2>1. \A j \in i .. Len(s) : s[j] \in S
    BY <1>0
  <2>2. /\ after \in Seq(S)
        /\ Len(after) = IF i <= Len(s) THEN Len(s) - i + 1 ELSE 0
        /\ \A j \in 1 .. Len(s) - i + 1 : after[j] = s[i + j - 1]
    BY <1>0, <2>1, SubSeqProperties
  <2> QED
    BY <1>0, <2>2
<1>3. /\ front \in Seq(S)
      /\ Len(front) = i
      /\ \A j \in 1 .. i : front[j] = IF j < i THEN s[j] ELSE e
  <2>1. <<e>> \in Seq(S) /\ Len(<<e>>) = 1 /\ <<e>>[1] = e
    OBVIOUS
  <2>2. /\ front \in Seq(S)
        /\ Len(front) = Len(before) + Len(<<e>>)
        /\ \A j \in 1 .. Len(before) + Len(<<e>>) :
             front[j] = IF j <= Len(before) THEN before[j] ELSE <<e>>[j - Len(before)]
    BY <1>1, <2>1, ConcatProperties
  <2> HIDE DEF before, front
  <2> QED
    BY <1>0, <1>1, <2>1, <2>2
<1>4. /\ front \o after \in Seq(S)
      /\ Len(front \o after) = Len(front) + Len(after)
      /\ \A j \in 1 .. Len(front) + Len(after) :
           (front \o after)[j] = IF j <= Len(front) THEN front[j] ELSE after[j - Len(front)]
  BY <1>2, <1>3, ConcatProperties
<1>5. InsertAt(s, i, e) = front \o after
  BY DEF InsertAt
<1> HIDE DEF before, after, front
<1>6. ASSUME NEW j \in 1 .. Len(s) + 1
      PROVE  (front \o after)[j] = IF j < i THEN s[j] ELSE IF j = i THEN e ELSE s[j - 1]
  <2>1. CASE j <= i
    BY <1>0, <1>2, <1>3, <1>4, <2>1
  <2>2. CASE j > i
    <3>1. j - i \in 1 .. Len(s) - i + 1 /\ i + (j - i) - 1 = j - 1
      BY <1>0, <2>2
    <3> QED
      BY <1>0, <1>2, <1>3, <1>4, <2>2, <3>1
  <2>3. j <= i \/ j > i
    BY <1>0
  <2> QED
    BY <2>1, <2>2, <2>3
<1>7. Len(front) + Len(after) = Len(s) + 1
  BY <1>0, <1>2, <1>3
<1> QED
  BY <1>4, <1>5, <1>6, <1>7

(* The same, all elements at once. *)
LEMMA InsertAtIs ==
  ASSUME NEW S, NEW s \in Seq(S), NEW i \in 1 .. Len(s) + 1, NEW e \in S
  PROVE  /\ InsertAt(s, i, e) \in Seq(S)
         /\ Len(InsertAt(s, i, e)) = Len(s) + 1
         /\ InsertAt(s, i, e)[i] = e
         /\ \A j \in 1 .. i - 1 : InsertAt(s, i, e)[j] = s[j]
         /\ \A j \in i + 1 .. Len(s) + 1 : InsertAt(s, i, e)[j] = s[j - 1]
<1>1. Len(s) \in Nat
  OBVIOUS
<1>2. i \in 1 .. Len(s) + 1
  OBVIOUS
<1>3. /\ InsertAt(s, i, e) \in Seq(S)
      /\ Len(InsertAt(s, i, e)) = Len(s) + 1
      /\ InsertAt(s, i, e)[i] = e
  BY <1>1, <1>2, InsertAtElement
<1>4. ASSUME NEW j \in 1 .. i - 1 PROVE InsertAt(s, i, e)[j] = s[j]
  <2>1. j \in 1 .. Len(s) + 1 /\ j < i
    BY <1>1
  <2> QED
    BY <2>1, InsertAtElement
<1>5. ASSUME NEW j \in i + 1 .. Len(s) + 1 PROVE InsertAt(s, i, e)[j] = s[j - 1]
  <2>1. j \in 1 .. Len(s) + 1 /\ ~(j < i) /\ j # i
    BY <1>1
  <2> QED
    BY <2>1, InsertAtElement
<1> QED
  BY <1>3, <1>4, <1>5

(* The elements past the one inserted, one place further. *)
LEMMA InsertAtLater ==
  ASSUME NEW S, NEW s \in Seq(S), NEW i \in 1 .. Len(s) + 1, NEW e \in S,
         NEW j \in i + 1 .. Len(s) + 1
  PROVE  InsertAt(s, i, e)[j] = s[j - 1]
<1>1. j \in 1 .. Len(s) + 1 /\ ~(j < i) /\ j # i
  OBVIOUS
<1> QED
  BY <1>1, InsertAtElement

-----------------------------------------------------------------------------
(***************************************************************************)
(* The zone boundary.                                                      *)
(***************************************************************************)

(* The first parked tab is the one past the boundary: there is only one index
   the scan of the strip can stop at. *)
LEMMA FirstParkedIs ==
  ASSUME NEW S, NEW tabs \in Seq(S), NEW n \in Nat, Boundary(tabs, n)
  PROVE  FirstParked(tabs) = n + 1
<1> DEFINE P(m) == /\ \A i \in 1 .. m - 1 : ~tabs[i].parked
                   /\ m <= Len(tabs) => tabs[m].parked
<1>0. Len(tabs) \in Nat
  BY LenProperties
<1>1. n + 1 \in 1 .. Len(tabs) + 1 /\ P(n + 1)
  BY <1>0 DEF Boundary
<1>2. ASSUME NEW m \in 1 .. Len(tabs) + 1, P(m)
      PROVE  m = n + 1
  <2>1. ~(m < n + 1)
    BY <1>0, <1>2 DEF Boundary
  <2>2. ~(m > n + 1)
    <3>1. SUFFICES ASSUME m > n + 1 PROVE FALSE
      OBVIOUS
    <3>2. n + 1 \in 1 .. m - 1 /\ n + 1 \in 1 .. Len(tabs)
      BY <1>0, <3>1
    <3> QED
      BY <1>2, <3>2 DEF Boundary
  <2> QED
    BY <1>0, <2>1, <2>2
<1> QED
  BY <1>1, <1>2 DEF FirstParked

(* The fallback of a slot is a tab, on the unparked side if that has any. *)
LEMMA UnparkedFallbackIs ==
  ASSUME NEW S, NEW tabs \in Seq(S), NEW n \in Nat, Boundary(tabs, n),
         NEW slot \in Nat \ {0}
  PROVE  /\ UnparkedFallback(tabs, slot) \in Nat \ {0}
         /\ Len(tabs) > 0 => /\ UnparkedFallback(tabs, slot) \in 1 .. Len(tabs)
                             /\ UnparkedFallback(tabs, slot) <= n \/ n = 0
<1>1. Len(tabs) \in Nat /\ FirstParked(tabs) = n + 1
  BY LenProperties, FirstParkedIs
<1> QED
  BY <1>1 DEF UnparkedFallback, Boundary

-----------------------------------------------------------------------------
(***************************************************************************)
(* Opening and closing a tab.                                              *)
(***************************************************************************)

(* Putting in, right before the parked zone, an unparked tab that hosts nothing
   hosted yet moves the boundary past it. *)
LEMMA InsertBeforeParked ==
  ASSUME NEW T, NEW tabs \in Seq(T), NEW at \in 1 .. Len(tabs) + 1, NEW tab \in T
  PROVE  /\ InsertAt(tabs, at, tab) \in Seq(T)
         /\ Len(InsertAt(tabs, at, tab)) = Len(tabs) + 1
         /\ Boundary(tabs, at - 1) /\ ~tab.parked => Boundary(InsertAt(tabs, at, tab), at)
         /\ Apart(tabs) /\ HostsNone(tabs, HostedBy(tab)) => Apart(InsertAt(tabs, at, tab))
<1> DEFINE new == InsertAt(tabs, at, tab)
<1>1. Len(tabs) \in Nat
  BY LenProperties
<1>2. /\ new \in Seq(T)
      /\ Len(new) = Len(tabs) + 1
      /\ new[at] = tab
      /\ \A j \in 1 .. at - 1 : new[j] = tabs[j]
      /\ \A j \in at + 1 .. Len(tabs) + 1 : new[j] = tabs[j - 1]
  <2>1. InsertAt(tabs, at, tab) \in Seq(T)
    BY InsertAtIs
  <2>2. Len(InsertAt(tabs, at, tab)) = Len(tabs) + 1
    BY InsertAtIs
  <2>3. InsertAt(tabs, at, tab)[at] = tab
    BY InsertAtIs
  <2>4. \A j \in 1 .. at - 1 : InsertAt(tabs, at, tab)[j] = tabs[j]
    BY InsertAtIs
  <2>5. \A j \in at + 1 .. Len(tabs) + 1 : InsertAt(tabs, at, tab)[j] = tabs[j - 1]
    BY InsertAtIs
  <2> QED
    BY <2>1, <2>2, <2>3, <2>4, <2>5
<1> HIDE DEF new
<1>3. ASSUME Boundary(tabs, at - 1), ~tab.parked, NEW j \in 1 .. Len(new)
      PROVE  new[j].parked <=> j > at
  <2>1. CASE j < at
    <3>1. j \in 1 .. Len(tabs) /\ ~(j > at - 1) /\ new[j] = tabs[j]
      BY <1>1, <1>2, <2>1
    <3> QED
      BY <1>1, <1>3, <2>1, <3>1 DEF Boundary
  <2>2. CASE j = at
    BY <1>2, <1>3, <2>2
  <2>3. CASE j > at
    <3>1. j - 1 \in 1 .. Len(tabs) /\ j - 1 > at - 1 /\ new[j] = tabs[j - 1]
      BY <1>1, <1>2, <2>3
    <3> QED
      BY <1>3, <2>3, <3>1 DEF Boundary
  <2>4. j < at \/ j = at \/ j > at
    BY <1>1, <1>2
  <2> QED
    BY <2>1, <2>2, <2>3, <2>4
<1>4. Boundary(tabs, at - 1) /\ ~tab.parked => Boundary(new, at)
  BY <1>1, <1>2, <1>3 DEF Boundary
<1>5. ASSUME Apart(tabs), HostsNone(tabs, HostedBy(tab)),
             NEW i \in 1 .. Len(new), NEW j \in 1 .. Len(new), i # j
      PROVE  HostedBy(new[i]) \cap HostedBy(new[j]) = {}
  <2> DEFINE Old(k) == IF k < at THEN k ELSE k - 1
  <2>1. \A k \in 1 .. Len(new) : k # at =>
          Old(k) \in 1 .. Len(tabs) /\ new[k] = tabs[Old(k)]
    BY <1>1, <1>2
  <2>2. i # at /\ j # at => Old(i) # Old(j)
    BY <1>1, <1>2, <1>5
  <2> HIDE DEF Old
  <2>3. CASE i = at
    BY <1>2, <1>5, <2>1, <2>3 DEF HostsNone
  <2>4. CASE j = at
    BY <1>2, <1>5, <2>1, <2>4 DEF HostsNone
  <2>5. CASE i # at /\ j # at
    BY <1>5, <2>1, <2>2, <2>5 DEF Apart
  <2> QED
    BY <2>3, <2>4, <2>5
<1>6. Apart(tabs) /\ HostsNone(tabs, HostedBy(tab)) => Apart(new)
  BY <1>5 DEF Apart
<1> QED
  BY <1>2, <1>4, <1>6 DEF new

(* A tab opened leaves a sound strip, shown or not. *)
LEMMA InsertTabIs ==
  ASSUME NEW T, NEW w \in StripsOver(T), Sound(w), Apart(w.tabs),
         NEW tab \in T, ~tab.parked, HostsNone(w.tabs, HostedBy(tab))
  PROVE  /\ InsertTab(w, tab) \in StripsOver(T)
         /\ FirstParked(w.tabs) \in 1 .. Len(InsertTab(w, tab).tabs)
         /\ Boundary(InsertTab(w, tab).tabs, FirstParked(w.tabs))
         /\ Sound(InsertTab(w, tab))
         /\ Apart(InsertTab(w, tab).tabs)
<1> DEFINE tabs == w.tabs
           at == FirstParked(tabs)
           new == InsertAt(tabs, at, tab)
           act == IF w.active >= at THEN at ELSE w.active
<1>1. PICK n \in Nat : Boundary(tabs, n) /\ ShownFits(w, n)
  BY DEF Sound
<1>2. tabs \in Seq(T) /\ w.active \in Nat \ {0} /\ Len(tabs) \in Nat
  BY LenProperties DEF StripsOver
<1>3. at = n + 1 /\ at - 1 = n /\ at \in 1 .. Len(tabs) + 1
  <2>1. FirstParked(tabs) = n + 1
    BY <1>1, <1>2, FirstParkedIs
  <2>2. n \in 0 .. Len(tabs)
    BY <1>1 DEF Boundary
  <2> QED
    BY <1>2, <2>1, <2>2
<1>4. InsertTab(w, tab) = [tabs |-> new, active |-> act]
  BY DEF InsertTab
<1> HIDE DEF tabs, at
<1>5. new \in Seq(T) /\ Len(new) = Len(tabs) + 1
  <2>1. InsertAt(tabs, at, tab) \in Seq(T)
    BY <1>2, <1>3, InsertBeforeParked
  <2>2. Len(InsertAt(tabs, at, tab)) = Len(tabs) + 1
    BY <1>2, <1>3, InsertBeforeParked
  <2> QED
    BY <2>1, <2>2
<1>6. Boundary(new, at) /\ Apart(new)
  <2>1. Boundary(tabs, at - 1) /\ Apart(tabs) /\ HostsNone(tabs, HostedBy(tab))
    BY <1>1, <1>3 DEF tabs
  <2>2. Boundary(new, at)
    BY <1>2, <1>3, <2>1, InsertBeforeParked
  <2>3. Apart(new)
    BY <1>2, <1>3, <2>1, InsertBeforeParked
  <2> QED
    BY <2>2, <2>3
<1>7. act \in 1 .. at
  BY <1>2, <1>3
<1> HIDE DEF new, act
<1>8. at \in 1 .. Len(new)
  BY <1>2, <1>3, <1>5
<1>9. InsertTab(w, tab) \in StripsOver(T)
  BY <1>3, <1>4, <1>5, <1>7 DEF StripsOver
<1>10. Sound(InsertTab(w, tab))
  BY <1>4, <1>6, <1>7, <1>8 DEF Sound, ShownFits
<1> QED
  BY <1>4, <1>6, <1>8, <1>9, <1>10 DEF at, tabs

(* Closing a tab leaves a sound strip, whichever tab is shown. *)
LEMMA CloseAtIs ==
  ASSUME NEW T, NEW w \in StripsOver(T), Sound(w), Apart(w.tabs),
         NEW i \in 1 .. Len(w.tabs)
  PROVE  /\ CloseAt(w, i) \in StripsOver(T)
         /\ Sound(CloseAt(w, i))
         /\ Apart(CloseAt(w, i).tabs)
<1>1. PICK n \in Nat : Boundary(w.tabs, n) /\ ShownFits(w, n)
  BY DEF Sound
<1>2. w.tabs \in Seq(T) /\ w.active \in Nat \ {0} /\ Len(w.tabs) \in Nat
  BY LenProperties DEF StripsOver
<1> DEFINE new == RemoveAt(w.tabs, i)
           act == IF w.active = i THEN UnparkedFallback(new, i)
                  ELSE IF w.active > i THEN w.active - 1 ELSE w.active
           m == IF i <= n THEN n - 1 ELSE n
<1>3. CloseAt(w, i) = [tabs |-> new, active |-> act]
  BY DEF CloseAt
<1>4. /\ new \in Seq(T)
      /\ Len(new) = Len(w.tabs) - 1
      /\ \A j \in 1 .. Len(w.tabs) - 1 : new[j] = IF j < i THEN w.tabs[j] ELSE w.tabs[j + 1]
  BY <1>2, RemoveAtIs
<1> HIDE DEF new
<1>5. m \in Nat /\ m <= Len(w.tabs) - 1
  BY <1>1, <1>2 DEF Boundary
<1>6. Boundary(new, m)
  <2>1. ASSUME NEW j \in 1 .. Len(new)
        PROVE  new[j].parked <=> j > m
    <3>1. CASE j < i
      BY <1>1, <1>2, <1>4, <3>1 DEF Boundary
    <3>2. CASE j >= i
      <4>1. j + 1 \in 1 .. Len(w.tabs) /\ new[j] = w.tabs[j + 1]
        BY <1>2, <1>4, <3>2
      <4> QED
        BY <1>1, <1>2, <3>2, <4>1 DEF Boundary
    <3>3. j < i \/ j >= i
      BY <1>2, <1>4
    <3> QED
      BY <3>1, <3>2, <3>3
  <2> QED
    BY <1>2, <1>4, <1>5, <2>1 DEF Boundary
<1>7. /\ UnparkedFallback(new, i) \in Nat \ {0}
      /\ Len(new) > 0 => /\ UnparkedFallback(new, i) \in 1 .. Len(new)
                         /\ UnparkedFallback(new, i) <= m \/ m = 0
  <2>1. i \in Nat \ {0}
    BY <1>2
  <2> HIDE DEF m
  <2> QED
    BY <1>4, <1>5, <1>6, <2>1, UnparkedFallbackIs
<1>8. w.active \in 1 .. Len(w.tabs) /\ (w.active <= n \/ n = 0)
  BY <1>1, <1>2 DEF ShownFits
<1>9. act \in Nat \ {0} /\ (Len(new) > 0 => act \in 1 .. Len(new) /\ (act <= m \/ m = 0))
  <2>1. CASE w.active < i
    BY <1>1, <1>2, <1>4, <1>8, <2>1
  <2>2. CASE w.active = i
    BY <1>7, <2>2
  <2>3. CASE w.active > i
    BY <1>1, <1>2, <1>4, <1>8, <2>3
  <2> QED
    BY <1>2, <2>1, <2>2, <2>3
<1> HIDE DEF act, m
<1>10. Apart(new)
  <2> SUFFICES ASSUME NEW j \in 1 .. Len(new), NEW k \in 1 .. Len(new), j # k
               PROVE  HostedBy(new[j]) \cap HostedBy(new[k]) = {}
    BY DEF Apart
  <2> DEFINE Old(h) == IF h < i THEN h ELSE h + 1
  <2>1. \A h \in 1 .. Len(new) : Old(h) \in 1 .. Len(w.tabs) /\ new[h] = w.tabs[Old(h)]
    BY <1>2, <1>4
  <2>2. Old(j) # Old(k)
    BY <1>2, <1>4
  <2> HIDE DEF Old
  <2> QED
    BY <2>1, <2>2 DEF Apart
<1> QED
  BY <1>3, <1>4, <1>5, <1>6, <1>9, <1>10 DEF StripsOver, Sound, ShownFits

-----------------------------------------------------------------------------
(***************************************************************************)
(* Moving a tab.                                                           *)
(***************************************************************************)

(* Where the tab at j of the new strip was in the old one, for j # to. *)
Origin(j, from, to) ==
  LET removed == IF j > to THEN j - 1 ELSE j
  IN IF removed >= from THEN removed + 1 ELSE removed

(* The other tabs keep their places relative to one another. *)
LEMMA RelocatedTabs ==
  ASSUME NEW T, NEW tabs \in Seq(T), NEW tab \in T,
         NEW from \in 1 .. Len(tabs), NEW to \in 1 .. Len(tabs)
  PROVE  /\ InsertAt(RemoveAt(tabs, from), to, tab) \in Seq(T)
         /\ Len(InsertAt(RemoveAt(tabs, from), to, tab)) = Len(tabs)
         /\ InsertAt(RemoveAt(tabs, from), to, tab)[to] = tab
         /\ \A j \in 1 .. Len(tabs) : j # to =>
              /\ Origin(j, from, to) \in 1 .. Len(tabs)
              /\ Origin(j, from, to) # from
              /\ InsertAt(RemoveAt(tabs, from), to, tab)[j] = tabs[Origin(j, from, to)]
<1>1. Len(tabs) \in Nat
  BY LenProperties
<1>2. PICK rest : rest = RemoveAt(tabs, from)
  OBVIOUS
<1>3. rest \in Seq(T)
  BY <1>2, RemoveAtIs
<1>4. Len(rest) = Len(tabs) - 1
  BY <1>2, RemoveAtIs
<1>5. \A j \in 1 .. Len(tabs) - 1 : rest[j] = IF j < from THEN tabs[j] ELSE tabs[j + 1]
  BY <1>2, RemoveAtIs
<1>6. to \in 1 .. Len(rest) + 1
  BY <1>1, <1>4
<1>7. InsertAt(rest, to, tab) \in Seq(T)
  BY <1>3, <1>6, InsertAtIs
<1>8. Len(InsertAt(rest, to, tab)) = Len(rest) + 1
  BY <1>3, <1>6, InsertAtIs
<1>9. InsertAt(rest, to, tab)[to] = tab
  BY <1>3, <1>6, InsertAtIs
<1>10. \A j \in 1 .. to - 1 : InsertAt(rest, to, tab)[j] = rest[j]
  BY <1>3, <1>6, InsertAtIs
<1>11. \A j \in to + 1 .. Len(rest) + 1 : InsertAt(rest, to, tab)[j] = rest[j - 1]
  BY <1>3, <1>6, InsertAtIs
<1>12. ASSUME NEW j \in 1 .. Len(tabs), j # to
       PROVE  /\ Origin(j, from, to) \in 1 .. Len(tabs)
              /\ Origin(j, from, to) # from
              /\ InsertAt(rest, to, tab)[j] = tabs[Origin(j, from, to)]
  <2>1. CASE j < to
    <3>1. j \in 1 .. to - 1 /\ j \in 1 .. Len(tabs) - 1
      BY <1>1, <2>1
    <3>2. InsertAt(rest, to, tab)[j] = IF j < from THEN tabs[j] ELSE tabs[j + 1]
      BY <1>5, <1>10, <3>1
    <3>3. Origin(j, from, to) = IF j >= from THEN j + 1 ELSE j
      BY <2>1 DEF Origin
    <3> QED
      BY <1>1, <3>1, <3>2, <3>3
  <2>2. CASE j > to
    <3>1. j \in to + 1 .. Len(rest) + 1 /\ j - 1 \in 1 .. Len(tabs) - 1
      BY <1>1, <1>4, <2>2
    <3>2. InsertAt(rest, to, tab)[j] = IF j - 1 < from THEN tabs[j - 1] ELSE tabs[j - 1 + 1]
      BY <1>5, <1>11, <3>1
    <3>3. Origin(j, from, to) = IF j - 1 >= from THEN j - 1 + 1 ELSE j - 1
      BY <2>2 DEF Origin
    <3> QED
      BY <1>1, <3>1, <3>2, <3>3
  <2>3. j < to \/ j > to
    BY <1>1, <1>12
  <2> QED
    BY <2>1, <2>2, <2>3
<1>13. Len(rest) + 1 = Len(tabs)
  BY <1>1, <1>4
<1> QED
  BY <1>2, <1>7, <1>8, <1>9, <1>12, <1>13

(* A tab moved on its side of the boundary, or across it together with the
   boundary, leaves the two zones apart. *)
LEMMA RelocatedBoundary ==
  ASSUME NEW T, NEW tabs \in Seq(T), NEW tab \in T,
         NEW from \in 1 .. Len(tabs), NEW to \in 1 .. Len(tabs),
         NEW n \in Nat, Boundary(tabs, n), NEW m \in 0 .. Len(tabs), tab.parked <=> to > m,
         m = (IF from <= n THEN n - 1 ELSE n) + (IF to <= m THEN 1 ELSE 0)
  PROVE  Boundary(InsertAt(RemoveAt(tabs, from), to, tab), m)
<1>1. Len(tabs) \in Nat
  BY LenProperties
<1>2. PICK new : new = InsertAt(RemoveAt(tabs, from), to, tab)
  OBVIOUS
<1>3. Len(new) = Len(tabs)
  BY <1>2, RelocatedTabs
<1>4. new[to] = tab
  BY <1>2, RelocatedTabs
<1>5. \A j \in 1 .. Len(tabs) : j # to =>
        Origin(j, from, to) \in 1 .. Len(tabs) /\ new[j] = tabs[Origin(j, from, to)]
  BY <1>2, RelocatedTabs
<1>6. ASSUME NEW j \in 1 .. Len(tabs)
      PROVE  new[j].parked <=> j > m
  <2>1. CASE j = to
    BY <1>4, <2>1
  <2>2. CASE j # to
    <3>1. new[j].parked <=> Origin(j, from, to) > n
      BY <1>5, <2>2 DEF Boundary
    <3>2. Origin(j, from, to) > n <=> j > m
      BY <1>1, <2>2 DEF Origin
    <3> QED
      BY <3>1, <3>2
  <2> QED
    BY <2>1, <2>2
<1> QED
  BY <1>1, <1>2, <1>3, <1>6 DEF Boundary

(* Moving a tab duplicates none. *)
LEMMA RelocatedApart ==
  ASSUME NEW T, NEW tabs \in Seq(T), NEW tab \in T,
         NEW from \in 1 .. Len(tabs), NEW to \in 1 .. Len(tabs),
         Apart(tabs), HostedBy(tab) = HostedBy(tabs[from])
  PROVE  Apart(InsertAt(RemoveAt(tabs, from), to, tab))
<1>1. Len(tabs) \in Nat
  BY LenProperties
<1>2. PICK new : new = InsertAt(RemoveAt(tabs, from), to, tab)
  OBVIOUS
<1>3. Len(new) = Len(tabs)
  BY <1>2, RelocatedTabs
<1> DEFINE Old(k) == IF k = to THEN from ELSE Origin(k, from, to)
<1>4. \A k \in 1 .. Len(tabs) :
        Old(k) \in 1 .. Len(tabs) /\ HostedBy(new[k]) = HostedBy(tabs[Old(k)])
  <2>1. new[to] = tab
    BY <1>2, RelocatedTabs
  <2>2. \A j \in 1 .. Len(tabs) : j # to =>
          Origin(j, from, to) \in 1 .. Len(tabs) /\ new[j] = tabs[Origin(j, from, to)]
    BY <1>2, RelocatedTabs
  <2> QED
    BY <2>1, <2>2
<1>5. ASSUME NEW i \in 1 .. Len(tabs), NEW j \in 1 .. Len(tabs), i # j
      PROVE  Old(i) # Old(j)
  BY <1>1, <1>5 DEF Origin
<1> HIDE DEF Old
<1>6. ASSUME NEW i \in 1 .. Len(tabs), NEW j \in 1 .. Len(tabs), i # j
      PROVE  HostedBy(new[i]) \cap HostedBy(new[j]) = {}
  BY <1>4, <1>5, <1>6 DEF Apart
<1> QED
  BY <1>2, <1>3, <1>6 DEF Apart

(* The tabs T are closed under parking and unparking. *)
Reparkable(T) ==
  \A t \in T, p \in BOOLEAN :
    LET u == [t EXCEPT !.parked = p]
    IN u \in T /\ u.parked = p /\ HostedBy(u) = HostedBy(t)

(* The active index lands on a tab, on the unparked side if there is one. *)
LEMMA RelocateIs ==
  ASSUME NEW T, Reparkable(T), NEW w \in StripsOver(T), Apart(w.tabs),
         NEW n \in Nat, Boundary(w.tabs, n), ShownFits(w, n),
         NEW from \in 1 .. Len(w.tabs), NEW to \in 1 .. Len(w.tabs), NEW parked \in BOOLEAN,
         NEW m \in 0 .. Len(w.tabs), parked <=> to > m,
         m = (IF from <= n THEN n - 1 ELSE n) + (IF to <= m THEN 1 ELSE 0)
  PROVE  /\ Relocate(w, from, to, parked) \in StripsOver(T)
         /\ Len(Relocate(w, from, to, parked).tabs) = Len(w.tabs)
         /\ Boundary(Relocate(w, from, to, parked).tabs, m)
         /\ ShownFits(Relocate(w, from, to, parked), m)
         /\ Apart(Relocate(w, from, to, parked).tabs)
<1>1. PICK tabs : tabs = w.tabs
  OBVIOUS
<1>2. PICK tab : tab = [tabs[from] EXCEPT !.parked = parked]
  OBVIOUS
<1>3. PICK new : new = InsertAt(RemoveAt(tabs, from), to, tab)
  OBVIOUS
<1>4. tabs \in Seq(T) /\ Len(tabs) \in Nat /\ w.active \in 1 .. Len(tabs)
  BY <1>1, LenProperties DEF StripsOver, ShownFits
<1>5. tabs[from] \in T
  BY <1>1, <1>4, ElementOfSeq
<1>6. tab \in T /\ tab.parked = parked /\ HostedBy(tab) = HostedBy(tabs[from])
  BY <1>2, <1>5 DEF Reparkable
<1>7. new \in Seq(T)
  BY <1>1, <1>3, <1>4, <1>6, RelocatedTabs
<1>8. Len(new) = Len(tabs)
  BY <1>1, <1>3, <1>4, <1>6, RelocatedTabs
<1>9. Boundary(new, m)
  <2>1. tab.parked <=> to > m
    BY <1>6
  <2> QED
    BY <1>1, <1>3, <1>4, <1>6, <2>1, RelocatedBoundary
<1>10. Apart(new)
  BY <1>1, <1>3, <1>4, <1>6, RelocatedApart
<1>11. PICK shifted : shifted = ShiftIndex(w.active, from, to)
  OBVIOUS
<1>12. shifted \in 1 .. Len(tabs)
  BY <1>1, <1>4, <1>11 DEF ShiftIndex
<1>13. PICK act : act = IF new[shifted].parked /\ FirstParked(new) > 1
                        THEN UnparkedFallback(new, from) ELSE shifted
  OBVIOUS
<1>14. Relocate(w, from, to, parked) = [tabs |-> new, active |-> act]
  BY <1>1, <1>2, <1>3, <1>11, <1>13 DEF Relocate
<1>15. FirstParked(new) = m + 1
  BY <1>4, <1>7, <1>9, FirstParkedIs DEF Boundary
<1>16. act \in 1 .. Len(tabs) /\ (act <= m \/ m = 0)
  <2>1. CASE new[shifted].parked /\ FirstParked(new) > 1
    <3>1. m \in Nat /\ from \in Nat \ {0}
      BY <1>1, <1>4
    <3>2. Len(new) > 0
      BY <1>1, <1>4, <1>8
    <3>3. UnparkedFallback(new, from) \in 1 .. Len(new)
      BY <1>7, <1>9, <3>1, <3>2, UnparkedFallbackIs
    <3>4. UnparkedFallback(new, from) <= m \/ m = 0
      BY <1>7, <1>9, <3>1, <3>2, UnparkedFallbackIs
    <3> QED
      BY <1>8, <1>13, <2>1, <3>3, <3>4
  <2>2. CASE ~new[shifted].parked
    <3>1. ~(shifted > m)
      BY <1>8, <1>9, <1>12, <2>2 DEF Boundary
    <3> QED
      BY <1>4, <1>12, <1>13, <2>2, <3>1
  <2>3. CASE ~(FirstParked(new) > 1)
    BY <1>4, <1>12, <1>13, <1>15, <2>3
  <2> QED
    BY <2>1, <2>2, <2>3
<1>17. Relocate(w, from, to, parked) \in StripsOver(T)
  BY <1>4, <1>7, <1>14, <1>16 DEF StripsOver
<1>18. ShownFits(Relocate(w, from, to, parked), m)
  BY <1>8, <1>14, <1>16 DEF ShownFits
<1> QED
  BY <1>1, <1>8, <1>9, <1>10, <1>14, <1>17, <1>18

(* Unparking ends with the tab last of the unparked ones. *)
LEMMA UnparkIs ==
  ASSUME NEW T, Reparkable(T), NEW w \in StripsOver(T), Apart(w.tabs),
         NEW n \in Nat, Boundary(w.tabs, n), ShownFits(w, n),
         NEW i \in 1 .. Len(w.tabs), w.tabs[i].parked
  PROVE  /\ Unpark(w, i) \in StripsOver(T)
         /\ n + 1 \in 1 .. Len(Unpark(w, i).tabs)
         /\ Boundary(Unpark(w, i).tabs, n + 1)
         /\ ShownFits(Unpark(w, i), n + 1)
         /\ Apart(Unpark(w, i).tabs)
<1>1. w.tabs \in Seq(T) /\ Len(w.tabs) \in Nat
  BY LenProperties DEF StripsOver
<1>2. i > n /\ n < Len(w.tabs)
  BY <1>1 DEF Boundary
<1>3. PICK m : m = n + 1
  OBVIOUS
<1>4. Unpark(w, i) = Relocate(w, i, m, FALSE)
  BY <1>1, <1>3, FirstParkedIs DEF Unpark
<1>5. /\ m \in 0 .. Len(w.tabs) /\ m \in 1 .. Len(w.tabs) /\ FALSE \in BOOLEAN
      /\ FALSE <=> m > m
      /\ m = (IF i <= n THEN n - 1 ELSE n) + (IF m <= m THEN 1 ELSE 0)
  BY <1>1, <1>2, <1>3
<1>6. Relocate(w, i, m, FALSE) \in StripsOver(T)
  BY <1>5, RelocateIs
<1>7. Len(Relocate(w, i, m, FALSE).tabs) = Len(w.tabs)
  BY <1>5, RelocateIs
<1>8. Boundary(Relocate(w, i, m, FALSE).tabs, m)
  BY <1>5, RelocateIs
<1>9. ShownFits(Relocate(w, i, m, FALSE), m)
  BY <1>5, RelocateIs
<1>10. Apart(Relocate(w, i, m, FALSE).tabs)
  BY <1>5, RelocateIs
<1> QED
  BY <1>3, <1>4, <1>5, <1>6, <1>7, <1>8, <1>9, <1>10

(* Parking ends with the tab first of the parked ones. *)
LEMMA ParkIs ==
  ASSUME NEW T, Reparkable(T), NEW w \in StripsOver(T), Apart(w.tabs),
         NEW n \in Nat, Boundary(w.tabs, n), ShownFits(w, n),
         NEW i \in 1 .. Len(w.tabs), ~w.tabs[i].parked
  PROVE  /\ Park(w, i) \in StripsOver(T)
         /\ Sound(Park(w, i))
         /\ Apart(Park(w, i).tabs)
<1>1. w.tabs \in Seq(T) /\ Len(w.tabs) \in Nat
  BY LenProperties DEF StripsOver
<1>2. i <= n /\ n <= Len(w.tabs)
  BY <1>1 DEF Boundary
<1>3. PICK m : m = n - 1
  OBVIOUS
<1>4. Park(w, i) = Relocate(w, i, n, TRUE)
  <2>1. FirstParked(w.tabs) = n + 1
    BY <1>1, FirstParkedIs
  <2>2. FirstParked(w.tabs) - 1 = n
    BY <2>1
  <2> QED
    BY <2>2 DEF Park
<1>5. /\ m \in 0 .. Len(w.tabs) /\ n \in 1 .. Len(w.tabs) /\ TRUE \in BOOLEAN
      /\ TRUE <=> n > m
      /\ m = (IF i <= n THEN n - 1 ELSE n) + (IF n <= m THEN 1 ELSE 0)
  BY <1>1, <1>2, <1>3
<1>6. Relocate(w, i, n, TRUE) \in StripsOver(T)
  BY <1>5, RelocateIs
<1>7. Boundary(Relocate(w, i, n, TRUE).tabs, m)
  BY <1>5, RelocateIs
<1>8. ShownFits(Relocate(w, i, n, TRUE), m)
  BY <1>5, RelocateIs
<1>9. Apart(Relocate(w, i, n, TRUE).tabs)
  BY <1>5, RelocateIs
<1>10. m \in Nat
  BY <1>1, <1>5
<1> QED
  BY <1>4, <1>6, <1>7, <1>8, <1>9, <1>10 DEF Sound

(* Toggling the parked flag of a tab leaves a sound strip. *)
LEMMA ToggleParkedIs ==
  ASSUME NEW T, Reparkable(T), NEW w \in StripsOver(T), Sound(w), Apart(w.tabs),
         NEW i \in 1 .. Len(w.tabs)
  PROVE  /\ ToggleParked(w, i) \in StripsOver(T)
         /\ Sound(ToggleParked(w, i))
         /\ Apart(ToggleParked(w, i).tabs)
<1>1. PICK n \in Nat : Boundary(w.tabs, n) /\ ShownFits(w, n)
  BY DEF Sound
<1>2. CASE w.tabs[i].parked
  <2>1. ToggleParked(w, i) = Unpark(w, i)
    BY <1>2 DEF ToggleParked
  <2>2. Unpark(w, i) \in StripsOver(T)
    BY <1>1, <1>2, UnparkIs
  <2>3. Boundary(Unpark(w, i).tabs, n + 1) /\ ShownFits(Unpark(w, i), n + 1)
    BY <1>1, <1>2, UnparkIs
  <2>4. Apart(Unpark(w, i).tabs)
    BY <1>1, <1>2, UnparkIs
  <2>5. n + 1 \in Nat
    OBVIOUS
  <2> QED
    BY <2>1, <2>2, <2>3, <2>4, <2>5 DEF Sound
<1>3. CASE ~w.tabs[i].parked
  <2>1. ToggleParked(w, i) = Park(w, i)
    BY <1>3 DEF ToggleParked
  <2> QED
    BY <1>1, <1>3, <2>1, ParkIs
<1> QED
  BY <1>2, <1>3

(* Activating a tab shows it, brought back among the unparked ones. *)
LEMMA ActivateIs ==
  ASSUME NEW T, Reparkable(T), NEW w \in StripsOver(T), Sound(w), Apart(w.tabs),
         NEW i \in 1 .. Len(w.tabs)
  PROVE  /\ Activate(w, i) \in StripsOver(T)
         /\ Activate(w, i).active \in 1 .. Len(Activate(w, i).tabs)
         /\ Sound(Activate(w, i))
         /\ Apart(Activate(w, i).tabs)
<1>1. PICK n \in Nat : Boundary(w.tabs, n) /\ ShownFits(w, n)
  BY DEF Sound
<1>2. w.tabs \in Seq(T) /\ Len(w.tabs) \in Nat
  BY LenProperties DEF StripsOver
<1>3. CASE w.tabs[i].parked
  <2>1. PICK u : u = Unpark(w, i)
    OBVIOUS
  <2>2. u \in StripsOver(T)
    BY <1>1, <1>3, <2>1, UnparkIs
  <2>3. Boundary(u.tabs, n + 1)
    BY <1>1, <1>3, <2>1, UnparkIs
  <2>4. n + 1 \in 1 .. Len(u.tabs)
    BY <1>1, <1>3, <2>1, UnparkIs
  <2>5. Apart(u.tabs)
    BY <1>1, <1>3, <2>1, UnparkIs
  <2>6. FirstParked(w.tabs) = n + 1
    BY <1>1, <1>2, FirstParkedIs
  <2>7. Activate(w, i) = [u EXCEPT !.active = n + 1]
    BY <1>3, <2>1, <2>6 DEF Activate
  <2>8. Activate(w, i) = [tabs |-> u.tabs, active |-> n + 1]
    BY <2>2, <2>7 DEF StripsOver
  <2>9. n + 1 \in Nat
    OBVIOUS
  <2> QED
    BY <2>2, <2>3, <2>4, <2>5, <2>8, <2>9 DEF Sound, ShownFits, StripsOver
<1>4. CASE ~w.tabs[i].parked
  <2>1. Activate(w, i) = [tabs |-> w.tabs, active |-> i]
    BY <1>4 DEF Activate, StripsOver
  <2>2. i <= n
    BY <1>1, <1>2, <1>4 DEF Boundary
  <2> QED
    BY <1>1, <1>2, <2>1, <2>2 DEF Sound, ShownFits, StripsOver
<1> QED
  BY <1>3, <1>4

(* A move within a zone leaves the boundary where it is; one across it takes
   the boundary along, and so does one onto it from the other zone. *)
LEMMA MoveIs ==
  ASSUME NEW T, Reparkable(T), NEW w \in StripsOver(T), Sound(w), Apart(w.tabs),
         NEW from \in 1 .. Len(w.tabs), NEW to \in 1 .. Len(w.tabs)
  PROVE  /\ Move(w, from, to) \in StripsOver(T)
         /\ Sound(Move(w, from, to))
         /\ Apart(Move(w, from, to).tabs)
<1>1. PICK n \in Nat : Boundary(w.tabs, n) /\ ShownFits(w, n)
  BY DEF Sound
<1>2. w.tabs \in Seq(T) /\ Len(w.tabs) \in Nat
  BY LenProperties DEF StripsOver
<1>3. n <= Len(w.tabs) /\ (w.tabs[from].parked <=> from > n)
  BY <1>1 DEF Boundary
<1>4. FirstParked(w.tabs) = n + 1
  BY <1>1, <1>2, FirstParkedIs
<1>5. CASE from = to
  BY <1>5 DEF Move
<1>6. CASE from # to
  <2>1. PICK parked \in BOOLEAN : parked <=> to > n
    <3>1. CASE to > n
      BY <3>1, TRUE \in BOOLEAN
    <3>2. CASE ~(to > n)
      BY <3>2, FALSE \in BOOLEAN
    <3> QED
      BY <3>1, <3>2
  <2>2. PICK m : m = IF to > n THEN (IF from > n THEN n ELSE n - 1)
                               ELSE (IF from > n THEN n + 1 ELSE n)
    OBVIOUS
  <2>3. Move(w, from, to) = Relocate(w, from, to, parked)
    <3>1. CASE w.tabs[from].parked
      <4>1. (to > n + 1 \/ (to = n + 1 /\ w.tabs[from].parked)) <=> to > n
        BY <1>2, <3>1
      <4>2. (to > n + 1 \/ (to = n + 1 /\ w.tabs[from].parked)) = parked
        BY <2>1, <4>1
      <4> QED
        BY <1>4, <1>6, <3>1, <4>2 DEF Move
    <3>2. CASE ~w.tabs[from].parked
      <4>1. (to > n \/ (to = n /\ w.tabs[from].parked)) <=> to > n
        BY <1>2, <3>2
      <4>2. (to > n \/ (to = n /\ w.tabs[from].parked)) = parked
        BY <2>1, <4>1
      <4>3. n + 1 - 1 = n
        OBVIOUS
      <4> QED
        BY <1>4, <1>6, <3>2, <4>2, <4>3 DEF Move
    <3> QED
      BY <3>1, <3>2
  <2>4. /\ m \in 0 .. Len(w.tabs) /\ m \in Nat
        /\ parked <=> to > m
        /\ m = (IF from <= n THEN n - 1 ELSE n) + (IF to <= m THEN 1 ELSE 0)
    <3>1. m \in 0 .. Len(w.tabs) /\ m \in Nat
      BY <1>2, <1>3, <1>6, <2>2
    <3>2. to > m <=> to > n
      BY <1>2, <1>3, <1>6, <2>2
    <3>3. m = (IF from <= n THEN n - 1 ELSE n) + (IF to <= m THEN 1 ELSE 0)
      BY <1>2, <1>3, <1>6, <2>2
    <3> QED
      BY <2>1, <3>1, <3>2, <3>3
  <2>5. Relocate(w, from, to, parked) \in StripsOver(T)
    BY <1>1, <2>4, RelocateIs
  <2>6. Boundary(Relocate(w, from, to, parked).tabs, m)
    BY <1>1, <2>4, RelocateIs
  <2>7. ShownFits(Relocate(w, from, to, parked), m)
    BY <1>1, <2>4, RelocateIs
  <2>8. Apart(Relocate(w, from, to, parked).tabs)
    BY <1>1, <2>4, RelocateIs
  <2> QED
    BY <2>3, <2>4, <2>5, <2>6, <2>7, <2>8 DEF Sound
<1> QED
  BY <1>5, <1>6

-----------------------------------------------------------------------------
(***************************************************************************)
(* Strips of fitting layouts.                                              *)
(***************************************************************************)

(* Tabs, parked or not, of the layouts L. *)
TabsWith(L) == [layout : L, parked : BOOLEAN]
Layouts(w) == {w.tabs[i].layout : i \in DOMAIN w.tabs}

(* What every operation leaves of a strip, and relies on. *)
Good(w) ==
  /\ w \in StripsOver(TabsWith(Layouts(w)))
  /\ \A l \in Layouts(w) : LayoutFits(l)
  /\ Sound(w)
  /\ Apart(w.tabs)

(* Parking a tab changes neither its layout nor what it hosts. *)
LEMMA TabsReparkable ==
  ASSUME NEW L
  PROVE  Reparkable(TabsWith(L))
BY DEF Reparkable, TabsWith, HostedBy

(* The layouts of a good strip suit the lemmas above. *)
LEMMA GoodStrip ==
  ASSUME NEW w, Good(w)
  PROVE  /\ w \in StripsOver(TabsWith(Layouts(w)))
         /\ w.tabs \in Seq(TabsWith(Layouts(w)))
         /\ w = [tabs |-> w.tabs, active |-> w.active]
         /\ w.active \in Nat \ {0}
         /\ Reparkable(TabsWith(Layouts(w)))
         /\ Len(w.tabs) \in Nat
         /\ DOMAIN w.tabs = 1 .. Len(w.tabs)
         /\ Sound(w)
         /\ Apart(w.tabs)
<1>1. w \in StripsOver(TabsWith(Layouts(w)))
  BY DEF Good
<1>2. /\ w.tabs \in Seq(TabsWith(Layouts(w)))
      /\ w = [tabs |-> w.tabs, active |-> w.active]
      /\ w.active \in Nat \ {0}
  BY <1>1 DEF StripsOver
<1>3. Len(w.tabs) \in Nat /\ DOMAIN w.tabs = 1 .. Len(w.tabs)
  BY <1>2, LenProperties
<1> QED
  BY <1>1, <1>2, <1>3, TabsReparkable DEF Good

(* A strip of fitting layouts is good when its zones and sessions are apart. *)
LEMMA GoodFrom ==
  ASSUME NEW L, NEW w \in StripsOver(TabsWith(L)), \A l \in L : LayoutFits(l),
         Sound(w), Apart(w.tabs)
  PROVE  Good(w)
<1>1. w.tabs \in Seq(TabsWith(L)) /\ w.active \in Nat \ {0}
  BY DEF StripsOver
<1>2. Len(w.tabs) \in Nat /\ DOMAIN w.tabs = 1 .. Len(w.tabs)
  BY <1>1, LenProperties
<1>3. \A i \in 1 .. Len(w.tabs) : w.tabs[i] \in TabsWith(L)
  BY <1>1, ElementOfSeq
<1>4. \A i \in 1 .. Len(w.tabs) : w.tabs[i] \in TabsWith(Layouts(w))
  BY <1>2, <1>3 DEF TabsWith, Layouts
<1>5. w.tabs \in [1 .. Len(w.tabs) -> TabsWith(Layouts(w))]
  BY <1>1, <1>4, LenProperties
<1>6. w.tabs \in Seq(TabsWith(Layouts(w)))
  BY <1>2, <1>5, SeqDef
<1>7. \A l \in Layouts(w) : LayoutFits(l)
  BY <1>2, <1>3 DEF Layouts, TabsWith
<1> QED
  BY <1>1, <1>6, <1>7 DEF Good, StripsOver

(* An operation that makes a strip of the tabs it was given. *)
LEMMA SameLayouts ==
  ASSUME NEW w, Good(w), NEW v \in StripsOver(TabsWith(Layouts(w))), Sound(v), Apart(v.tabs)
  PROVE  Good(v)
<1>1. \A l \in Layouts(w) : LayoutFits(l)
  BY DEF Good
<1> QED
  BY <1>1, GoodFrom

(* The tab shown is one. *)
LEMMA ShownIsTab ==
  ASSUME NEW w, Good(w), DOMAIN w.tabs # {}
  PROVE  w.active \in 1 .. Len(w.tabs)
<1>1. PICK n \in Nat : Boundary(w.tabs, n) /\ ShownFits(w, n)
  BY DEF Good, Sound
<1>2. Len(w.tabs) > 0
  BY GoodStrip
<1> QED
  BY <1>1, <1>2 DEF ShownFits

(* Whom a strip hosts, tab by tab. *)
LEMMA HostedInIs ==
  ASSUME NEW w, Good(w), NEW s
  PROVE  s \in HostedIn(w) <=> \E i \in 1 .. Len(w.tabs) : s \in HostedBy(w.tabs[i])
<1>1. DOMAIN w.tabs = 1 .. Len(w.tabs)
  BY GoodStrip
<1> QED
  BY <1>1 DEF HostedIn

(* tab_of finds the tab of a session that has one, and no other has it. *)
LEMMA TabOfIs ==
  ASSUME NEW w, Good(w), NEW s \in HostedIn(w)
  PROVE  TabOf(w, s) \in 1 .. Len(w.tabs) /\ s \in HostedBy(w.tabs[TabOf(w, s)])
<1>1. \E i \in DOMAIN w.tabs : s \in HostedBy(w.tabs[i])
  BY DEF HostedIn
<1> QED
  BY <1>1, GoodStrip DEF TabOf

(* A session has one tab only. *)
LEMMA TabIsTheOne ==
  ASSUME NEW w, Good(w), NEW i \in 1 .. Len(w.tabs), NEW s \in HostedBy(w.tabs[i])
  PROVE  s \in HostedIn(w) /\ TabOf(w, s) = i
<1>1. s \in HostedIn(w)
  BY HostedInIs
<1>2. TabOf(w, s) \in 1 .. Len(w.tabs) /\ s \in HostedBy(w.tabs[TabOf(w, s)])
  BY <1>1, TabOfIs
<1> QED
  BY <1>1, <1>2 DEF Good, Apart

(* A session not in the strip is in none of its tabs. *)
LEMMA UnhostedIs ==
  ASSUME NEW w, Good(w), NEW s, s \notin HostedIn(w)
  PROVE  HostsNone(w.tabs, {s})
BY HostedInIs DEF HostsNone

(* A tab of a good strip has a fitting layout. *)
LEMMA LayoutOfTab ==
  ASSUME NEW w, Good(w), NEW i \in 1 .. Len(w.tabs)
  PROVE  /\ LayoutFits(w.tabs[i].layout)
         /\ w.tabs[i] = [layout |-> w.tabs[i].layout, parked |-> w.tabs[i].parked]
         /\ w.tabs[i].parked \in BOOLEAN
<1>1. DOMAIN w.tabs = 1 .. Len(w.tabs)
  BY GoodStrip
<1>2. w.tabs[i] \in TabsWith(Layouts(w))
  BY GoodStrip, ElementOfSeq
<1> QED
  BY <1>1, <1>2 DEF Good, Layouts, TabsWith

(* Every tab hosts some session. *)
LEMMA TabHosts ==
  ASSUME NEW w, Good(w), NEW i \in 1 .. Len(w.tabs)
  PROVE  /\ FocusedSession(w.tabs[i].layout) \in HostedBy(w.tabs[i])
         /\ HostedBy(w.tabs[i]) # {}
<1>1. LayoutFits(w.tabs[i].layout)
  BY LayoutOfTab
<1>2. FocusedSession(w.tabs[i].layout) \in Hosted(w.tabs[i].layout)
  BY <1>1, FocusedSessionIs
<1> QED
  BY <1>2 DEF HostedBy

(* The strip with another layout for the tab at i. *)
Relaid(w, i, l) == [w EXCEPT !.tabs[i].layout = l]

(* The two strips agree on every tab but the one at i. *)
Others(tabs, new, i) == \A j \in 1 .. Len(tabs) : j # i => new[j] = tabs[j]

(* A new layout for one tab leaves the rest of the strip alone. *)
LEMMA RelaidTabs ==
  ASSUME NEW w, Good(w), NEW i \in 1 .. Len(w.tabs), NEW l
  PROVE  /\ Relaid(w, i, l).active = w.active
         /\ Len(Relaid(w, i, l).tabs) = Len(w.tabs)
         /\ Relaid(w, i, l) = [tabs |-> Relaid(w, i, l).tabs, active |-> w.active]
         /\ Relaid(w, i, l).tabs[i] = [layout |-> l, parked |-> w.tabs[i].parked]
         /\ Others(w.tabs, Relaid(w, i, l).tabs, i)
         /\ Relaid(w, i, l).tabs \in Seq(TabsWith(Layouts(w) \cup {l}))
<1>1. PICK L : L = Layouts(w) \cup {l}
  OBVIOUS
<1>3. PICK tab : tab = [w.tabs[i] EXCEPT !.layout = l]
  OBVIOUS
<1>4. w.tabs \in Seq(TabsWith(Layouts(w))) /\ w.active \in Nat \ {0}
  BY GoodStrip
<1>5. Len(w.tabs) \in Nat /\ DOMAIN w.tabs = 1 .. Len(w.tabs)
  BY GoodStrip
<1>6. w.tabs[i] \in TabsWith(Layouts(w))
  BY <1>4, ElementOfSeq
<1>7. tab \in TabsWith(L) /\ tab = [layout |-> l, parked |-> w.tabs[i].parked]
  BY <1>1, <1>3, <1>6 DEF TabsWith
<1>8. TabsWith(Layouts(w)) \subseteq TabsWith(L)
  BY <1>1 DEF TabsWith
<1>9. w.tabs \in Seq(TabsWith(L))
  BY <1>4, <1>8, SeqMonotonic
<1>10. PICK tabs : tabs = [w.tabs EXCEPT ![i] = tab]
  OBVIOUS
<1>11. tabs \in Seq(TabsWith(L)) /\ Len(tabs) = Len(w.tabs)
  BY <1>7, <1>9, <1>10, ExceptSeq
<1>12. \A j \in 1 .. Len(w.tabs) : tabs[j] = IF j = i THEN tab ELSE w.tabs[j]
  BY <1>5, <1>10
<1>13. w \in [tabs : Seq(TabsWith(Layouts(w))), active : Nat \ {0}]
  BY GoodStrip DEF StripsOver
<1>14. Relaid(w, i, l) = [tabs |-> tabs, active |-> w.active]
  <2>1. Relaid(w, i, l) = [w EXCEPT !.tabs = tabs]
    BY <1>3, <1>10, Zenon DEF Relaid
  <2> QED
    BY <1>13, <2>1
<1>15. Others(w.tabs, tabs, i)
  BY <1>12 DEF Others
<1>16. tabs[i] = [layout |-> l, parked |-> w.tabs[i].parked]
  BY <1>7, <1>12
<1> QED
  BY <1>1, <1>11, <1>14, <1>15, <1>16

(* When the new layout adds no session of another tab the strip stays good. *)
LEMMA Relayout ==
  ASSUME NEW w, Good(w), NEW i \in 1 .. Len(w.tabs), NEW l, LayoutFits(l),
         NEW F, HostsNone(w.tabs, F), Hosted(l) \subseteq HostedBy(w.tabs[i]) \cup F
  PROVE  /\ Good(Relaid(w, i, l))
         /\ HostedIn(Relaid(w, i, l))
              = (HostedIn(w) \ HostedBy(w.tabs[i])) \cup Hosted(l)
<1>1. PICK L : L = Layouts(w) \cup {l}
  OBVIOUS
<1>2. PICK new : new = Relaid(w, i, l)
  OBVIOUS
<1>3. Len(w.tabs) \in Nat /\ w.active \in Nat \ {0}
  BY GoodStrip
<1>4. new.active = w.active /\ Len(new.tabs) = Len(w.tabs)
  BY <1>2, RelaidTabs
<1>5. new = [tabs |-> new.tabs, active |-> w.active]
  BY <1>2, RelaidTabs
<1>6. new.tabs[i].layout = l /\ new.tabs[i].parked = w.tabs[i].parked
  <2>1. new.tabs[i] = [layout |-> l, parked |-> w.tabs[i].parked]
    BY <1>2, RelaidTabs
  <2> QED
    BY <2>1
<1>7. \A j \in 1 .. Len(w.tabs) : j # i => new.tabs[j] = w.tabs[j]
  <2>1. Others(w.tabs, new.tabs, i)
    BY <1>2, RelaidTabs
  <2> QED
    BY <2>1 DEF Others
<1>8. new.tabs \in Seq(TabsWith(L))
  BY <1>1, <1>2, RelaidTabs
<1>9. new \in StripsOver(TabsWith(L))
  BY <1>3, <1>4, <1>5, <1>8 DEF StripsOver
<1>10. \A k \in L : LayoutFits(k)
  BY <1>1 DEF Good
<1>11. \A j \in 1 .. Len(w.tabs) : new.tabs[j].parked = w.tabs[j].parked
  BY <1>6, <1>7
<1>12. Sound(new)
  <2>1. PICK n \in Nat : Boundary(w.tabs, n) /\ ShownFits(w, n)
    BY DEF Good, Sound
  <2>2. Boundary(new.tabs, n) /\ ShownFits(new, n)
    BY <1>4, <1>11, <2>1 DEF Boundary, ShownFits
  <2> QED
    BY <2>2 DEF Sound
<1>13. HostedBy(new.tabs[i]) = Hosted(l)
  BY <1>6 DEF HostedBy
<1>14. Apart(new.tabs)
  <2> SUFFICES ASSUME NEW j \in 1 .. Len(w.tabs), NEW k \in 1 .. Len(w.tabs), j # k
               PROVE  HostedBy(new.tabs[j]) \cap HostedBy(new.tabs[k]) = {}
    BY <1>4 DEF Apart
  <2>1. HostedBy(w.tabs[j]) \cap HostedBy(w.tabs[k]) = {}
    BY DEF Good, Apart
  <2>2. F \cap HostedBy(w.tabs[j]) = {} /\ F \cap HostedBy(w.tabs[k]) = {}
    BY DEF HostsNone
  <2> QED
    BY <1>7, <1>13, <2>1, <2>2
<1>15. Good(new)
  BY <1>9, <1>10, <1>12, <1>14, GoodFrom
<1>16. HostedIn(new) = (HostedIn(w) \ HostedBy(w.tabs[i])) \cup Hosted(l)
  <2>1. ASSUME NEW s PROVE s \in HostedIn(new) <=> s \in (HostedIn(w) \ HostedBy(w.tabs[i])) \cup Hosted(l)
    <3>1. s \in HostedIn(new) <=> \E j \in 1 .. Len(w.tabs) : s \in HostedBy(new.tabs[j])
      BY <1>4, <1>15, HostedInIs
    <3>2. s \in HostedIn(w) <=> \E j \in 1 .. Len(w.tabs) : s \in HostedBy(w.tabs[j])
      BY HostedInIs
    <3>3. s \in HostedBy(w.tabs[i]) => \A j \in 1 .. Len(w.tabs) : j # i => s \notin HostedBy(w.tabs[j])
      BY DEF Good, Apart
    <3> QED
      BY <1>7, <1>13, <3>1, <3>2, <3>3
  <2> QED
    BY <2>1
<1> QED
  BY <1>2, <1>15, <1>16

-----------------------------------------------------------------------------
(***************************************************************************)
(* Rearranging the strip.                                                  *)
(***************************************************************************)

(* Strip v is w with the tab at `from` taken to `to`, the others in order. *)
Shuffled(w, v, from, to) ==
  /\ Len(v.tabs) = Len(w.tabs)
  /\ \A k \in 1 .. Len(w.tabs) :
       /\ ShiftIndex(k, from, to) \in 1 .. Len(w.tabs)
       /\ v.tabs[ShiftIndex(k, from, to)].layout = w.tabs[k].layout
  /\ \A j \in 1 .. Len(w.tabs) : \E k \in 1 .. Len(w.tabs) : j = ShiftIndex(k, from, to)

(* The tab shown in w is shown in v, or is left parked beside one that is not. *)
KeepsShown(w, v, from, to) ==
  \/ v.active = ShiftIndex(w.active, from, to)
  \/ /\ v.tabs[ShiftIndex(w.active, from, to)].parked
     /\ \E k \in 1 .. Len(v.tabs) : ~v.tabs[k].parked

(* Strip v is w with its tabs rearranged, the tab shown kept. *)
Rearranged(w, v) ==
  \E from, to \in 1 .. Len(w.tabs) : Shuffled(w, v, from, to) /\ KeepsShown(w, v, from, to)

(* The tab moved lands where it is put in. *)
LEMMA ShiftIndexMoved ==
  ASSUME NEW from \in Nat, NEW to \in Nat
  PROVE  ShiftIndex(from, from, to) = to
BY DEF ShiftIndex

(* Every other has a place of its own, from which Origin tells its index. *)
LEMMA ShiftIndexIs ==
  ASSUME NEW n \in Nat, NEW from \in 1 .. n, NEW to \in 1 .. n, NEW k \in 1 .. n, k # from
  PROVE  /\ ShiftIndex(k, from, to) \in 1 .. n
         /\ Origin(ShiftIndex(k, from, to), from, to) = k
BY DEF ShiftIndex, Origin

(* Each place a moved tab is not put in holds the tab that came from one place. *)
LEMMA OriginIs ==
  ASSUME NEW n \in Nat, NEW from \in 1 .. n, NEW to \in 1 .. n, NEW j \in 1 .. n, j # to
  PROVE  Origin(j, from, to) \in 1 .. n /\ ShiftIndex(Origin(j, from, to), from, to) = j
BY DEF ShiftIndex, Origin

(* A relocation takes one tab elsewhere, the others keeping their order. *)
LEMMA RelocateShuffles ==
  ASSUME NEW w, Good(w), NEW from \in 1 .. Len(w.tabs), NEW to \in 1 .. Len(w.tabs),
         NEW parked \in BOOLEAN
  PROVE  Shuffled(w, Relocate(w, from, to, parked), from, to)
<1>1. PICK T : T = TabsWith(Layouts(w))
  OBVIOUS
<1>2. PICK tabs : tabs = w.tabs
  OBVIOUS
<1>3. tabs \in Seq(T) /\ Len(tabs) \in Nat
  BY <1>1, <1>2, GoodStrip
<1>4. PICK tab : tab = [tabs[from] EXCEPT !.parked = parked]
  OBVIOUS
<1>5. tab \in T /\ tab.layout = tabs[from].layout
  <2>1. tabs[from] \in T
    BY <1>2, <1>3, ElementOfSeq
  <2> QED
    BY <1>1, <1>4, <2>1 DEF TabsWith
<1>6. PICK new : new = InsertAt(RemoveAt(tabs, from), to, tab)
  OBVIOUS
<1>7. Relocate(w, from, to, parked).tabs = new
  BY <1>2, <1>4, <1>6 DEF Relocate
<1>8. Len(new) = Len(tabs)
  BY <1>2, <1>3, <1>5, <1>6, RelocatedTabs
<1>9. new[to] = tab
  BY <1>2, <1>3, <1>5, <1>6, RelocatedTabs
<1>10. \A j \in 1 .. Len(tabs) : j # to => new[j] = tabs[Origin(j, from, to)]
  BY <1>2, <1>3, <1>5, <1>6, RelocatedTabs
<1>n. PICK n : n = Len(tabs)
  OBVIOUS
<1>0. n \in Nat /\ from \in 1 .. n /\ to \in 1 .. n
  BY <1>2, <1>3, <1>n
<1>11. ASSUME NEW k \in 1 .. n
       PROVE  /\ ShiftIndex(k, from, to) \in 1 .. n
              /\ new[ShiftIndex(k, from, to)].layout = tabs[k].layout
  <2>1. CASE k = from
    <3>1. ShiftIndex(k, from, to) = to
      BY <1>0, <2>1, ShiftIndexMoved
    <3> QED
      BY <1>0, <1>5, <1>9, <2>1, <3>1
  <2>2. CASE k # from
    <3>1. PICK j : j = ShiftIndex(k, from, to)
      OBVIOUS
    <3>2. j \in 1 .. n
      BY <1>0, <2>2, <3>1, ShiftIndexIs
    <3>4. j # to
      BY <1>0, <2>2, <3>1 DEF ShiftIndex
    <3>3. Origin(j, from, to) = k
      BY <1>0, <2>2, <3>1, ShiftIndexIs
    <3> QED
      BY <1>10, <1>n, <3>1, <3>2, <3>3, <3>4
  <2> QED
    BY <2>1, <2>2
<1>12. ASSUME NEW j \in 1 .. n
       PROVE  \E k \in 1 .. n : j = ShiftIndex(k, from, to)
  <2>1. CASE j = to
    BY <1>0, <2>1, ShiftIndexMoved
  <2>2. CASE j # to
    BY <1>0, <2>2, OriginIs
  <2> QED
    BY <2>1, <2>2
<1> QED
  BY <1>2, <1>7, <1>8, <1>n, <1>11, <1>12 DEF Shuffled

(* A relocation keeps the tab shown, unless it leaves it parked beside one that
   is not. *)
LEMMA RelocateKeepsShown ==
  ASSUME NEW w, Good(w), NEW from \in 1 .. Len(w.tabs), NEW to \in 1 .. Len(w.tabs),
         NEW parked \in BOOLEAN, Good(Relocate(w, from, to, parked))
  PROVE  Rearranged(w, Relocate(w, from, to, parked))
<1>1. PICK v : v = Relocate(w, from, to, parked)
  OBVIOUS
<1>2. Good(v) /\ Shuffled(w, v, from, to)
  BY <1>1, RelocateShuffles
<1>3. PICK shifted : shifted = ShiftIndex(w.active, from, to)
  OBVIOUS
<1>4. v.active = IF v.tabs[shifted].parked /\ FirstParked(v.tabs) > 1
                 THEN UnparkedFallback(v.tabs, from) ELSE shifted
  BY <1>1, <1>3 DEF Relocate
<1>5. KeepsShown(w, v, from, to)
  <2>1. CASE v.tabs[shifted].parked /\ FirstParked(v.tabs) > 1
    <3>1. PICK m \in Nat : Boundary(v.tabs, m)
      BY <1>2 DEF Good, Sound
    <3>2. FirstParked(v.tabs) = m + 1
      BY <1>2, <3>1, GoodStrip, FirstParkedIs
    <3>3. 1 \in 1 .. Len(v.tabs) /\ ~v.tabs[1].parked
      BY <1>2, <2>1, <3>1, <3>2, GoodStrip DEF Boundary
    <3> QED
      BY <1>3, <2>1, <3>3 DEF KeepsShown
  <2>2. CASE ~(v.tabs[shifted].parked /\ FirstParked(v.tabs) > 1)
    BY <1>3, <1>4, <2>2 DEF KeepsShown
  <2> QED
    BY <2>1, <2>2
<1> QED
  BY <1>1, <1>2, <1>5 DEF Rearranged

(* A shuffle hosts the same sessions. *)
LEMMA ShuffledHosts ==
  ASSUME NEW w, Good(w), NEW v, Good(v), NEW from, NEW to, Shuffled(w, v, from, to)
  PROVE  HostedIn(v) = HostedIn(w)
<1>1. \A k \in 1 .. Len(w.tabs) :
        /\ ShiftIndex(k, from, to) \in 1 .. Len(v.tabs)
        /\ HostedBy(v.tabs[ShiftIndex(k, from, to)]) = HostedBy(w.tabs[k])
  BY DEF Shuffled, HostedBy
<1>2. \A j \in 1 .. Len(v.tabs) : \E k \in 1 .. Len(w.tabs) : j = ShiftIndex(k, from, to)
  BY DEF Shuffled
<1>3. ASSUME NEW s PROVE s \in HostedIn(v) <=> s \in HostedIn(w)
  <2>1. s \in HostedIn(w) <=> \E i \in 1 .. Len(w.tabs) : s \in HostedBy(w.tabs[i])
    BY HostedInIs
  <2>2. s \in HostedIn(v) <=> \E i \in 1 .. Len(v.tabs) : s \in HostedBy(v.tabs[i])
    BY HostedInIs
  <2> QED
    BY <1>1, <1>2, <2>1, <2>2
<1> QED
  BY <1>3

(* Keeping every tab in its place is a shuffle. *)
LEMMA StillShuffled ==
  ASSUME NEW w, Good(w), NEW v, v.tabs = w.tabs, NEW i \in 1 .. Len(w.tabs)
  PROVE  Shuffled(w, v, i, i)
<1>1. Len(w.tabs) \in Nat
  BY GoodStrip
<1>2. \A k \in 1 .. Len(w.tabs) : ShiftIndex(k, i, i) = k
  BY <1>1 DEF ShiftIndex
<1> QED
  BY <1>2 DEF Shuffled

(* Parking or unparking a tab rearranges the strip. *)
LEMMA ToggleGood ==
  ASSUME NEW w, Good(w), NEW i \in 1 .. Len(w.tabs)
  PROVE  /\ Good(ToggleParked(w, i))
         /\ Rearranged(w, ToggleParked(w, i))
         /\ HostedIn(ToggleParked(w, i)) = HostedIn(w)
<1>1. PICK n \in Nat : Boundary(w.tabs, n)
  BY DEF Good, Sound
<1>2. Len(w.tabs) \in Nat
  BY GoodStrip
<1>3. FirstParked(w.tabs) = n + 1 /\ FirstParked(w.tabs) - 1 = n
  <2>1. FirstParked(w.tabs) = n + 1
    BY <1>1, GoodStrip, FirstParkedIs
  <2> QED
    BY <2>1
<1>4. PICK v : v = ToggleParked(w, i)
  OBVIOUS
<1>5. Good(v)
  BY <1>4, GoodStrip, SameLayouts, ToggleParkedIs
<1>6. Rearranged(w, v)
  <2>1. CASE w.tabs[i].parked
    <3>1. n + 1 \in 1 .. Len(w.tabs)
      BY <1>1, <1>2, <2>1 DEF Boundary
    <3>2. v = Relocate(w, i, n + 1, FALSE)
      BY <1>3, <1>4, <2>1 DEF ToggleParked, Unpark
    <3> QED
      BY <1>5, <3>1, <3>2, RelocateKeepsShown
  <2>2. CASE ~w.tabs[i].parked
    <3>1. n \in 1 .. Len(w.tabs)
      BY <1>1, <1>2, <2>2 DEF Boundary
    <3>2. v = Relocate(w, i, n, TRUE)
      BY <1>3, <1>4, <2>2 DEF ToggleParked, Park
    <3> QED
      BY <1>5, <3>1, <3>2, RelocateKeepsShown
  <2> QED
    BY <2>1, <2>2
<1>7. HostedIn(v) = HostedIn(w)
  BY <1>5, <1>6, ShuffledHosts DEF Rearranged
<1> QED
  BY <1>4, <1>5, <1>6, <1>7

(* So does a move. *)
LEMMA MoveGood ==
  ASSUME NEW w, Good(w), NEW from \in 1 .. Len(w.tabs), NEW to \in 1 .. Len(w.tabs)
  PROVE  /\ Good(Move(w, from, to))
         /\ Rearranged(w, Move(w, from, to))
         /\ HostedIn(Move(w, from, to)) = HostedIn(w)
<1>1. PICK v : v = Move(w, from, to)
  OBVIOUS
<1>2. Good(v)
  BY <1>1, GoodStrip, SameLayouts, MoveIs
<1>3. Rearranged(w, v)
  <2>1. CASE from = to
    <3>1. v = w
      BY <1>1, <2>1 DEF Move
    <3>2. Shuffled(w, v, from, from)
      BY <3>1, StillShuffled
    <3>3. ShiftIndex(w.active, from, from) = w.active
      BY GoodStrip DEF ShiftIndex
    <3> QED
      BY <3>1, <3>2, <3>3 DEF Rearranged, KeepsShown
  <2>2. CASE from # to
    <3>1. PICK parked \in BOOLEAN : v = Relocate(w, from, to, parked)
      BY <1>1, <2>2 DEF Move
    <3> QED
      BY <1>2, <3>1, RelocateKeepsShown
  <2> QED
    BY <2>1, <2>2
<1>4. HostedIn(v) = HostedIn(w)
  BY <1>2, <1>3, ShuffledHosts DEF Rearranged
<1> QED
  BY <1>1, <1>2, <1>3, <1>4

(* Activating a tab shows it, wherever it has to be brought back to. *)
LEMMA ActivateGood ==
  ASSUME NEW w, Good(w), NEW i \in 1 .. Len(w.tabs)
  PROVE  /\ Good(Activate(w, i))
         /\ Activate(w, i).active \in 1 .. Len(Activate(w, i).tabs)
         /\ Shown(Activate(w, i)).layout = w.tabs[i].layout
         /\ \E from, to \in 1 .. Len(w.tabs) : Shuffled(w, Activate(w, i), from, to)
         /\ HostedIn(Activate(w, i)) = HostedIn(w)
<1>1. PICK n \in Nat : Boundary(w.tabs, n)
  BY DEF Good, Sound
<1>2. Len(w.tabs) \in Nat
  BY GoodStrip
<1>3. FirstParked(w.tabs) = n + 1
  BY <1>1, GoodStrip, FirstParkedIs
<1>4. PICK v : v = Activate(w, i)
  OBVIOUS
<1>5. Good(v)
  BY <1>4, GoodStrip, SameLayouts, ActivateIs
<1>6. v.active \in 1 .. Len(v.tabs)
  BY <1>4, GoodStrip, ActivateIs
<1>7. /\ Shown(v).layout = w.tabs[i].layout
      /\ \E from, to \in 1 .. Len(w.tabs) : Shuffled(w, v, from, to)
  <2>1. CASE w.tabs[i].parked
    <3>1. n + 1 \in 1 .. Len(w.tabs) /\ n + 1 \in Nat
      BY <1>1, <1>2, <2>1 DEF Boundary
    <3>2. PICK u : u = Relocate(w, i, n + 1, FALSE)
      OBVIOUS
    <3>3. v = [u EXCEPT !.active = n + 1]
      BY <1>3, <1>4, <2>1, <3>2 DEF Activate, Unpark
    <3>4. Shuffled(w, u, i, n + 1)
      BY <3>1, <3>2, RelocateShuffles
    <3>5. v.tabs = u.tabs /\ v.active = n + 1
      BY <3>2, <3>3 DEF Relocate
    <3>6. Shuffled(w, v, i, n + 1)
      BY <3>4, <3>5 DEF Shuffled
    <3>7. ShiftIndex(i, i, n + 1) = n + 1
      BY <1>2, <3>1, ShiftIndexMoved
    <3>8. v.tabs[n + 1].layout = w.tabs[i].layout
      BY <3>6, <3>7 DEF Shuffled
    <3> QED
      BY <3>1, <3>5, <3>6, <3>8 DEF Shown
  <2>2. CASE ~w.tabs[i].parked
    <3>1. v = [tabs |-> w.tabs, active |-> i]
      <4>1. w = [tabs |-> w.tabs, active |-> w.active]
        BY GoodStrip
      <4>2. v = [w EXCEPT !.active = i]
        BY <1>4, <2>2 DEF Activate
      <4> QED
        BY <4>1, <4>2
    <3>2. Shuffled(w, v, i, i)
      BY <3>1, StillShuffled
    <3> QED
      BY <3>1, <3>2 DEF Shown
  <2> QED
    BY <2>1, <2>2
<1>8. HostedIn(v) = HostedIn(w)
  BY <1>5, <1>7, ShuffledHosts
<1> QED
  BY <1>4, <1>5, <1>6, <1>7, <1>8

(* Strip v is w with one more tab at `at`. *)
Inserted(w, v, at, tab) ==
  /\ Len(v.tabs) = Len(w.tabs) + 1
  /\ v.tabs[at] = tab
  /\ \A j \in 1 .. Len(w.tabs) : v.tabs[IF j < at THEN j ELSE j + 1] = w.tabs[j]

(* One more tab, and the sessions it hosts. *)
LEMMA InsertedHosts ==
  ASSUME NEW w, Good(w), NEW v, Good(v), NEW at \in 1 .. Len(w.tabs) + 1, NEW tab,
         Inserted(w, v, at, tab)
  PROVE  HostedIn(v) = HostedIn(w) \cup HostedBy(tab)
<1>1. PICK n : n = Len(w.tabs)
  OBVIOUS
<1>2. n \in Nat /\ Len(v.tabs) = n + 1 /\ at \in 1 .. n + 1
  BY <1>1, GoodStrip DEF Inserted
<1>3. \A j \in 1 .. n : v.tabs[IF j < at THEN j ELSE j + 1] = w.tabs[j]
  BY <1>1 DEF Inserted
<1>4. ASSUME NEW s PROVE s \in HostedIn(v) <=> s \in HostedIn(w) \cup HostedBy(tab)
  <2>1. s \in HostedIn(w) <=> \E i \in 1 .. n : s \in HostedBy(w.tabs[i])
    BY <1>1, HostedInIs
  <2>2. s \in HostedIn(v) <=> \E i \in 1 .. n + 1 : s \in HostedBy(v.tabs[i])
    BY <1>2, HostedInIs
  <2>3. ASSUME NEW i \in 1 .. n + 1, s \in HostedBy(v.tabs[i])
        PROVE  s \in HostedIn(w) \cup HostedBy(tab)
    <3>1. CASE i = at
      BY <2>3, <3>1 DEF Inserted
    <3>2. CASE i < at
      BY <1>2, <1>3, <2>1, <2>3, <3>2
    <3>3. CASE i > at
      <4>1. i - 1 \in 1 .. n /\ ~(i - 1 < at) /\ i - 1 + 1 = i
        BY <1>2, <3>3
      <4>2. v.tabs[i] = w.tabs[i - 1]
        BY <1>3, <4>1
      <4> QED
        BY <2>1, <2>3, <4>1, <4>2
    <3> QED
      BY <1>2, <3>1, <3>2, <3>3
  <2>4. ASSUME NEW i \in 1 .. n, s \in HostedBy(w.tabs[i])
        PROVE  s \in HostedIn(v)
    <3>1. PICK j : j = IF i < at THEN i ELSE i + 1
      OBVIOUS
    <3>2. j \in 1 .. n + 1
      BY <1>2, <3>1
    <3>3. v.tabs[j] = w.tabs[i]
      BY <1>3, <3>1
    <3> QED
      BY <2>2, <2>4, <3>2, <3>3
  <2>5. ASSUME s \in HostedBy(tab) PROVE s \in HostedIn(v)
    BY <1>2, <2>2, <2>5 DEF Inserted
  <2> QED
    BY <2>1, <2>2, <2>3, <2>4, <2>5
<1> QED
  BY <1>4

-----------------------------------------------------------------------------
(***************************************************************************)
(* Opening and closing tabs of panes.                                      *)
(***************************************************************************)

(* A new tab goes right before the parked zone, behind the tab shown or not. *)
LEMMA AppendGood ==
  ASSUME NEW w, Good(w), NEW s, s \notin HostedIn(w)
  PROVE  /\ Good(AppendTab(w, s))
         /\ Inserted(w, AppendTab(w, s), FirstParked(w.tabs), NewTab(s))
         /\ HostedIn(AppendTab(w, s)) = HostedIn(w) \cup {s}
         /\ FirstParked(w.tabs) \in 1 .. Len(w.tabs) + 1
<1>1. PICK L : L = Layouts(w) \cup {NewLayout(s)}
  OBVIOUS
<1>2. \A l \in L : LayoutFits(l)
  BY <1>1, NewLayoutFits DEF Good
<1>3. PICK T : T = TabsWith(L)
  OBVIOUS
<1>4. TabsWith(Layouts(w)) \subseteq T
  BY <1>1, <1>3 DEF TabsWith
<1>5. w \in StripsOver(T) /\ Sound(w) /\ Apart(w.tabs)
  <2>1. w.tabs \in Seq(T)
    BY <1>4, GoodStrip, SeqMonotonic
  <2>2. w = [tabs |-> w.tabs, active |-> w.active] /\ w.active \in Nat \ {0}
    BY GoodStrip
  <2>3. w \in StripsOver(T)
    BY <2>1, <2>2 DEF StripsOver
  <2> QED
    BY <2>3, GoodStrip
<1>6. PICK tab : tab = NewTab(s)
  OBVIOUS
<1>7. tab \in T /\ ~tab.parked
  BY <1>1, <1>3, <1>6 DEF NewTab, TabsWith
<1>8. HostedBy(tab) = {s}
  BY <1>6, NewLayoutFits DEF NewTab, HostedBy
<1>9. HostsNone(w.tabs, HostedBy(tab))
  BY <1>8, UnhostedIs
<1>10. PICK v : v = InsertTab(w, tab)
  OBVIOUS
<1>11. AppendTab(w, s) = v
  BY <1>6, <1>10 DEF AppendTab
<1>12. v \in StripsOver(T)
  BY <1>5, <1>7, <1>9, <1>10, InsertTabIs
<1>13. Sound(v)
  BY <1>5, <1>7, <1>9, <1>10, InsertTabIs
<1>14. Apart(v.tabs)
  BY <1>5, <1>7, <1>9, <1>10, InsertTabIs
<1>15. Good(v)
  BY <1>2, <1>3, <1>12, <1>13, <1>14, GoodFrom
<1>16. PICK n \in Nat : Boundary(w.tabs, n)
  BY DEF Good, Sound
<1>17. PICK at : at = FirstParked(w.tabs)
  OBVIOUS
<1>18. at \in 1 .. Len(w.tabs) + 1 /\ Len(w.tabs) \in Nat
  <2>1. at = n + 1
    BY <1>16, <1>17, GoodStrip, FirstParkedIs
  <2> QED
    BY <1>16, <2>1, GoodStrip DEF Boundary
<1>19. Inserted(w, v, at, tab)
  <2>1. v.tabs = InsertAt(w.tabs, at, tab)
    BY <1>10, <1>17 DEF InsertTab
  <2>2. w.tabs \in Seq(T)
    BY <1>5 DEF StripsOver
  <2>0. PICK tabs : tabs = w.tabs
    OBVIOUS
  <2>3. tabs \in Seq(T) /\ at \in 1 .. Len(tabs) + 1 /\ tab \in T
    BY <1>7, <1>18, <2>0, <2>2
  <2>4. PICK new : new = InsertAt(tabs, at, tab)
    OBVIOUS
  <2>5. Len(new) = Len(tabs) + 1
    BY <2>3, <2>4, InsertAtIs
  <2>6. new[at] = tab
    BY <2>3, <2>4, InsertAtIs
  <2>7. ASSUME NEW j \in 1 .. Len(w.tabs) PROVE new[IF j < at THEN j ELSE j + 1] = w.tabs[j]
    <3>1. CASE j < at
      <4>1. j \in 1 .. at - 1
        BY <1>18, <3>1
      <4>2. new[j] = tabs[j]
        BY <2>3, <2>4, <4>1, InsertAtIs
      <4> QED
        BY <2>0, <3>1, <4>2
    <3>2. CASE ~(j < at)
      <4>1. PICK k : k = j + 1
        OBVIOUS
      <4>2. k \in at + 1 .. Len(tabs) + 1 /\ k - 1 = j
        BY <1>18, <2>0, <3>2, <4>1
      <4>3. InsertAt(tabs, at, tab)[k] = tabs[k - 1]
        BY <2>3, <4>2, InsertAtLater
      <4> QED
        BY <2>0, <2>4, <3>2, <4>1, <4>2, <4>3
    <3> QED
      BY <3>1, <3>2
  <2> QED
    BY <2>0, <2>1, <2>4, <2>5, <2>6, <2>7 DEF Inserted
<1>20. HostedIn(v) = HostedIn(w) \cup {s}
  BY <1>8, <1>15, <1>18, <1>19, InsertedHosts
<1> QED
  BY <1>6, <1>11, <1>15, <1>17, <1>18, <1>19, <1>20

(* Opening a tab shows it. *)
LEMMA OpenGood ==
  ASSUME NEW w, Good(w), NEW s, s \notin HostedIn(w)
  PROVE  /\ Good(OpenTab(w, s))
         /\ Inserted(w, OpenTab(w, s), FirstParked(w.tabs), NewTab(s))
         /\ HostedIn(OpenTab(w, s)) = HostedIn(w) \cup {s}
         /\ OpenTab(w, s).active = FirstParked(w.tabs)
<1>1. PICK v : v = AppendTab(w, s)
  OBVIOUS
<1>2. PICK at : at = FirstParked(w.tabs)
  OBVIOUS
<1>3. Good(v)
  BY <1>1, AppendGood
<1>4. Inserted(w, v, at, NewTab(s))
  BY <1>1, <1>2, AppendGood
<1>5. HostedIn(v) = HostedIn(w) \cup {s}
  BY <1>1, AppendGood
<1>6. at \in 1 .. Len(w.tabs) + 1
  BY <1>2, AppendGood
<1>7. PICK u : u = OpenTab(w, s)
  OBVIOUS
<1>8. u = [tabs |-> v.tabs, active |-> at]
  <2>1. v = [tabs |-> v.tabs, active |-> v.active]
    BY <1>3, GoodStrip
  <2>2. u = [v EXCEPT !.active = at]
    BY <1>1, <1>2, <1>7 DEF OpenTab
  <2> QED
    BY <2>1, <2>2
<1>9. PICK T : T = TabsWith(Layouts(v))
  OBVIOUS
<1>10. at \in Nat \ {0} /\ at \in 1 .. Len(v.tabs)
  BY <1>4, <1>6, GoodStrip DEF Inserted
<1>11. u \in StripsOver(T)
  BY <1>3, <1>8, <1>9, <1>10, GoodStrip DEF StripsOver
<1>12. Boundary(v.tabs, at)
  <2>1. v = InsertTab(w, NewTab(s))
    BY <1>1 DEF AppendTab
  <2>2. PICK m \in Nat : Boundary(v.tabs, m)
    BY <1>3 DEF Good, Sound
  <2>3. PICK n \in Nat : Boundary(w.tabs, n)
    BY DEF Good, Sound
  <2>4. at = n + 1 /\ Len(w.tabs) \in Nat /\ Len(v.tabs) = Len(w.tabs) + 1
    BY <1>2, <1>4, <2>3, GoodStrip, FirstParkedIs DEF Inserted
  <2>5. ~v.tabs[at].parked
    BY <1>4 DEF Inserted, NewTab
  <2>6. at <= m
    BY <1>10, <2>2, <2>5 DEF Boundary
  <2>7. ASSUME m > at PROVE FALSE
    <3>1. m \in 1 .. Len(v.tabs) /\ ~v.tabs[m].parked
      BY <1>10, <2>2, <2>7 DEF Boundary
    <3>2. m - 1 \in 1 .. Len(w.tabs) /\ ~(m - 1 < at) /\ m - 1 + 1 = m
      BY <1>10, <2>4, <2>7, <3>1
    <3>3. v.tabs[m] = w.tabs[m - 1]
      BY <1>4, <3>2 DEF Inserted
    <3> QED
      BY <2>3, <2>4, <2>7, <3>1, <3>2, <3>3 DEF Boundary
  <2> QED
    BY <1>10, <2>2, <2>6, <2>7
<1>13. Sound(u)
  BY <1>8, <1>10, <1>12 DEF Sound, ShownFits
<1>14. Good(u)
  <2>1. Apart(u.tabs)
    BY <1>3, <1>8 DEF Good
  <2> QED
    BY <1>3, <1>9, <1>11, <1>13, <2>1, SameLayouts
<1>15. HostedIn(u) = HostedIn(v)
  BY <1>8 DEF HostedIn
<1>16. Inserted(w, u, at, NewTab(s))
  BY <1>4, <1>8 DEF Inserted
<1> QED
  BY <1>2, <1>5, <1>7, <1>8, <1>14, <1>15, <1>16

(* What opening a tab shows. *)
LEMMA OpenShows ==
  ASSUME NEW w, Good(w), NEW s, s \notin HostedIn(w)
  PROVE  /\ OpenTab(w, s).active \in 1 .. Len(OpenTab(w, s).tabs)
         /\ HostedBy(Shown(OpenTab(w, s))) = {s}
         /\ FocusedIn(OpenTab(w, s)) = s
<1>1. PICK u : u = OpenTab(w, s)
  OBVIOUS
<1>2. PICK at : at = FirstParked(w.tabs)
  OBVIOUS
<1>3. u.active = at
  BY <1>1, <1>2, OpenGood
<1>4. Inserted(w, u, at, NewTab(s))
  BY <1>1, <1>2, OpenGood
<1>5. at \in 1 .. Len(w.tabs) + 1
  BY <1>2, AppendGood
<1>6. Shown(u) = NewTab(s)
  BY <1>3, <1>4 DEF Shown, Inserted
<1>7. PICK l : l = NewLayout(s)
  OBVIOUS
<1>8. LayoutFits(l) /\ Hosted(l) = {s}
  BY <1>7, NewLayoutFits
<1>9. FocusedSession(l) = s
  BY <1>8, FocusedSessionIs
<1> QED
  BY <1>1, <1>3, <1>4, <1>5, <1>6, <1>7, <1>8, <1>9 DEF Inserted, NewTab, HostedBy, FocusedIn

(* Strip v is w without the tab at i. *)
Removed(w, v, i) ==
  /\ Len(v.tabs) = Len(w.tabs) - 1
  /\ \A j \in 1 .. Len(w.tabs) - 1 : v.tabs[j] = w.tabs[IF j < i THEN j ELSE j + 1]

(* Closing a tab closes its panes and leaves the others. *)
LEMMA CloseAtGood ==
  ASSUME NEW w, Good(w), NEW i \in 1 .. Len(w.tabs)
  PROVE  /\ Good(CloseAt(w, i))
         /\ Removed(w, CloseAt(w, i), i)
         /\ HostedIn(CloseAt(w, i)) = HostedIn(w) \ HostedBy(w.tabs[i])
<1>1. PICK v : v = CloseAt(w, i)
  OBVIOUS
<1>2. Good(v)
  BY <1>1, GoodStrip, SameLayouts, CloseAtIs
<1>3. PICK n : n = Len(w.tabs)
  OBVIOUS
<1>4. n \in Nat /\ i \in 1 .. n
  BY <1>3, GoodStrip
<1>5. Removed(w, v, i)
  <2>1. v.tabs = RemoveAt(w.tabs, i)
    BY <1>1 DEF CloseAt
  <2>2. PICK new : new = RemoveAt(w.tabs, i)
    OBVIOUS
  <2>3. Len(new) = n - 1
    BY <1>3, <2>2, GoodStrip, RemoveAtIs
  <2>4. \A j \in 1 .. Len(w.tabs) - 1 : new[j] = IF j < i THEN w.tabs[j] ELSE w.tabs[j + 1]
    BY <2>2, GoodStrip, RemoveAtIs
  <2> QED
    BY <1>3, <2>1, <2>2, <2>3, <2>4 DEF Removed
<1>6. Len(v.tabs) = n - 1 /\ \A j \in 1 .. n - 1 : v.tabs[j] = w.tabs[IF j < i THEN j ELSE j + 1]
  BY <1>3, <1>5 DEF Removed
<1>7. ASSUME NEW s PROVE s \in HostedIn(v) <=> s \in HostedIn(w) \ HostedBy(w.tabs[i])
  <2>1. s \in HostedIn(w) <=> \E k \in 1 .. n : s \in HostedBy(w.tabs[k])
    BY <1>3, HostedInIs
  <2>2. s \in HostedIn(v) <=> \E j \in 1 .. n - 1 : s \in HostedBy(v.tabs[j])
    BY <1>2, <1>6, HostedInIs
  <2>3. ASSUME NEW j \in 1 .. n - 1, s \in HostedBy(v.tabs[j])
        PROVE  s \in HostedIn(w) \ HostedBy(w.tabs[i])
    <3>1. PICK k : k = IF j < i THEN j ELSE j + 1
      OBVIOUS
    <3>2. k \in 1 .. n /\ k # i
      BY <1>4, <3>1
    <3>3. s \in HostedBy(w.tabs[k])
      BY <1>6, <2>3, <3>1
    <3>4. s \notin HostedBy(w.tabs[i])
      BY <1>3, <1>4, <3>2, <3>3 DEF Good, Apart
    <3> QED
      BY <2>1, <3>2, <3>3, <3>4
  <2>4. ASSUME NEW k \in 1 .. n, s \in HostedBy(w.tabs[k]), s \notin HostedBy(w.tabs[i])
        PROVE  s \in HostedIn(v)
    <3>1. k # i
      BY <2>4
    <3>2. PICK j : j = IF k < i THEN k ELSE k - 1
      OBVIOUS
    <3>3. j \in 1 .. n - 1 /\ (IF j < i THEN j ELSE j + 1) = k
      BY <1>4, <3>1, <3>2
    <3>4. v.tabs[j] = w.tabs[k]
      BY <1>6, <3>3
    <3> QED
      BY <2>2, <2>4, <3>3, <3>4
  <2> QED
    BY <2>1, <2>2, <2>3, <2>4
<1> QED
  BY <1>1, <1>2, <1>5, <1>7

-----------------------------------------------------------------------------
(***************************************************************************)
(* Panes.                                                                  *)
(***************************************************************************)

(* Closing a pane takes its tab along when it is alone in it. *)
LEMMA CloseLeafGood ==
  ASSUME NEW w, Good(w), NEW i \in 1 .. Len(w.tabs), NEW s \in HostedBy(w.tabs[i])
  PROVE  /\ Good(CloseLeafAt(w, i, s))
         /\ HostedIn(CloseLeafAt(w, i, s)) = HostedIn(w) \ {s}
<1>1. CASE HostedBy(w.tabs[i]) = {s}
  BY <1>1, CloseAtGood DEF CloseLeafAt
<1>2. CASE HostedBy(w.tabs[i]) # {s}
  <2>1. PICK tab : tab = w.tabs[i].layout
    OBVIOUS
  <2>2. LayoutFits(tab) /\ Hosted(tab) = HostedBy(w.tabs[i])
    BY <2>1, LayoutOfTab DEF HostedBy
  <2>3. PICK l : l = CloseLeaf(tab, s)
    OBVIOUS
  <2>4. LayoutFits(l) /\ Hosted(l) = Hosted(tab) \ {s}
    BY <1>2, <2>2, <2>3, CloseLeafFits
  <2>5. HostsNone(w.tabs, {})
    BY DEF HostsNone
  <2>6. Hosted(l) \subseteq HostedBy(w.tabs[i]) \cup {}
    BY <2>2, <2>4
  <2>7. /\ Good(Relaid(w, i, l))
        /\ HostedIn(Relaid(w, i, l)) = (HostedIn(w) \ HostedBy(w.tabs[i])) \cup Hosted(l)
    BY <2>4, <2>5, <2>6, Relayout
  <2>8. \A t \in HostedBy(w.tabs[i]) : t \in HostedIn(w)
    BY HostedInIs
  <2>9. CloseLeafAt(w, i, s) = Relaid(w, i, l)
    BY <1>2, <2>1, <2>3 DEF CloseLeafAt, Relaid
  <2> QED
    BY <2>2, <2>4, <2>7, <2>8, <2>9
<1> QED
  BY <1>1, <1>2

(* A change of focus within a tab. *)
LEMMA RefocusGood ==
  ASSUME NEW w, Good(w), NEW i \in 1 .. Len(w.tabs),
         NEW l, LayoutFits(l), Hosted(l) = HostedBy(w.tabs[i])
  PROVE  Good(Relaid(w, i, l)) /\ HostedIn(Relaid(w, i, l)) = HostedIn(w)
<1>1. HostsNone(w.tabs, {})
  BY DEF HostsNone
<1>2. Hosted(l) \subseteq HostedBy(w.tabs[i]) \cup {}
  OBVIOUS
<1>3. /\ Good(Relaid(w, i, l))
      /\ HostedIn(Relaid(w, i, l)) = (HostedIn(w) \ HostedBy(w.tabs[i])) \cup Hosted(l)
  BY <1>1, <1>2, Relayout
<1>4. \A t \in HostedBy(w.tabs[i]) : t \in HostedIn(w)
  BY HostedInIs
<1> QED
  BY <1>3, <1>4

(* A click on a pane of the tab shown. *)
LEMMA FocusPaneGood ==
  ASSUME NEW w, Good(w), w.active \in 1 .. Len(w.tabs), NEW s \in HostedBy(Shown(w))
  PROVE  /\ Good(FocusPane(w, s))
         /\ HostedIn(FocusPane(w, s)) = HostedIn(w)
         /\ FocusPane(w, s).active = w.active
         /\ Len(FocusPane(w, s).tabs) = Len(w.tabs)
         /\ FocusedIn(FocusPane(w, s)) = s
<1>1. PICK tab : tab = w.tabs[w.active].layout
  OBVIOUS
<1>2. LayoutFits(tab) /\ Hosted(tab) = HostedBy(w.tabs[w.active]) /\ s \in Hosted(tab)
  BY <1>1, LayoutOfTab DEF HostedBy, Shown
<1>3. PICK l : l = FocusOn(tab, s)
  OBVIOUS
<1>4. LayoutFits(l) /\ Hosted(l) = Hosted(tab) /\ FocusedSession(l) = s
  BY <1>2, <1>3, FocusOnFits
<1>5. PICK v : v = Relaid(w, w.active, l)
  OBVIOUS
<1>6. Good(v)
  BY <1>2, <1>4, <1>5, RefocusGood
<1>7. HostedIn(v) = HostedIn(w)
  BY <1>2, <1>4, <1>5, RefocusGood
<1>8. v.active = w.active
  BY <1>5, RelaidTabs
<1>9. Len(v.tabs) = Len(w.tabs)
  BY <1>5, RelaidTabs
<1>10. v.tabs[w.active].layout = l
  <2>1. v.tabs[w.active] = [layout |-> l, parked |-> w.tabs[w.active].parked]
    BY <1>5, RelaidTabs
  <2> QED
    BY <2>1
<1>11. FocusPane(w, s) = v
  BY <1>1, <1>3, <1>5 DEF FocusPane, Relaid
<1> QED
  BY <1>4, <1>6, <1>7, <1>8, <1>9, <1>10, <1>11 DEF FocusedIn, Shown

(* Stepping through the panes, and moving among them, stays in the tab shown. *)
LEMMA CyclePanesGood ==
  ASSUME NEW w, Good(w), w.active \in 1 .. Len(w.tabs), NEW step
  PROVE  Good(CyclePanes(w, step)) /\ HostedIn(CyclePanes(w, step)) = HostedIn(w)
<1>1. PICK tab : tab = w.tabs[w.active].layout
  OBVIOUS
<1>2. LayoutFits(tab) /\ Hosted(tab) = HostedBy(w.tabs[w.active])
  BY <1>1, LayoutOfTab DEF HostedBy
<1>3. PICK l : l = CycleFocus(tab, step)
  OBVIOUS
<1>4. LayoutFits(l) /\ Hosted(l) = Hosted(tab)
  BY <1>2, <1>3, CycleFocusFits
<1>5. CyclePanes(w, step) = Relaid(w, w.active, l)
  BY <1>1, <1>3 DEF CyclePanes, Relaid
<1> QED
  BY <1>2, <1>4, <1>5, RefocusGood

(* So does a directional move. *)
LEMMA FocusDirGood ==
  ASSUME NEW w, Good(w), w.active \in 1 .. Len(w.tabs), NEW d \in Direction
  PROVE  Good(FocusDir(w, d)) /\ HostedIn(FocusDir(w, d)) = HostedIn(w)
<1>1. PICK tab : tab = w.tabs[w.active].layout
  OBVIOUS
<1>2. LayoutFits(tab) /\ Hosted(tab) = HostedBy(w.tabs[w.active])
  BY <1>1, LayoutOfTab DEF HostedBy
<1>3. PICK l : l = FocusDirOf(tab, d)
  OBVIOUS
<1>4. LayoutFits(l) /\ Hosted(l) = Hosted(tab)
  BY <1>2, <1>3, FocusDirFits
<1>5. FocusDir(w, d) = Relaid(w, w.active, l)
  BY <1>1, <1>3 DEF FocusDir, Relaid
<1> QED
  BY <1>2, <1>4, <1>5, RefocusGood

(* A split of the tab shown adds one session to it. *)
LEMMA SplitGood ==
  ASSUME NEW w, Good(w), w.active \in 1 .. Len(w.tabs), NEW d \in SplitDir,
         NEW s, s \notin HostedIn(w)
  PROVE  Good(SplitShown(w, d, s)) /\ HostedIn(SplitShown(w, d, s)) = HostedIn(w) \cup {s}
<1>1. PICK tab : tab = w.tabs[w.active].layout
  OBVIOUS
<1>2. LayoutFits(tab) /\ Hosted(tab) = HostedBy(w.tabs[w.active]) /\ s \notin Hosted(tab)
  BY <1>1, LayoutOfTab, HostedInIs DEF HostedBy
<1>3. PICK l : l = SplitFocus(tab, d, s)
  OBVIOUS
<1>4. LayoutFits(l) /\ Hosted(l) = Hosted(tab) \cup {s}
  BY <1>2, <1>3, SplitFocusFits
<1>5. HostsNone(w.tabs, {s})
  BY UnhostedIs
<1>6. Hosted(l) \subseteq HostedBy(w.tabs[w.active]) \cup {s}
  BY <1>2, <1>4
<1>7. /\ Good(Relaid(w, w.active, l))
      /\ HostedIn(Relaid(w, w.active, l))
           = (HostedIn(w) \ HostedBy(w.tabs[w.active])) \cup Hosted(l)
  BY <1>4, <1>5, <1>6, Relayout
<1>8. \A t \in HostedBy(w.tabs[w.active]) : t \in HostedIn(w)
  BY HostedInIs
<1>9. SplitShown(w, d, s) = Relaid(w, w.active, l)
  BY <1>1, <1>3 DEF SplitShown, Relaid
<1> QED
  BY <1>2, <1>4, <1>7, <1>8, <1>9

(* Revealing a pane ends in it, on screen. *)
LEMMA RevealGood ==
  ASSUME NEW w, Good(w), NEW s \in HostedIn(w)
  PROVE  /\ Good(Reveal(w, s))
         /\ HostedIn(Reveal(w, s)) = HostedIn(w)
         /\ Reveal(w, s).active \in 1 .. Len(Reveal(w, s).tabs)
         /\ FocusedIn(Reveal(w, s)) = s
<1>1. PICK i : i = TabOf(w, s)
  OBVIOUS
<1>2. i \in 1 .. Len(w.tabs) /\ s \in HostedBy(w.tabs[i])
  BY <1>1, TabOfIs
<1>3. PICK v : v = Activate(w, i)
  OBVIOUS
<1>4. Good(v) /\ HostedIn(v) = HostedIn(w)
  BY <1>2, <1>3, ActivateGood
<1>5. v.active \in 1 .. Len(v.tabs)
  BY <1>2, <1>3, ActivateGood
<1>6. Shown(v).layout = w.tabs[i].layout
  BY <1>2, <1>3, ActivateGood
<1>7. s \in HostedBy(Shown(v))
  BY <1>2, <1>6 DEF HostedBy
<1>8. PICK u : u = FocusPane(v, s)
  OBVIOUS
<1>9. Good(u)
  BY <1>4, <1>5, <1>7, <1>8, FocusPaneGood
<1>10. HostedIn(u) = HostedIn(v)
  BY <1>4, <1>5, <1>7, <1>8, FocusPaneGood
<1>11. u.active = v.active
  BY <1>4, <1>5, <1>7, <1>8, FocusPaneGood
<1>12. Len(u.tabs) = Len(v.tabs)
  BY <1>4, <1>5, <1>7, <1>8, FocusPaneGood
<1>13. FocusedIn(u) = s
  BY <1>4, <1>5, <1>7, <1>8, FocusPaneGood
<1>14. Reveal(w, s) = u
  BY <1>1, <1>3, <1>8 DEF Reveal
<1> QED
  BY <1>4, <1>5, <1>9, <1>10, <1>11, <1>12, <1>13, <1>14

(* An empty strip is good. *)
LEMMA EmptyGood == Good(EmptyWorkspace) /\ HostedIn(EmptyWorkspace) = {}
<1>1. PICK w : w = EmptyWorkspace
  OBVIOUS
<1>2. w = [tabs |-> <<>>, active |-> 1] /\ w.tabs = <<>> /\ Len(w.tabs) = 0
  BY <1>1 DEF EmptyWorkspace
<1>3. w \in StripsOver(TabsWith({}))
  BY <1>2 DEF StripsOver
<1>4. Sound(w)
  <2>1. Boundary(w.tabs, 0) /\ ShownFits(w, 0)
    BY <1>2 DEF Boundary, ShownFits
  <2> QED
    BY <2>1 DEF Sound
<1>5. Apart(w.tabs)
  BY <1>2 DEF Apart
<1>6. Good(w)
  BY <1>3, <1>4, <1>5, GoodFrom
<1>7. HostedIn(w) = {}
  BY <1>2 DEF HostedIn
<1> QED
  BY <1>1, <1>6, <1>7

-----------------------------------------------------------------------------
(***************************************************************************)
(* Which tab is which: the order of the tabs and the one shown.            *)
(***************************************************************************)

(* The tab at i of w and the tab at j of v share a session. *)
Overlap(w, i, v, j) == HostedBy(w.tabs[i]) \cap HostedBy(v.tabs[j]) # {}

(* The tabs of w but one keep their order in v. *)
InOrder(w, v, moved) ==
  \A a, b \in (1 .. Len(w.tabs)) \ {moved} : \A c, d \in 1 .. Len(v.tabs) :
    a < b /\ Overlap(w, a, v, c) /\ Overlap(w, b, v, d) => c < d

(* The tab shown in w is shown in v, if it is there and not left parked beside
   one that is not. *)
ShownStays(w, v) ==
  \A j \in 1 .. Len(v.tabs) :
    Overlap(w, w.active, v, j) /\ v.active # j =>
      v.tabs[j].parked /\ \E k \in 1 .. Len(v.tabs) : ~v.tabs[k].parked

(* A tab found again is where it was carried to, no other tab sharing its
   sessions. *)
LEMMA LandsAt ==
  ASSUME NEW w, Good(w), NEW v, Good(v), NEW a \in 1 .. Len(w.tabs),
         NEW c \in 1 .. Len(v.tabs), NEW d \in 1 .. Len(v.tabs),
         HostedBy(v.tabs[d]) = HostedBy(w.tabs[a]), Overlap(w, a, v, c)
  PROVE  c = d
BY GoodStrip DEF Apart, Overlap

(* In a strip rearranged every tab is where the shift says. *)
LEMMA ShuffledLands ==
  ASSUME NEW w, Good(w), NEW v, Good(v), NEW from, NEW to, Shuffled(w, v, from, to),
         NEW a \in 1 .. Len(w.tabs), NEW c \in 1 .. Len(v.tabs), Overlap(w, a, v, c)
  PROVE  c = ShiftIndex(a, from, to)
<1>1. PICK d : d = ShiftIndex(a, from, to)
  OBVIOUS
<1>2. d \in 1 .. Len(v.tabs) /\ v.tabs[d].layout = w.tabs[a].layout
  BY <1>1 DEF Shuffled
<1>3. HostedBy(v.tabs[d]) = HostedBy(w.tabs[a])
  BY <1>2 DEF HostedBy
<1> QED
  BY <1>1, <1>2, <1>3, LandsAt

(* A tab taken out and put back elsewhere is the one that moved. *)
LEMMA ShuffledOrder ==
  ASSUME NEW w, Good(w), NEW v, Good(v), NEW from \in 1 .. Len(w.tabs),
         NEW to \in 1 .. Len(w.tabs), Shuffled(w, v, from, to)
  PROVE  InOrder(w, v, from)
<1>1. Len(w.tabs) \in Nat
  BY GoodStrip
<1>2. ASSUME NEW a \in (1 .. Len(w.tabs)) \ {from}, NEW b \in (1 .. Len(w.tabs)) \ {from},
             NEW c \in 1 .. Len(v.tabs), NEW d \in 1 .. Len(v.tabs),
             a < b, Overlap(w, a, v, c), Overlap(w, b, v, d)
      PROVE  c < d
  <2>1. c = ShiftIndex(a, from, to)
    BY <1>2, ShuffledLands
  <2>2. d = ShiftIndex(b, from, to)
    BY <1>2, ShuffledLands
  <2>3. ShiftIndex(a, from, to) < ShiftIndex(b, from, to)
    BY <1>1, <1>2 DEF ShiftIndex
  <2> QED
    BY <2>1, <2>2, <2>3
<1> QED
  BY <1>2 DEF InOrder

(* A rearrangement keeps the tab shown. *)
LEMMA RearrangedShows ==
  ASSUME NEW w, Good(w), NEW v, Good(v), Rearranged(w, v), w.active \in 1 .. Len(w.tabs)
  PROVE  ShownStays(w, v)
<1>1. PICK from, to \in 1 .. Len(w.tabs) : Shuffled(w, v, from, to) /\ KeepsShown(w, v, from, to)
  BY DEF Rearranged
<1>2. ASSUME NEW j \in 1 .. Len(v.tabs), Overlap(w, w.active, v, j), v.active # j
      PROVE  v.tabs[j].parked /\ \E k \in 1 .. Len(v.tabs) : ~v.tabs[k].parked
  <2>1. j = ShiftIndex(w.active, from, to)
    BY <1>1, <1>2, ShuffledLands
  <2> QED
    BY <1>1, <1>2, <2>1 DEF KeepsShown
<1> QED
  BY <1>2 DEF ShownStays

(* With one more tab the others are where they were, or one further. *)
LEMMA InsertedLands ==
  ASSUME NEW w, Good(w), NEW v, Good(v), NEW at \in 1 .. Len(w.tabs) + 1, NEW tab,
         Inserted(w, v, at, tab),
         NEW a \in 1 .. Len(w.tabs), NEW c \in 1 .. Len(v.tabs), Overlap(w, a, v, c)
  PROVE  c = IF a < at THEN a ELSE a + 1
<1>0. Len(w.tabs) \in Nat
  BY GoodStrip
<1>1. PICK d : d = IF a < at THEN a ELSE a + 1
  OBVIOUS
<1>2. d \in 1 .. Len(v.tabs)
  BY <1>0, <1>1 DEF Inserted
<1>3. v.tabs[d] = w.tabs[a]
  BY <1>1 DEF Inserted
<1> QED
  BY <1>1, <1>2, <1>3, LandsAt

(* A tab put in moves none of the others past each other. *)
LEMMA InsertedOrder ==
  ASSUME NEW w, Good(w), NEW v, Good(v), NEW at \in 1 .. Len(w.tabs) + 1, NEW tab,
         Inserted(w, v, at, tab), NEW moved
  PROVE  InOrder(w, v, moved)
<1>1. Len(w.tabs) \in Nat
  BY GoodStrip
<1>2. ASSUME NEW a \in 1 .. Len(w.tabs), NEW b \in 1 .. Len(w.tabs),
             NEW c \in 1 .. Len(v.tabs), NEW d \in 1 .. Len(v.tabs),
             a < b, Overlap(w, a, v, c), Overlap(w, b, v, d)
      PROVE  c < d
  <2>1. c = IF a < at THEN a ELSE a + 1
    BY <1>2, InsertedLands
  <2>2. d = IF b < at THEN b ELSE b + 1
    BY <1>2, InsertedLands
  <2> QED
    BY <1>1, <1>2, <2>1, <2>2
<1> QED
  BY <1>2 DEF InOrder

(* Without a tab the others are where they were, or one place before. *)
LEMMA RemovedLands ==
  ASSUME NEW w, Good(w), NEW v, Good(v), NEW i \in 1 .. Len(w.tabs), Removed(w, v, i),
         NEW a \in 1 .. Len(w.tabs), NEW c \in 1 .. Len(v.tabs), Overlap(w, a, v, c)
  PROVE  a # i /\ c = IF a < i THEN a ELSE a - 1
<1>0. Len(w.tabs) \in Nat /\ Len(v.tabs) = Len(w.tabs) - 1
  BY GoodStrip DEF Removed
<1>1. CASE a = i
  <2>1. PICK k : k = IF c < i THEN c ELSE c + 1
    OBVIOUS
  <2>2. k \in 1 .. Len(w.tabs) /\ k # i
    BY <1>0, <2>1
  <2>3. v.tabs[c] = w.tabs[k]
    BY <1>0, <2>1 DEF Removed
  <2> QED
    BY <1>1, <2>2, <2>3, GoodStrip DEF Apart, Overlap
<1>2. CASE a # i
  <2>1. PICK d : d = IF a < i THEN a ELSE a - 1
    OBVIOUS
  <2>2. d \in 1 .. Len(w.tabs) - 1 /\ (IF d < i THEN d ELSE d + 1) = a
    BY <1>0, <1>2, <2>1
  <2>3. v.tabs[d] = w.tabs[a]
    BY <2>2 DEF Removed
  <2> QED
    BY <1>0, <1>2, <2>1, <2>2, <2>3, LandsAt
<1> QED
  BY <1>1, <1>2

(* Nor does a tab taken out. *)
LEMMA RemovedOrder ==
  ASSUME NEW w, Good(w), NEW v, Good(v), NEW i \in 1 .. Len(w.tabs), Removed(w, v, i), NEW moved
  PROVE  InOrder(w, v, moved)
<1>1. Len(w.tabs) \in Nat
  BY GoodStrip
<1>2. ASSUME NEW a \in 1 .. Len(w.tabs), NEW b \in 1 .. Len(w.tabs),
             NEW c \in 1 .. Len(v.tabs), NEW d \in 1 .. Len(v.tabs),
             a < b, Overlap(w, a, v, c), Overlap(w, b, v, d)
      PROVE  c < d
  <2>1. a # i /\ c = IF a < i THEN a ELSE a - 1
    BY <1>2, RemovedLands
  <2>2. b # i /\ d = IF b < i THEN b ELSE b - 1
    BY <1>2, RemovedLands
  <2> QED
    BY <1>1, <1>2, <2>1, <2>2
<1> QED
  BY <1>2 DEF InOrder

(* In a strip with one tab laid out anew the tabs are where they were. *)
LEMMA RelaidLands ==
  ASSUME NEW w, Good(w), NEW i \in 1 .. Len(w.tabs), NEW l,
         NEW F, HostsNone(w.tabs, F), Hosted(l) \subseteq HostedBy(w.tabs[i]) \cup F,
         NEW a \in 1 .. Len(w.tabs), NEW c \in 1 .. Len(Relaid(w, i, l).tabs),
         Overlap(w, a, Relaid(w, i, l), c)
  PROVE  c = a
<1>1. PICK v : v = Relaid(w, i, l)
  OBVIOUS
<1>2. Len(v.tabs) = Len(w.tabs)
  BY <1>1, RelaidTabs
<1>3. CASE c = i
  <2>1. v.tabs[i] = [layout |-> l, parked |-> w.tabs[i].parked]
    BY <1>1, RelaidTabs
  <2>2. HostedBy(v.tabs[i]) = Hosted(l)
    BY <2>1 DEF HostedBy
  <2>3. HostedBy(w.tabs[a]) \cap HostedBy(w.tabs[i]) # {}
    BY <1>1, <1>3, <2>2 DEF Overlap, HostsNone
  <2> QED
    BY <1>3, <2>3, GoodStrip DEF Apart
<1>4. CASE c # i
  <2>1. Others(w.tabs, v.tabs, i)
    BY <1>1, RelaidTabs
  <2>2. v.tabs[c] = w.tabs[c]
    BY <1>1, <1>2, <1>4, <2>1 DEF Others
  <2>3. HostedBy(w.tabs[a]) \cap HostedBy(w.tabs[c]) # {} /\ c \in 1 .. Len(w.tabs)
    BY <1>1, <1>2, <2>2 DEF Overlap
  <2> QED
    BY <2>3, GoodStrip DEF Apart
<1> QED
  BY <1>3, <1>4

(* Laying out one tab anew moves none and keeps the tab shown. *)
LEMMA RelaidKeeps ==
  ASSUME NEW w, Good(w), NEW i \in 1 .. Len(w.tabs), NEW l,
         NEW F, HostsNone(w.tabs, F), Hosted(l) \subseteq HostedBy(w.tabs[i]) \cup F,
         NEW moved
  PROVE  /\ InOrder(w, Relaid(w, i, l), moved)
         /\ w.active \in 1 .. Len(w.tabs) => ShownStays(w, Relaid(w, i, l))
<1>1. PICK v : v = Relaid(w, i, l)
  OBVIOUS
<1>2. v.active = w.active
  BY <1>1, RelaidTabs
<1>3. ASSUME NEW a \in 1 .. Len(w.tabs), NEW c \in 1 .. Len(v.tabs), Overlap(w, a, v, c)
      PROVE  c = a
  BY <1>1, <1>3, RelaidLands
<1>4. InOrder(w, v, moved)
  BY <1>3 DEF InOrder
<1>5. w.active \in 1 .. Len(w.tabs) => ShownStays(w, v)
  BY <1>2, <1>3 DEF ShownStays
<1> QED
  BY <1>1, <1>4, <1>5

(* The focus stays in the same pane, unless all tabs were parked and one is not
   any more. *)
FocusStays(w, v) ==
  \/ v.active \in 1 .. Len(v.tabs) /\ FocusedIn(v) = FocusedIn(w)
  \/ /\ \A i \in 1 .. Len(w.tabs) : w.tabs[i].parked
     /\ \E i \in 1 .. Len(v.tabs) : ~v.tabs[i].parked

(* The same tab shown has the same pane in focus. *)
LEMMA SameShown ==
  ASSUME NEW w, NEW v, v.active \in 1 .. Len(v.tabs),
         v.tabs[v.active].layout = w.tabs[w.active].layout
  PROVE  FocusStays(w, v)
BY DEF FocusStays, FocusedIn, Shown

(* A tab opened behind, before the parked zone, leaves the tab shown, unless all
   are parked: then it takes over. *)
LEMMA AppendKeeps ==
  ASSUME NEW w, Good(w), w.active \in 1 .. Len(w.tabs), NEW s, s \notin HostedIn(w)
  PROVE  ShownStays(w, AppendTab(w, s)) /\ FocusStays(w, AppendTab(w, s))
<1>1. PICK v : v = AppendTab(w, s)
  OBVIOUS
<1>2. PICK at : at = FirstParked(w.tabs)
  OBVIOUS
<1>3. PICK tab : tab = NewTab(s)
  OBVIOUS
<1>4. Good(v) /\ Inserted(w, v, at, tab) /\ at \in 1 .. Len(w.tabs) + 1
  BY <1>1, <1>2, <1>3, AppendGood
<1>5. v.active = IF w.active >= at THEN at ELSE w.active
  BY <1>1, <1>2 DEF AppendTab, InsertTab
<1>6. PICK n \in Nat : Boundary(w.tabs, n) /\ ShownFits(w, n)
  BY DEF Good, Sound
<1>7. at = n + 1
  BY <1>2, <1>6, GoodStrip, FirstParkedIs
<1>8. Len(w.tabs) \in Nat /\ Len(v.tabs) = Len(w.tabs) + 1
  BY <1>4, GoodStrip DEF Inserted
<1>9. CASE w.active < at
  <2>1. v.active = w.active /\ v.active \in 1 .. Len(v.tabs)
    BY <1>5, <1>7, <1>8, <1>9
  <2>2. v.tabs[w.active] = w.tabs[w.active]
    BY <1>4, <1>9 DEF Inserted
  <2>3. FocusStays(w, v)
    BY <2>1, <2>2, SameShown
  <2>4. ASSUME NEW j \in 1 .. Len(v.tabs), Overlap(w, w.active, v, j)
        PROVE  j = v.active
    BY <1>4, <1>9, <2>1, <2>4, InsertedLands
  <2> QED
    BY <1>1, <2>3, <2>4 DEF ShownStays
<1>10. CASE ~(w.active < at)
  <2>1. n = 0 /\ at = 1
    BY <1>6, <1>7, <1>8, <1>10 DEF ShownFits
  <2>2. \A i \in 1 .. Len(w.tabs) : w.tabs[i].parked
    BY <1>6, <2>1 DEF Boundary
  <2>3. at \in 1 .. Len(v.tabs) /\ ~v.tabs[at].parked
    BY <1>3, <1>4, <1>8 DEF Inserted, NewTab
  <2>4. ASSUME NEW j \in 1 .. Len(v.tabs), Overlap(w, w.active, v, j)
        PROVE  v.tabs[j].parked
    <3>1. j = w.active + 1
      BY <1>4, <1>10, <2>4, InsertedLands
    <3>2. v.tabs[j] = w.tabs[w.active]
      BY <1>4, <1>10, <3>1 DEF Inserted
    <3> QED
      BY <2>2, <3>2
  <2> QED
    BY <1>1, <2>2, <2>3, <2>4 DEF ShownStays, FocusStays
<1> QED
  BY <1>6, <1>7, <1>8, <1>9, <1>10

(* Closing a tab keeps the one shown, unless it is the one closed. *)
LEMMA CloseAtKeeps ==
  ASSUME NEW w, Good(w), w.active \in 1 .. Len(w.tabs), NEW i \in 1 .. Len(w.tabs)
  PROVE  /\ ShownStays(w, CloseAt(w, i))
         /\ w.active # i => FocusStays(w, CloseAt(w, i))
<1>1. PICK v : v = CloseAt(w, i)
  OBVIOUS
<1>2. Good(v) /\ Removed(w, v, i)
  BY <1>1, CloseAtGood
<1>3. Len(w.tabs) \in Nat /\ Len(v.tabs) = Len(w.tabs) - 1
  BY <1>2, GoodStrip DEF Removed
<1>4. PICK a : a = w.active
  OBVIOUS
<1>5. ASSUME NEW j \in 1 .. Len(v.tabs), Overlap(w, a, v, j)
      PROVE  a # i /\ j = IF a < i THEN a ELSE a - 1
  BY <1>2, <1>4, <1>5, RemovedLands
<1>6. a # i => v.active = IF a < i THEN a ELSE a - 1
  BY <1>1, <1>3, <1>4 DEF CloseAt
<1>7. ShownStays(w, v)
  BY <1>4, <1>5, <1>6 DEF ShownStays
<1>8. ASSUME a # i PROVE FocusStays(w, v)
  <2>1. PICK d : d = v.active
    OBVIOUS
  <2>2. d \in 1 .. Len(v.tabs) /\ (IF d < i THEN d ELSE d + 1) = a
    BY <1>3, <1>4, <1>6, <1>8, <2>1
  <2>3. v.tabs[d] = w.tabs[a]
    BY <1>2, <1>3, <2>2 DEF Removed
  <2> QED
    BY <1>4, <2>1, <2>2, <2>3, SameShown
<1> QED
  BY <1>1, <1>4, <1>7, <1>8

(* Laying out anew a tab that is not shown leaves the focus. *)
LEMMA RelaidFocus ==
  ASSUME NEW w, Good(w), w.active \in 1 .. Len(w.tabs), NEW i \in 1 .. Len(w.tabs),
         w.active # i, NEW l
  PROVE  FocusStays(w, Relaid(w, i, l))
<1>1. PICK v : v = Relaid(w, i, l)
  OBVIOUS
<1>2. v.active = w.active
  BY <1>1, RelaidTabs
<1>3. Len(v.tabs) = Len(w.tabs)
  BY <1>1, RelaidTabs
<1>4. Others(w.tabs, v.tabs, i)
  BY <1>1, RelaidTabs
<1>5. v.tabs[w.active] = w.tabs[w.active]
  BY <1>4 DEF Others
<1> QED
  BY <1>1, <1>2, <1>3, <1>5, SameShown

(* A close of a pane either closes its tab or lays it out anew without it. *)
LEMMA CloseLeafIs ==
  ASSUME NEW w, Good(w), NEW i \in 1 .. Len(w.tabs), NEW s \in HostedBy(w.tabs[i]),
         HostedBy(w.tabs[i]) # {s}
  PROVE  /\ CloseLeafAt(w, i, s) = Relaid(w, i, CloseLeaf(w.tabs[i].layout, s))
         /\ Hosted(CloseLeaf(w.tabs[i].layout, s)) \subseteq HostedBy(w.tabs[i]) \cup {}
         /\ HostsNone(w.tabs, {})
<1>1. PICK tab : tab = w.tabs[i].layout
  OBVIOUS
<1>2. LayoutFits(tab) /\ Hosted(tab) = HostedBy(w.tabs[i])
  BY <1>1, LayoutOfTab DEF HostedBy
<1>3. Hosted(CloseLeaf(tab, s)) = Hosted(tab) \ {s}
  BY <1>2, CloseLeafFits
<1>4. CloseLeafAt(w, i, s) = Relaid(w, i, CloseLeaf(w.tabs[i].layout, s))
  BY DEF CloseLeafAt, Relaid
<1> QED
  BY <1>1, <1>2, <1>3, <1>4 DEF HostsNone

(* Closing a pane, with or without its tab, keeps the tab shown and, unless the
   pane was in it, the focus. *)
LEMMA CloseLeafKeeps ==
  ASSUME NEW w, Good(w), w.active \in 1 .. Len(w.tabs),
         NEW i \in 1 .. Len(w.tabs), NEW s \in HostedBy(w.tabs[i])
  PROVE  /\ ShownStays(w, CloseLeafAt(w, i, s))
         /\ InOrder(w, CloseLeafAt(w, i, s), i)
         /\ w.active # i => FocusStays(w, CloseLeafAt(w, i, s))
<1>1. CASE HostedBy(w.tabs[i]) = {s}
  <2>1. CloseLeafAt(w, i, s) = CloseAt(w, i)
    BY <1>1 DEF CloseLeafAt
  <2>2. InOrder(w, CloseAt(w, i), i)
    BY CloseAtGood, RemovedOrder
  <2> QED
    BY <2>1, <2>2, CloseAtKeeps
<1>2. CASE HostedBy(w.tabs[i]) # {s}
  <2>1. PICK l : l = CloseLeaf(w.tabs[i].layout, s)
    OBVIOUS
  <2>2. CloseLeafAt(w, i, s) = Relaid(w, i, l)
    BY <1>2, <2>1, CloseLeafIs
  <2>3. Hosted(l) \subseteq HostedBy(w.tabs[i]) \cup {} /\ HostsNone(w.tabs, {})
    BY <1>2, <2>1, CloseLeafIs
  <2>4. InOrder(w, Relaid(w, i, l), i)
    BY <2>3, RelaidKeeps
  <2>5. ShownStays(w, Relaid(w, i, l))
    BY <2>3, RelaidKeeps
  <2>6. w.active # i => FocusStays(w, Relaid(w, i, l))
    BY RelaidFocus
  <2> QED
    BY <2>2, <2>4, <2>5, <2>6
<1> QED
  BY <1>1, <1>2

(* Unparking a tab keeps the one shown, unless all are parked. *)
LEMMA UnparkKeeps ==
  ASSUME NEW w, Good(w), w.active \in 1 .. Len(w.tabs), NEW i \in 1 .. Len(w.tabs),
         w.tabs[i].parked
  PROVE  FocusStays(w, Unpark(w, i))
<1>1. PICK n \in Nat : Boundary(w.tabs, n) /\ ShownFits(w, n)
  BY DEF Good, Sound
<1>2. PICK v : v = Unpark(w, i)
  OBVIOUS
<1>3. n + 1 \in 1 .. Len(v.tabs)
  BY <1>1, <1>2, GoodStrip, UnparkIs
<1>4. Boundary(v.tabs, n + 1)
  BY <1>1, <1>2, GoodStrip, UnparkIs
<1>5. Len(w.tabs) \in Nat /\ i > n
  BY <1>1, GoodStrip DEF Boundary
<1>6. CASE n = 0
  <2>1. \A k \in 1 .. Len(w.tabs) : w.tabs[k].parked
    BY <1>1, <1>6 DEF Boundary
  <2>2. ~v.tabs[n + 1].parked
    BY <1>3, <1>4 DEF Boundary
  <2> QED
    BY <1>2, <1>3, <2>1, <2>2 DEF FocusStays
<1>7. CASE n # 0
  <2>1. PICK a : a = w.active
    OBVIOUS
  <2>2. a \in 1 .. n
    BY <1>1, <1>5, <1>7, <2>1 DEF ShownFits
  <2>3. PICK to : to = n + 1
    OBVIOUS
  <2>4. to \in 1 .. Len(w.tabs) /\ FALSE \in BOOLEAN
    BY <1>5, <2>3
  <2>5. v = Relocate(w, i, to, FALSE)
    BY <1>1, <1>2, <2>3, GoodStrip, FirstParkedIs DEF Unpark
  <2>6. Shuffled(w, v, i, to)
    BY <2>4, <2>5, RelocateShuffles
  <2>7. ShiftIndex(a, i, to) = a
    BY <1>5, <2>2, <2>3 DEF ShiftIndex
  <2>8. a \in 1 .. Len(v.tabs) /\ v.tabs[a].layout = w.tabs[a].layout
    BY <2>1, <2>6, <2>7 DEF Shuffled
  <2>9. ~v.tabs[a].parked
    BY <1>4, <2>2, <2>8 DEF Boundary
  <2>10. v.active = a
    BY <2>1, <2>5, <2>7, <2>9 DEF Relocate
  <2> QED
    BY <1>2, <2>1, <2>8, <2>10, SameShown
<1> QED
  BY <1>6, <1>7

-----------------------------------------------------------------------------
(***************************************************************************)
(* The drawing order of the panes that stay.                               *)
(***************************************************************************)

(* The sessions both hold are drawn in the same order. *)
DrawnAlike(old, new) ==
  \A t, u \in DOMAIN old \cap DOMAIN new : Before(old[t], old[u]) <=> Before(new[t], new[u])

(* The session in focus keeps it, if it is still there. *)
FocusKept(l, m) == FocusedSession(l) \in Hosted(m) => FocusedSession(m) = FocusedSession(l)

(* Of two trees it is enough that what is before stays before. *)
LEMMA BeforeEnough ==
  ASSUME NEW l, IsTree(l), NEW m, IsTree(m),
         \A t, u \in Hosted(l) \cap Hosted(m) :
           Before(l.at[t], l.at[u]) => Before(m.at[t], m.at[u])
  PROVE  DrawnAlike(l.at, m.at)
<1>1. ASSUME NEW t \in Hosted(l) \cap Hosted(m), NEW u \in Hosted(l) \cap Hosted(m),
             Before(m.at[t], m.at[u])
      PROVE  Before(l.at[t], l.at[u])
  <2>1. l.at[t] \in LeafPaths(l) /\ l.at[u] \in LeafPaths(l)
    BY DEF LeafPaths
  <2>2. m.at[t] \in Path /\ m.at[u] \in Path
    BY TreeIs DEF LeafPaths, Nodes
  <2>3. CASE l.at[t] = l.at[u]
    <3>1. t = u
      BY <2>3 DEF IsTree
    <3> QED
      BY <1>1, <3>1, BeforeIrreflexive
  <2>4. CASE Before(l.at[u], l.at[t])
    <3>1. Before(m.at[u], m.at[t])
      BY <2>4
    <3>2. Before(m.at[t], m.at[t])
      BY <1>1, <2>2, <3>1, BeforeTransitive
    <3> QED
      BY <3>2, BeforeIrreflexive
  <2> QED
    BY <2>1, <2>3, <2>4, BeforeTotal
<1> QED
  BY <1>1 DEF DrawnAlike, Hosted

(* Paths that go on keep the order they had. *)
LEMMA BeforeExtends ==
  ASSUME NEW p \in Path, NEW q \in Path, NEW p2 \in Path, NEW q2 \in Path,
         IsPrefix(p, p2), IsPrefix(q, q2), Before(p, q)
  PROVE  Before(p2, q2)
<1>1. Len(p) <= Len(p2) /\ \A i \in 1 .. Len(p) : p[i] = p2[i]
  BY PrefixIs
<1>2. Len(q) <= Len(q2) /\ \A i \in 1 .. Len(q) : q[i] = q2[i]
  BY PrefixIs
<1>3. DOMAIN p = 1 .. Len(p) /\ DOMAIN q = 1 .. Len(q) /\ Len(p) \in Nat /\ Len(q) \in Nat
  BY PathIs
<1>4. DOMAIN p2 = 1 .. Len(p2) /\ DOMAIN q2 = 1 .. Len(q2) /\ Len(p2) \in Nat /\ Len(q2) \in Nat
  BY PathIs
<1>5. PICK i \in 1 .. Len(p) : /\ i \in 1 .. Len(q) /\ p[i] = "A" /\ q[i] = "B"
                               /\ \A j \in 1 .. i - 1 : p[j] = q[j]
  BY <1>3 DEF Before
<1>6. i \in DOMAIN p2 \cap DOMAIN q2 /\ p2[i] = "A" /\ q2[i] = "B"
  BY <1>1, <1>2, <1>3, <1>4, <1>5
<1>7. \A j \in 1 .. i - 1 : p2[j] = q2[j]
  BY <1>1, <1>2, <1>3, <1>5
<1> QED
  BY <1>6, <1>7 DEF Before

(* A split leaves the panes in their order. *)
LEMMA SplitDrawn ==
  ASSUME NEW l, LayoutFits(l), NEW d \in SplitDir, NEW s, s \notin Hosted(l)
  PROVE  DrawnAlike(l.at, SplitFocus(l, d, s).at)
<1>1. PICK m : m = SplitFocus(l, d, s)
  OBVIOUS
<1>2. IsTree(l) /\ IsTree(m) /\ l.focus \in LeafPaths(l)
  BY <1>1, SplitFocusFits DEF LayoutFits, FocusOnLeaf
<1>3. l.focus \in Path
  BY <1>2, TreeIs DEF Nodes
<1>4. ASSUME NEW t \in Hosted(l)
      PROVE  l.at[t] \in Path /\ m.at[t] \in Path /\ IsPrefix(l.at[t], m.at[t])
  <2>1. l.at[t] \in Path
    BY <1>2, TreeIs DEF LeafPaths, Nodes
  <2>2. m.at[t] = SplitPath(l, s, t)
    BY <1>1 DEF SplitFocus
  <2>3. CASE l.at[t] = l.focus
    <3>1. PICK q : q = Append(l.focus, "A")
      OBVIOUS
    <3>2. m.at[t] = q
      BY <2>2, <2>3, <3>1, SplitPathIs
    <3>3. /\ q \in Path /\ Len(l.focus) \in Nat
          /\ Len(q) = Len(l.focus) + 1
          /\ \A i \in 1 .. Len(l.focus) : q[i] = l.focus[i]
      BY <1>3, <3>1, AppendIs, BranchIs
    <3>4. IsPrefix(l.focus, q)
      <4>1. Len(l.focus) <= Len(q)
        BY <3>3
      <4>2. \A i \in 1 .. Len(l.focus) : l.focus[i] = q[i]
        BY <3>3
      <4> QED
        BY <1>3, <3>3, <4>1, <4>2, PrefixIs
    <3> QED
      BY <2>1, <2>3, <3>2, <3>3, <3>4
  <2>4. CASE l.at[t] # l.focus
    <3>1. m.at[t] = l.at[t]
      BY <2>2, <2>4, SplitPathIs
    <3>2. IsPrefix(l.at[t], l.at[t])
      BY <2>1, PrefixIs, PathIs
    <3> QED
      BY <2>1, <3>1, <3>2
  <2> QED
    BY <2>3, <2>4
<1>5. \A t, u \in Hosted(l) \cap Hosted(m) :
        Before(l.at[t], l.at[u]) => Before(m.at[t], m.at[u])
  BY <1>4, BeforeExtends
<1> QED
  BY <1>1, <1>2, <1>5, BeforeEnough

(* Paths that are no prefix of each other keep their order when one subtree
   takes its parent's place. *)
LEMMA BeforeLifts ==
  ASSUME NEW P \in Path, NEW c \in Branch, NEW p \in Path, NEW q \in Path, Before(p, q),
         IsPrefix(Append(P, c), p) \/ ~IsPrefix(P, p),
         IsPrefix(Append(P, c), q) \/ ~IsPrefix(P, q)
  PROVE  Before(Lift(p, P, Append(P, c)), Lift(q, P, Append(P, c)))
<1>1. PICK S : S = Append(P, c)
  OBVIOUS
<1>2. S \in Path /\ Len(P) \in Nat /\ Len(S) = Len(P) + 1 /\ S[Len(P) + 1] = c
  BY <1>1, AppendIs
<1>3. \A j \in 1 .. Len(P) : S[j] = P[j]
  BY <1>1, AppendIs
<1>4. DOMAIN p = 1 .. Len(p) /\ DOMAIN q = 1 .. Len(q) /\ Len(p) \in Nat /\ Len(q) \in Nat
  BY PathIs
<1>5. PICK i \in 1 .. Len(p) : /\ i \in 1 .. Len(q) /\ p[i] = "A" /\ q[i] = "B"
                               /\ \A j \in 1 .. i - 1 : p[j] = q[j]
  BY <1>4 DEF Before
<1>6. PICK r : r = Lift(p, P, S)
  OBVIOUS
<1>7. PICK t : t = Lift(q, P, S)
  OBVIOUS
<1>8. CASE IsPrefix(S, p) /\ IsPrefix(S, q)
  <2>1. \A j \in 1 .. Len(S) : p[j] = S[j] /\ q[j] = S[j]
    BY <1>2, <1>8, PrefixIs
  <2>2. i > Len(P) + 1
    BY <1>2, <1>5, <2>1
  <2>3. /\ r \in Path /\ Len(r) = Len(p) - 1
        /\ \A j \in 1 .. Len(P) : r[j] = P[j]
        /\ \A j \in Len(P) + 1 .. Len(p) - 1 : r[j] = p[j + 1]
    BY <1>1, <1>6, <1>8, LiftIs
  <2>4. /\ t \in Path /\ Len(t) = Len(q) - 1
        /\ \A j \in 1 .. Len(P) : t[j] = P[j]
        /\ \A j \in Len(P) + 1 .. Len(q) - 1 : t[j] = q[j + 1]
    BY <1>1, <1>7, <1>8, LiftIs
  <2>5. PICK k : k = i - 1
    OBVIOUS
  <2>6. k \in Len(P) + 1 .. Len(p) - 1 /\ k \in Len(P) + 1 .. Len(q) - 1 /\ k + 1 = i
    BY <1>2, <1>4, <1>5, <2>2, <2>5
  <2>7. r[k] = "A" /\ t[k] = "B"
    BY <1>5, <2>3, <2>4, <2>6
  <2>8. k \in DOMAIN r \cap DOMAIN t
    <3>1. DOMAIN r = 1 .. Len(r) /\ DOMAIN t = 1 .. Len(t)
      BY <2>3, <2>4, PathIs
    <3> QED
      BY <1>2, <1>4, <2>3, <2>4, <2>6, <3>1
  <2>9. ASSUME NEW j \in 1 .. k - 1 PROVE r[j] = t[j]
    <3>1. CASE j <= Len(P)
      BY <1>2, <2>3, <2>4, <3>1
    <3>2. CASE j > Len(P)
      <4>1. j \in Len(P) + 1 .. Len(p) - 1 /\ j \in Len(P) + 1 .. Len(q) - 1
            /\ j + 1 \in 1 .. i - 1
        BY <1>2, <1>4, <2>6, <3>2
      <4> QED
        BY <1>5, <2>3, <2>4, <4>1
    <3> QED
      BY <1>2, <2>6, <3>1, <3>2
  <2> QED
    BY <1>1, <1>6, <1>7, <2>7, <2>8, <2>9 DEF Before
<1>9. CASE IsPrefix(S, p) /\ ~IsPrefix(S, q)
  <2>1. \A j \in 1 .. Len(S) : p[j] = S[j]
    BY <1>2, <1>9, PrefixIs
  <2>2. ~IsPrefix(P, q) /\ t = q
    BY <1>1, <1>7, <1>9 DEF Lift
  <2>3. i <= Len(P)
    <3> SUFFICES ASSUME i > Len(P) PROVE FALSE
      BY <1>2, <1>5
    <3>1. \A j \in 1 .. Len(P) : P[j] = q[j]
      BY <1>2, <1>3, <1>5, <2>1
    <3>2. Len(P) <= Len(q)
      BY <1>2, <1>4, <1>5
    <3> QED
      BY <2>2, <3>1, <3>2, PrefixIs
  <2>4. /\ r \in Path /\ Len(r) = Len(p) - 1 /\ Len(P) \in 0 .. Len(p) - 1
        /\ \A j \in 1 .. Len(P) : r[j] = P[j]
    BY <1>1, <1>6, <1>9, LiftIs
  <2>5. \A j \in 1 .. i : r[j] = p[j]
    BY <1>2, <1>3, <1>5, <2>1, <2>3, <2>4
  <2>6. i \in DOMAIN r \cap DOMAIN t
    <3>1. DOMAIN r = 1 .. Len(r)
      BY <2>4, PathIs
    <3> QED
      BY <1>4, <1>5, <2>2, <2>3, <2>4, <3>1
  <2>7. r[i] = "A" /\ t[i] = "B" /\ \A j \in 1 .. i - 1 : r[j] = t[j]
    BY <1>5, <2>2, <2>5
  <2> QED
    BY <1>1, <1>6, <1>7, <2>6, <2>7 DEF Before
<1>10. CASE ~IsPrefix(S, p) /\ IsPrefix(S, q)
  <2>1. \A j \in 1 .. Len(S) : q[j] = S[j]
    BY <1>2, <1>10, PrefixIs
  <2>2. ~IsPrefix(P, p) /\ r = p
    BY <1>1, <1>6, <1>10 DEF Lift
  <2>3. i <= Len(P)
    <3> SUFFICES ASSUME i > Len(P) PROVE FALSE
      BY <1>2, <1>5
    <3>1. \A j \in 1 .. Len(P) : P[j] = p[j]
      BY <1>2, <1>3, <1>5, <2>1
    <3>2. Len(P) <= Len(p)
      BY <1>2, <1>4, <1>5
    <3> QED
      BY <2>2, <3>1, <3>2, PrefixIs
  <2>4. /\ t \in Path /\ Len(t) = Len(q) - 1 /\ Len(P) \in 0 .. Len(q) - 1
        /\ \A j \in 1 .. Len(P) : t[j] = P[j]
    BY <1>1, <1>7, <1>10, LiftIs
  <2>5. \A j \in 1 .. i : t[j] = q[j]
    BY <1>2, <1>3, <1>5, <2>1, <2>3, <2>4
  <2>6. i \in DOMAIN r \cap DOMAIN t
    <3>1. DOMAIN t = 1 .. Len(t)
      BY <2>4, PathIs
    <3> QED
      BY <1>4, <1>5, <2>2, <2>3, <2>4, <3>1
  <2>7. r[i] = "A" /\ t[i] = "B" /\ \A j \in 1 .. i - 1 : r[j] = t[j]
    BY <1>5, <2>2, <2>5
  <2> QED
    BY <1>1, <1>6, <1>7, <2>6, <2>7 DEF Before
<1>11. CASE ~IsPrefix(S, p) /\ ~IsPrefix(S, q)
  BY <1>1, <1>11 DEF Lift
<1> QED
  BY <1>8, <1>9, <1>10, <1>11

(* A close leaves the other panes in their order, and the focus, if it was on
   one of them. *)
LEMMA CloseLeafDrawn ==
  ASSUME NEW l, LayoutFits(l), NEW s \in Hosted(l), Hosted(l) # {s}
  PROVE  DrawnAlike(l.at, CloseLeaf(l, s).at) /\ FocusKept(l, CloseLeaf(l, s))
<1>1. PICK P : P = Above(l, s)
  OBVIOUS
<1>2. PICK b : b = Last(l.at[s])
  OBVIOUS
<1>3. PICK c : c = Opposite(b)
  OBVIOUS
<1>4. IsTree(l) /\ Shaped(l)
  BY DEF LayoutFits
<1>5. P \in Path /\ b \in Branch /\ c \in Branch /\ c # b
  BY <1>1, <1>2, <1>3, <1>4, ParentIs DEF Above
<1>6. l.at[s] = Append(P, b) /\ Append(P, b) \in LeafPaths(l) /\ P \in DOMAIN l.dir
  BY <1>1, <1>2, <1>4, ParentIs DEF Above
<1>7. PICK A : A = CollapsedAt(l, s, Above(l, s), Sibling(l, s))
  OBVIOUS
<1>8. PICK D : D = CollapsedDir(l, Above(l, s), Sibling(l, s))
  OBVIOUS
<1>9. PICK rest : rest = Collapse(l, s)
  OBVIOUS
<1>10. rest = [at |-> A, dir |-> D, focus |-> l.focus]
  BY <1>4, <1>7, <1>8, <1>9, CollapseIs
<1>11. PICK m : m = CloseLeaf(l, s)
  OBVIOUS
<1>12. PICK f : f = IF l.focus = l.at[s] THEN Descend(rest, Front(l.at[s]), "A")
                    ELSE rest.at[FocusedSession(l)]
  OBVIOUS
<1>12a. m = [rest EXCEPT !.focus = f]
  BY <1>9, <1>11, <1>12 DEF CloseLeaf
<1>12b. m = [at |-> A, dir |-> D, focus |-> f]
  BY <1>10, <1>12a
<1>12c. m.at = A /\ m.focus = f
  BY <1>12b
<1>13. IsTree(m) /\ LayoutFits(m) /\ Hosted(m) = Hosted(l) \ {s}
  BY <1>11, CloseLeafFits DEF LayoutFits
<1>14. Sibling(l, s) = Append(P, c)
  BY <1>1, <1>2, <1>3 DEF Sibling, Above
<1>15. ASSUME NEW t \in Hosted(m)
       PROVE  /\ l.at[t] \in Path /\ m.at[t] = Lift(l.at[t], P, Append(P, c))
              /\ IsPrefix(Append(P, c), l.at[t]) \/ ~IsPrefix(P, l.at[t])
  <2>1. t \in Hosted(l) /\ t # s
    BY <1>13
  <2>2. l.at[t] \in LeafPaths(l) /\ l.at[t] \in Nodes(l)
    BY <2>1 DEF LeafPaths, Nodes
  <2>3. l.at[t] # Append(P, b)
    BY <1>4, <1>6, <2>1 DEF IsTree
  <2>4. l.at[t] # P
    BY <1>4, <1>6, <2>2, TreeIs
  <2>5. l.at[t] \in Path /\ (IsPrefix(Append(P, c), l.at[t]) \/ ~IsPrefix(P, l.at[t]))
    BY <1>4, <1>5, <1>6, <2>2, <2>3, <2>4, StaysApart
  <2>6. m.at[t] = Lift(l.at[t], P, Append(P, c))
    BY <1>1, <1>7, <1>12c, <1>14, <2>1 DEF CollapsedAt
  <2> QED
    BY <2>5, <2>6
<1>16. \A t, u \in Hosted(l) \cap Hosted(m) :
         Before(l.at[t], l.at[u]) => Before(m.at[t], m.at[u])
  BY <1>5, <1>15, BeforeLifts
<1>17. DrawnAlike(l.at, m.at)
  BY <1>4, <1>13, <1>16, BeforeEnough
<1>18. FocusKept(l, m)
  <2> SUFFICES ASSUME FocusedSession(l) \in Hosted(m)
               PROVE  FocusedSession(m) = FocusedSession(l)
    BY DEF FocusKept
  <2>1. PICK t : t = FocusedSession(l)
    OBVIOUS
  <2>2. t \in Hosted(m) /\ t # s /\ l.at[t] = l.focus
    BY <1>13, <2>1, FocusedSessionIs
  <2>3. l.focus # l.at[s]
    BY <1>4, <1>13, <2>2 DEF IsTree
  <2>4. m.focus = A[t]
    <3>1. f = rest.at[t]
      BY <1>12, <2>1, <2>3
    <3>2. rest.at = A
      BY <1>10
    <3> QED
      BY <1>12c, <3>1, <3>2
  <2>5. SessionAt(m, m.at[t]) = t
    BY <1>13, <2>2, SessionAtIs
  <2> QED
    BY <1>12c, <2>1, <2>4, <2>5 DEF FocusedSession
<1> QED
  BY <1>11, <1>17, <1>18

-----------------------------------------------------------------------------
(***************************************************************************)
(* The panes of a strip that stay together.                                *)
(***************************************************************************)

(* Panes in one tab of w and in one tab of v are drawn there in one order. *)
Drawn(w, v) ==
  \A i \in 1 .. Len(w.tabs), j \in 1 .. Len(v.tabs) :
    DrawnAlike(w.tabs[i].layout.at, v.tabs[j].layout.at)

(* A pane with its tab's focus in w that is in a tab of v has its focus. *)
FocusesKept(w, v) ==
  \A i \in 1 .. Len(w.tabs), j \in 1 .. Len(v.tabs) :
    FocusKept(w.tabs[i].layout, v.tabs[j].layout)

(* Every tab of v that shares a session with a tab of w has that tab's layout. *)
Landed(w, v) ==
  \A i \in 1 .. Len(w.tabs), j \in 1 .. Len(v.tabs) :
    Overlap(w, i, v, j) => v.tabs[j].layout = w.tabs[i].layout

(* The tabs of v are those of w, focus and parked flags aside. *)
SamePanes(w, v) ==
  /\ Len(v.tabs) = Len(w.tabs)
  /\ \A j \in 1 .. Len(w.tabs) : v.tabs[j].layout.at = w.tabs[j].layout.at

(* Layouts with no session in common have nothing to keep. *)
LEMMA ApartDrawn ==
  ASSUME NEW l, LayoutFits(l), NEW m, Hosted(l) \cap Hosted(m) = {}
  PROVE  DrawnAlike(l.at, m.at) /\ FocusKept(l, m)
<1>1. FocusedSession(l) \in Hosted(l)
  BY FocusedSessionIs
<1>2. FocusKept(l, m)
  BY <1>1 DEF FocusKept
<1>3. DrawnAlike(l.at, m.at)
  BY DEF DrawnAlike, Hosted
<1> QED
  BY <1>2, <1>3

(* Tabs that only moved keep their panes as they were. *)
LEMMA LandedKeeps ==
  ASSUME NEW w, Good(w), NEW v, Landed(w, v)
  PROVE  Drawn(w, v) /\ FocusesKept(w, v)
<1>1. ASSUME NEW i \in 1 .. Len(w.tabs), NEW j \in 1 .. Len(v.tabs)
      PROVE  /\ DrawnAlike(w.tabs[i].layout.at, v.tabs[j].layout.at)
             /\ FocusKept(w.tabs[i].layout, v.tabs[j].layout)
  <2>1. LayoutFits(w.tabs[i].layout)
    BY LayoutOfTab
  <2>2. CASE Overlap(w, i, v, j)
    <3>1. v.tabs[j].layout = w.tabs[i].layout
      BY <2>2 DEF Landed
    <3> QED
      BY <3>1 DEF DrawnAlike, FocusKept
  <2>3. CASE ~Overlap(w, i, v, j)
    <3>1. Hosted(w.tabs[i].layout) \cap Hosted(v.tabs[j].layout) = {}
      BY <2>3 DEF Overlap, HostedBy
    <3> QED
      BY <2>1, <3>1, ApartDrawn
  <2> QED
    BY <2>2, <2>3
<1> QED
  BY <1>1 DEF Drawn, FocusesKept

(* The tabs of a strip taken apart and put together differently. *)
LEMMA ShuffledLanded ==
  ASSUME NEW w, Good(w), NEW v, Good(v), NEW from, NEW to, Shuffled(w, v, from, to)
  PROVE  Landed(w, v)
<1>1. ASSUME NEW i \in 1 .. Len(w.tabs), NEW j \in 1 .. Len(v.tabs), Overlap(w, i, v, j)
      PROVE  v.tabs[j].layout = w.tabs[i].layout
  <2>1. j = ShiftIndex(i, from, to)
    BY <1>1, ShuffledLands
  <2>2. v.tabs[ShiftIndex(i, from, to)].layout = w.tabs[i].layout
    BY DEF Shuffled
  <2> QED
    BY <2>1, <2>2
<1> QED
  BY <1>1 DEF Landed

(* A strip with a tab more. *)
LEMMA InsertedLanded ==
  ASSUME NEW w, Good(w), NEW v, Good(v), NEW at \in 1 .. Len(w.tabs) + 1, NEW tab,
         Inserted(w, v, at, tab)
  PROVE  Landed(w, v)
<1>1. ASSUME NEW i \in 1 .. Len(w.tabs), NEW j \in 1 .. Len(v.tabs), Overlap(w, i, v, j)
      PROVE  v.tabs[j].layout = w.tabs[i].layout
  <2>1. j = IF i < at THEN i ELSE i + 1
    BY <1>1, InsertedLands
  <2>2. v.tabs[IF i < at THEN i ELSE i + 1] = w.tabs[i]
    BY DEF Inserted
  <2> QED
    BY <2>1, <2>2
<1> QED
  BY <1>1 DEF Landed

(* A strip with a tab less. *)
LEMMA RemovedLanded ==
  ASSUME NEW w, Good(w), NEW v, Good(v), NEW i \in 1 .. Len(w.tabs), Removed(w, v, i)
  PROVE  Landed(w, v)
<1>0. Len(w.tabs) \in Nat
  BY GoodStrip
<1>1. ASSUME NEW a \in 1 .. Len(w.tabs), NEW j \in 1 .. Len(v.tabs), Overlap(w, a, v, j)
      PROVE  v.tabs[j].layout = w.tabs[a].layout
  <2>1. a # i /\ j = IF a < i THEN a ELSE a - 1
    BY <1>1, RemovedLands
  <2>2. Len(v.tabs) = Len(w.tabs) - 1
    BY DEF Removed
  <2>3. v.tabs[j] = w.tabs[IF j < i THEN j ELSE j + 1]
    BY <2>2 DEF Removed
  <2>4. (IF j < i THEN j ELSE j + 1) = a
    BY <1>0, <2>1
  <2> QED
    BY <2>3, <2>4
<1> QED
  BY <1>1 DEF Landed

(* One tab given another layout. *)
LEMMA RelaidDrawn ==
  ASSUME NEW w, Good(w), NEW i \in 1 .. Len(w.tabs), NEW l,
         NEW F, HostsNone(w.tabs, F), Hosted(l) \subseteq HostedBy(w.tabs[i]) \cup F,
         DrawnAlike(w.tabs[i].layout.at, l.at)
  PROVE  /\ Drawn(w, Relaid(w, i, l))
         /\ FocusKept(w.tabs[i].layout, l) => FocusesKept(w, Relaid(w, i, l))
<1>1. PICK v : v = Relaid(w, i, l)
  OBVIOUS
<1>2. v.tabs[i].layout = l
  <2>1. v.tabs[i] = [layout |-> l, parked |-> w.tabs[i].parked]
    BY <1>1, RelaidTabs
  <2> QED
    BY <2>1
<1>3. Len(v.tabs) = Len(w.tabs) /\ \A j \in 1 .. Len(w.tabs) : j # i => v.tabs[j] = w.tabs[j]
  <2>1. Len(v.tabs) = Len(w.tabs)
    BY <1>1, RelaidTabs
  <2>2. Others(w.tabs, v.tabs, i)
    BY <1>1, RelaidTabs
  <2> QED
    BY <2>1, <2>2 DEF Others
<1>4. ASSUME NEW a \in 1 .. Len(w.tabs), NEW c \in 1 .. Len(v.tabs)
      PROVE  /\ DrawnAlike(w.tabs[a].layout.at, v.tabs[c].layout.at)
             /\ FocusKept(w.tabs[i].layout, l) => FocusKept(w.tabs[a].layout, v.tabs[c].layout)
  <2>1. LayoutFits(w.tabs[a].layout)
    BY LayoutOfTab
  <2>2. CASE Overlap(w, a, v, c)
    <3>1. c = a
      BY <1>1, <2>2, RelaidLands
    <3>2. CASE a = i
      BY <1>2, <3>1, <3>2
    <3>3. CASE a # i
      <4>1. v.tabs[c].layout = w.tabs[a].layout
        BY <1>3, <3>1, <3>3
      <4> QED
        BY <4>1 DEF DrawnAlike, FocusKept
    <3> QED
      BY <3>2, <3>3
  <2>3. CASE ~Overlap(w, a, v, c)
    <3>1. Hosted(w.tabs[a].layout) \cap Hosted(v.tabs[c].layout) = {}
      BY <2>3 DEF Overlap, HostedBy
    <3> QED
      BY <2>1, <3>1, ApartDrawn
  <2> QED
    BY <2>2, <2>3
<1> QED
  BY <1>1, <1>4 DEF Drawn, FocusesKept

(* A strip keeps its own order and drawings. *)
LEMMA StillKeeps ==
  ASSUME NEW w, Good(w), NEW i \in 1 .. Len(w.tabs)
  PROVE  InOrder(w, w, i) /\ Drawn(w, w)
<1>1. Shuffled(w, w, i, i)
  BY StillShuffled
<1>2. Landed(w, w)
  BY <1>1, ShuffledLanded
<1> QED
  BY <1>1, <1>2, ShuffledOrder, LandedKeeps

(* Moving the focus changes neither the order of tabs nor a drawing. *)
LEMMA SamePanesKeep ==
  ASSUME NEW w, NEW u, NEW v, SamePanes(u, v), NEW moved,
         InOrder(w, u, moved), Drawn(w, u)
  PROVE  InOrder(w, v, moved) /\ Drawn(w, v)
<1>1. Len(v.tabs) = Len(u.tabs)
  BY DEF SamePanes
<1>2. \A j \in 1 .. Len(u.tabs) : v.tabs[j].layout.at = u.tabs[j].layout.at
  BY DEF SamePanes
<1>3. \A j \in 1 .. Len(u.tabs) : HostedBy(v.tabs[j]) = HostedBy(u.tabs[j])
  BY <1>2 DEF HostedBy, Hosted
<1>4. Drawn(w, v)
  BY <1>1, <1>2 DEF Drawn
<1>5. InOrder(w, v, moved)
  BY <1>1, <1>3 DEF InOrder, Overlap
<1> QED
  BY <1>4, <1>5

(* A layout with only its focus elsewhere. *)
LEMMA RelaidSamePanes ==
  ASSUME NEW w, Good(w), NEW i \in 1 .. Len(w.tabs), NEW l, l.at = w.tabs[i].layout.at
  PROVE  SamePanes(w, Relaid(w, i, l))
<1>1. PICK v : v = Relaid(w, i, l)
  OBVIOUS
<1>2. v.tabs[i].layout = l
  <2>1. v.tabs[i] = [layout |-> l, parked |-> w.tabs[i].parked]
    BY <1>1, RelaidTabs
  <2> QED
    BY <2>1
<1>3. Len(v.tabs) = Len(w.tabs) /\ \A j \in 1 .. Len(w.tabs) : j # i => v.tabs[j] = w.tabs[j]
  <2>1. Len(v.tabs) = Len(w.tabs)
    BY <1>1, RelaidTabs
  <2>2. Others(w.tabs, v.tabs, i)
    BY <1>1, RelaidTabs
  <2> QED
    BY <2>1, <2>2 DEF Others
<1> QED
  BY <1>1, <1>2, <1>3 DEF SamePanes

(* Every focus move leaves the tabs and their panes where they are. *)
LEMMA FocusMoves ==
  ASSUME NEW w, Good(w), w.active \in 1 .. Len(w.tabs)
  PROVE  /\ \A s \in HostedBy(Shown(w)) : SamePanes(w, FocusPane(w, s))
         /\ \A step : SamePanes(w, CyclePanes(w, step))
         /\ \A d \in Direction : SamePanes(w, FocusDir(w, d))
<1>1. PICK i : i = w.active
  OBVIOUS
<1>2. PICK l : l = w.tabs[i].layout
  OBVIOUS
<1>3. Shaped(l)
  BY <1>1, <1>2, LayoutOfTab DEF LayoutFits
<1>4. \A f : [l EXCEPT !.focus = f].at = l.at
  BY <1>3 DEF Shaped
<1>5. ASSUME NEW s \in HostedBy(Shown(w)) PROVE SamePanes(w, FocusPane(w, s))
  <2>1. FocusOn(l, s).at = l.at
    BY <1>4 DEF FocusOn
  <2>2. FocusPane(w, s) = Relaid(w, i, FocusOn(l, s))
    BY <1>1, <1>2 DEF FocusPane, Relaid
  <2> QED
    BY <1>1, <1>2, <2>1, <2>2, RelaidSamePanes
<1>6. ASSUME NEW step PROVE SamePanes(w, CyclePanes(w, step))
  <2>1. CycleFocus(l, step).at = l.at
    BY <1>4 DEF CycleFocus
  <2>2. CyclePanes(w, step) = Relaid(w, i, CycleFocus(l, step))
    BY <1>1, <1>2 DEF CyclePanes, Relaid
  <2> QED
    BY <1>1, <1>2, <2>1, <2>2, RelaidSamePanes
<1>7. ASSUME NEW d \in Direction PROVE SamePanes(w, FocusDir(w, d))
  <2>1. FocusDirOf(l, d).at = l.at
    BY <1>4 DEF FocusDirOf
  <2>2. FocusDir(w, d) = Relaid(w, i, FocusDirOf(l, d))
    BY <1>1, <1>2 DEF FocusDir, Relaid
  <2> QED
    BY <1>1, <1>2, <2>1, <2>2, RelaidSamePanes
<1> QED
  BY <1>5, <1>6, <1>7

-----------------------------------------------------------------------------
(***************************************************************************)
(* What each operation leaves as it was.                                   *)
(***************************************************************************)

(* At most one tab changes places among the others, and panes that stay in one
   tab are drawn in the order they were. *)
Steady(w, v) == (\E moved \in 1 .. Len(w.tabs) : InOrder(w, v, moved)) /\ Drawn(w, v)

(* Moving, parking and unparking a tab. *)
LEMMA ShuffledSteady ==
  ASSUME NEW w, Good(w), NEW v, Good(v),
         NEW from \in 1 .. Len(w.tabs), NEW to \in 1 .. Len(w.tabs), Shuffled(w, v, from, to)
  PROVE  Steady(w, v)
<1>1. InOrder(w, v, from)
  BY ShuffledOrder
<1>2. Drawn(w, v)
  BY ShuffledLanded, LandedKeeps
<1> QED
  BY <1>1, <1>2 DEF Steady

(* The same of a rearrangement that says where the tab shown went. *)
LEMMA RearrangedSteady ==
  ASSUME NEW w, Good(w), NEW v, Good(v), Rearranged(w, v)
  PROVE  Steady(w, v)
BY ShuffledSteady DEF Rearranged

(* Opening a tab, shown or behind. *)
LEMMA InsertedSteady ==
  ASSUME NEW w, Good(w), NEW v, Good(v), NEW at \in 1 .. Len(w.tabs) + 1, NEW tab,
         Inserted(w, v, at, tab), NEW i \in 1 .. Len(w.tabs)
  PROVE  Steady(w, v)
<1>1. InOrder(w, v, i)
  BY InsertedOrder
<1>2. Drawn(w, v)
  BY InsertedLanded, LandedKeeps
<1> QED
  BY <1>1, <1>2 DEF Steady

(* The tab opened goes in before the parked ones, whether it is shown or not. *)
LEMMA OpenSteady ==
  ASSUME NEW w, Good(w), NEW i \in 1 .. Len(w.tabs), NEW s, s \notin HostedIn(w)
  PROVE  Steady(w, OpenTab(w, s)) /\ Steady(w, AppendTab(w, s))
<1>1. FirstParked(w.tabs) \in 1 .. Len(w.tabs) + 1
  BY AppendGood
<1>2. Good(OpenTab(w, s)) /\ Good(AppendTab(w, s))
  BY OpenGood, AppendGood
<1>3. Inserted(w, OpenTab(w, s), FirstParked(w.tabs), NewTab(s))
  BY OpenGood
<1>4. Inserted(w, AppendTab(w, s), FirstParked(w.tabs), NewTab(s))
  BY AppendGood
<1>5. Steady(w, OpenTab(w, s))
  BY <1>1, <1>2, <1>3, InsertedSteady
<1>6. Steady(w, AppendTab(w, s))
  BY <1>1, <1>2, <1>4, InsertedSteady
<1> QED
  BY <1>5, <1>6

(* Closing a tab. *)
LEMMA CloseAtSteady ==
  ASSUME NEW w, Good(w), NEW i \in 1 .. Len(w.tabs)
  PROVE  Steady(w, CloseAt(w, i)) /\ FocusesKept(w, CloseAt(w, i))
<1>1. PICK v : v = CloseAt(w, i)
  OBVIOUS
<1>2. Good(v)
  BY <1>1, CloseAtGood
<1>3. Removed(w, v, i)
  BY <1>1, CloseAtGood
<1>4. InOrder(w, v, i)
  BY <1>2, <1>3, RemovedOrder
<1>5. Landed(w, v)
  BY <1>2, <1>3, RemovedLanded
<1>6. Drawn(w, v) /\ FocusesKept(w, v)
  BY <1>5, LandedKeeps
<1> QED
  BY <1>1, <1>4, <1>6 DEF Steady

(* Closing a pane: of what is left of its tab, if anything is, the collapse
   keeps the order and the focus. *)
LEMMA CloseLeafSteady ==
  ASSUME NEW w, Good(w), NEW i \in 1 .. Len(w.tabs), NEW s \in HostedBy(w.tabs[i])
  PROVE  Steady(w, CloseLeafAt(w, i, s)) /\ FocusesKept(w, CloseLeafAt(w, i, s))
<1>1. CASE HostedBy(w.tabs[i]) = {s}
  <2>1. CloseLeafAt(w, i, s) = CloseAt(w, i)
    BY <1>1 DEF CloseLeafAt
  <2> QED
    BY <2>1, CloseAtSteady
<1>2. CASE HostedBy(w.tabs[i]) # {s}
  <2>1. PICK tab : tab = w.tabs[i].layout
    OBVIOUS
  <2>2. PICK l : l = CloseLeaf(tab, s)
    OBVIOUS
  <2>3. CloseLeafAt(w, i, s) = Relaid(w, i, l)
    BY <1>2, <2>1, <2>2, CloseLeafIs
  <2>4. Hosted(l) \subseteq HostedBy(w.tabs[i]) \cup {}
    BY <1>2, <2>1, <2>2, CloseLeafIs
  <2>5. HostsNone(w.tabs, {})
    BY DEF HostsNone
  <2>6. LayoutFits(tab) /\ s \in Hosted(tab) /\ Hosted(tab) # {s}
    BY <1>2, <2>1, LayoutOfTab DEF HostedBy
  <2>7. DrawnAlike(tab.at, l.at) /\ FocusKept(tab, l)
    BY <2>2, <2>6, CloseLeafDrawn
  <2>8. Drawn(w, Relaid(w, i, l)) /\ FocusesKept(w, Relaid(w, i, l))
    BY <2>1, <2>4, <2>5, <2>7, RelaidDrawn
  <2>9. InOrder(w, Relaid(w, i, l), i)
    BY <2>4, <2>5, RelaidKeeps
  <2> QED
    BY <2>3, <2>8, <2>9 DEF Steady
<1> QED
  BY <1>1, <1>2

(* Splitting the pane in focus. *)
LEMMA SplitSteady ==
  ASSUME NEW w, Good(w), w.active \in 1 .. Len(w.tabs), NEW d \in SplitDir,
         NEW s, s \notin HostedIn(w)
  PROVE  Steady(w, SplitShown(w, d, s))
<1>1. PICK i : i = w.active
  OBVIOUS
<1>2. PICK tab : tab = w.tabs[i].layout
  OBVIOUS
<1>3. PICK l : l = SplitFocus(tab, d, s)
  OBVIOUS
<1>4. SplitShown(w, d, s) = Relaid(w, i, l)
  BY <1>1, <1>2, <1>3 DEF SplitShown, Relaid
<1>5. HostsNone(w.tabs, {s})
  BY UnhostedIs
<1>6. LayoutFits(tab) /\ Hosted(tab) = HostedBy(w.tabs[i])
  BY <1>1, <1>2, LayoutOfTab DEF HostedBy
<1>7. s \notin Hosted(tab)
  BY <1>1, <1>5, <1>6 DEF HostsNone
<1>8. Hosted(l) \subseteq HostedBy(w.tabs[i]) \cup {s}
  BY <1>3, <1>6, <1>7, SplitFocusFits
<1>9. DrawnAlike(tab.at, l.at)
  BY <1>3, <1>6, <1>7, SplitDrawn
<1>10. Drawn(w, Relaid(w, i, l))
  BY <1>1, <1>2, <1>5, <1>8, <1>9, RelaidDrawn
<1>11. InOrder(w, Relaid(w, i, l), i)
  BY <1>1, <1>5, <1>8, RelaidKeeps
<1> QED
  BY <1>1, <1>4, <1>10, <1>11 DEF Steady

(* Moving the focus in the tab shown. *)
LEMMA SamePanesSteady ==
  ASSUME NEW w, NEW u, NEW v, SamePanes(u, v), Steady(w, u)
  PROVE  Steady(w, v)
<1>1. PICK moved \in 1 .. Len(w.tabs) : InOrder(w, u, moved)
  BY DEF Steady
<1>2. InOrder(w, v, moved) /\ Drawn(w, v)
  BY <1>1, SamePanesKeep DEF Steady
<1> QED
  BY <1>2 DEF Steady

(* Whatever way the focus moves. *)
LEMMA FocusSteady ==
  ASSUME NEW w, Good(w), w.active \in 1 .. Len(w.tabs)
  PROVE  /\ \A s \in HostedBy(Shown(w)) : Steady(w, FocusPane(w, s))
         /\ \A step : Steady(w, CyclePanes(w, step))
         /\ \A d \in Direction : Steady(w, FocusDir(w, d))
<1>1. Steady(w, w)
  BY StillKeeps DEF Steady
<1>2. ASSUME NEW s \in HostedBy(Shown(w)) PROVE Steady(w, FocusPane(w, s))
  BY <1>1, FocusMoves, SamePanesSteady
<1>3. ASSUME NEW step PROVE Steady(w, CyclePanes(w, step))
  BY <1>1, FocusMoves, SamePanesSteady
<1>4. ASSUME NEW d \in Direction PROVE Steady(w, FocusDir(w, d))
  BY <1>1, FocusMoves, SamePanesSteady
<1> QED
  BY <1>2, <1>3, <1>4

(* Showing a tab, and a pane of it. *)
LEMMA ActivateSteady ==
  ASSUME NEW w, Good(w), NEW i \in 1 .. Len(w.tabs)
  PROVE  Steady(w, Activate(w, i))
BY ActivateGood, ShuffledSteady

(* Revealing a pane activates its tab and moves the focus there. *)
LEMMA RevealSteady ==
  ASSUME NEW w, Good(w), NEW s \in HostedIn(w)
  PROVE  Steady(w, Reveal(w, s))
<1>1. PICK i : i = TabOf(w, s)
  OBVIOUS
<1>2. i \in 1 .. Len(w.tabs) /\ s \in HostedBy(w.tabs[i])
  BY <1>1, TabOfIs
<1>3. PICK u : u = Activate(w, i)
  OBVIOUS
<1>4. Good(u) /\ u.active \in 1 .. Len(u.tabs)
  BY <1>2, <1>3, ActivateGood
<1>5. Shown(u).layout = w.tabs[i].layout
  BY <1>2, <1>3, ActivateGood
<1>6. s \in HostedBy(Shown(u))
  BY <1>2, <1>5 DEF HostedBy
<1>7. Steady(w, u)
  BY <1>2, <1>3, ActivateSteady
<1>8. SamePanes(u, FocusPane(u, s))
  BY <1>4, <1>6, FocusMoves
<1>9. Steady(w, FocusPane(u, s))
  BY <1>7, <1>8, SamePanesSteady
<1> QED
  BY <1>1, <1>3, <1>9 DEF Reveal

-----------------------------------------------------------------------------
(***************************************************************************)
(* Apps that fit, and sane answers.                                        *)
(***************************************************************************)

(* The inductive invariant: a good strip, a registry of
   exactly the sessions it hosts, and ids handed out in order. *)
Fits(a) ==
  /\ a = [ws |-> a.ws, live |-> a.live, nextId |-> a.nextId, closed |-> a.closed]
  /\ Good(a.ws)
  /\ HostedIn(a.ws) = Registered(a)
  /\ \A s \in Registered(a) : a.live[s] \in Session
  /\ a.nextId \in 0 .. MaxId
  /\ Registered(a) \subseteq 1 .. a.nextId
  /\ a.closed \in Seq(Closed) /\ Len(a.closed) <= MaxClosed

AppOf(w, live, n, closed) == [ws |-> w, live |-> live, nextId |-> n, closed |-> closed]

(* The sessions some effects spawn, or kill, and the effects that do. *)
OfKind(effects, kind) == {n \in DOMAIN effects : effects[n].kind = kind}
Named(effects, kind) == {effects[n].session : n \in OfKind(effects, kind)}

(* No two effects spawn, or kill, the same session. *)
Once(effects, kind) ==
  \A m, n \in OfKind(effects, kind) : effects[m].session = effects[n].session => m = n

(* An answer to an event in app a: it fits, and its effects spawn and kill what
   enters and leaves the registry. *)
Sane(a, r) ==
  /\ r = [app |-> r.app, effects |-> r.effects]
  /\ Fits(r.app)
  /\ r.effects \in Seq(Effect)
  /\ Named(r.effects, "Spawn") = Registered(r.app) \ Registered(a)
  /\ Named(r.effects, "Kill") = Registered(a) \ Registered(r.app)
  /\ Once(r.effects, "Spawn") /\ Once(r.effects, "Kill")
  /\ \A s \in Registered(r.app) \ Registered(a) : s > a.nextId

-----------------------------------------------------------------------------
(***************************************************************************)
(* Apps and their answers.                                                 *)
(***************************************************************************)

(* An app put together from parts that fit. *)
LEMMA FitsOf ==
  ASSUME NEW w, Good(w), NEW live, HostedIn(w) = DOMAIN live,
         \A s \in DOMAIN live : live[s] \in Session,
         NEW n \in 0 .. MaxId, DOMAIN live \subseteq 1 .. n,
         NEW closed \in Seq(Closed), Len(closed) <= MaxClosed
  PROVE  Fits(AppOf(w, live, n, closed))
BY DEF Fits, AppOf, Registered

(* Its parts. *)
LEMMA AppOfFields ==
  ASSUME NEW w, NEW live, NEW n, NEW closed
  PROVE  /\ AppOf(w, live, n, closed).ws = w
         /\ AppOf(w, live, n, closed).live = live
         /\ AppOf(w, live, n, closed).nextId = n
         /\ AppOf(w, live, n, closed).closed = closed
         /\ Registered(AppOf(w, live, n, closed)) = DOMAIN live
BY DEF AppOf, Registered

(* The registered ids are ids, and the next one is not among them. *)
LEMMA IdsAre ==
  ASSUME NEW a, Fits(a)
  PROVE  /\ Registered(a) \subseteq SessionId
         /\ a.nextId \in Nat /\ a.nextId + 1 \notin Registered(a)
         /\ a.nextId # MaxId => a.nextId + 1 \in 0 .. MaxId /\ a.nextId + 1 \in SessionId
BY AppAssumption DEF Fits, SessionId

(* No effects. *)
LEMMA QuietSane ==
  ASSUME NEW a, Fits(a), NEW b, Fits(b), Registered(b) = Registered(a)
  PROVE  Sane(a, Quiet(b))
<1>1. PICK r : r = Quiet(b)
  OBVIOUS
<1>2. r = [app |-> b, effects |-> <<>>]
  BY <1>1 DEF Quiet, Answer
<1>3. OfKind(<<>>, "Spawn") = {} /\ OfKind(<<>>, "Kill") = {}
  BY DEF OfKind
<1>4. <<>> \in Seq(Effect)
  OBVIOUS
<1> QED
  BY <1>1, <1>2, <1>3, <1>4 DEF Sane, Named, Once

(* A change of the strip alone. *)
LEMMA StripSane ==
  ASSUME NEW a, Fits(a), NEW w, Good(w), HostedIn(w) = HostedIn(a.ws)
  PROVE  Sane(a, OnStrip(a, w))
<1>1. PICK b : b = AppOf(w, a.live, a.nextId, a.closed)
  OBVIOUS
<1>2. HostedIn(w) = DOMAIN a.live
  BY DEF Fits, Registered
<1>3. Fits(b)
  BY <1>1, <1>2, FitsOf DEF Fits, Registered
<1>4. Registered(b) = Registered(a)
  BY <1>1, AppOfFields DEF Registered
<1>5. OnStrip(a, w) = Quiet(b)
  BY <1>1 DEF OnStrip, AppOf, Fits
<1> QED
  BY <1>3, <1>4, <1>5, QuietSane

-----------------------------------------------------------------------------
(***************************************************************************)
(* Launching.                                                              *)
(***************************************************************************)

(* Registering an id adds it to the registry, and mints it. *)
LEMMA RegisterIs ==
  ASSUME NEW a, a = [ws |-> a.ws, live |-> a.live, nextId |-> a.nextId, closed |-> a.closed],
         NEW id, NEW x
  PROVE  Register(a, id, x)
           = AppOf(a.ws, [s \in Registered(a) \cup {id} |-> IF s = id THEN x ELSE a.live[s]],
                   id, a.closed)
<1>1. PICK live : live = [s \in Registered(a) \cup {id} |-> IF s = id THEN x ELSE a.live[s]]
  OBVIOUS
<1>2. Register(a, id, x) = [a EXCEPT !.nextId = id, !.live = live]
  BY <1>1, Zenon DEF Register, Registered
<1> QED
  BY <1>1, <1>2 DEF AppOf

(* One session more, of which the app asks the spawn. *)
LEMMA BirthSane ==
  ASSUME NEW a, Fits(a), a.nextId # MaxId, NEW w, Good(w),
         HostedIn(w) = HostedIn(a.ws) \cup {a.nextId + 1}, NEW x \in Session
  PROVE  Sane(a, Answer([Register(a, a.nextId + 1, x) EXCEPT !.ws = w], <<Spawn(a.nextId + 1)>>))
<1>1. PICK id : id = a.nextId + 1
  OBVIOUS
<1>2. PICK live : live = [s \in Registered(a) \cup {id} |-> IF s = id THEN x ELSE a.live[s]]
  OBVIOUS
<1>3. PICK b : b = AppOf(w, live, id, a.closed)
  OBVIOUS
<1>4. id \in 0 .. MaxId /\ id \in SessionId /\ id \notin Registered(a) /\ id > a.nextId
  BY <1>1, IdsAre
<1>5. DOMAIN live = Registered(a) \cup {id}
  BY <1>2
<1>6. Fits(b)
  <2>1. HostedIn(w) = DOMAIN live
    BY <1>1, <1>5 DEF Fits
  <2>2. \A s \in DOMAIN live : live[s] \in Session
    BY <1>2, <1>5 DEF Fits
  <2>3. DOMAIN live \subseteq 1 .. id
    BY <1>1, <1>4, <1>5 DEF Fits
  <2> QED
    BY <1>3, <1>4, <2>1, <2>2, <2>3, FitsOf DEF Fits
<1>7. [Register(a, id, x) EXCEPT !.ws = w] = b
  <2>1. Register(a, id, x) = AppOf(a.ws, live, id, a.closed)
    BY <1>2, RegisterIs DEF Fits
  <2> QED
    BY <1>3, <2>1 DEF AppOf
<1>8. Registered(b) = Registered(a) \cup {id}
  BY <1>3, <1>5, AppOfFields
<1>9. PICK e : e = <<Spawn(id)>>
  OBVIOUS
<1>10. Spawn(id) \in Effect /\ Spawn(id).kind = "Spawn" /\ Spawn(id).session = id
  BY <1>4 DEF Spawn, Effect
<1>11. e \in Seq(Effect) /\ DOMAIN e = {1} /\ e[1] = Spawn(id)
  BY <1>9, <1>10
<1>12. OfKind(e, "Spawn") = {1} /\ OfKind(e, "Kill") = {}
  BY <1>10, <1>11 DEF OfKind
<1>13. Named(e, "Spawn") = {id} /\ Named(e, "Kill") = {} /\ Once(e, "Spawn") /\ Once(e, "Kill")
  BY <1>10, <1>11, <1>12 DEF Named, Once
<1>14. PICK r : r = [app |-> b, effects |-> e]
  OBVIOUS
<1>15. Sane(a, r)
  BY <1>4, <1>6, <1>8, <1>11, <1>13, <1>14 DEF Sane
<1> QED
  BY <1>1, <1>7, <1>9, <1>14, <1>15 DEF Answer

(* A launch, in front or behind. *)
LEMMA LaunchSane ==
  ASSUME NEW a, Fits(a), NEW launch \in LaunchKind, NEW cwd \in Cwd, NEW placement
  PROVE  Sane(a, Launch(a, launch, cwd, placement))
<1>1. PICK id : id = a.nextId + 1
  OBVIOUS
<1>2. CASE a.nextId = MaxId
  BY <1>2, QuietSane DEF Launch
<1>3. CASE a.nextId # MaxId
  <2>1. Good(a.ws) /\ id \notin HostedIn(a.ws)
    BY <1>1, IdsAre DEF Fits
  <2>2. PICK w : w = IF placement = "Foreground" THEN OpenTab(a.ws, id) ELSE AppendTab(a.ws, id)
    OBVIOUS
  <2>3. Good(w) /\ HostedIn(w) = HostedIn(a.ws) \cup {id}
    <3>1. Good(OpenTab(a.ws, id)) /\ HostedIn(OpenTab(a.ws, id)) = HostedIn(a.ws) \cup {id}
      BY <2>1, OpenGood
    <3>2. Good(AppendTab(a.ws, id)) /\ HostedIn(AppendTab(a.ws, id)) = HostedIn(a.ws) \cup {id}
      BY <2>1, AppendGood
    <3> QED
      BY <2>2, <3>1, <3>2
  <2>4. PICK x : x = Starting(launch, cwd)
    OBVIOUS
  <2>5. x \in Session
    BY <2>4 DEF Starting, Session, Status
  <2>6. Sane(a, Answer([Register(a, a.nextId + 1, x) EXCEPT !.ws = w], <<Spawn(a.nextId + 1)>>))
    BY <1>1, <1>3, <2>3, <2>5, BirthSane
  <2>7. Launch(a, launch, cwd, placement)
          = Answer([Register(a, a.nextId + 1, x) EXCEPT !.ws = w], <<Spawn(a.nextId + 1)>>)
    BY <1>1, <1>3, <2>2, <2>4 DEF Launch
  <2> QED
    BY <2>6, <2>7
<1> QED
  BY <1>2, <1>3

(* The session in focus, when there is one, is hosted. *)
LEMMA FocusedIs ==
  ASSUME NEW a, Fits(a), a.ws.tabs # <<>>
  PROVE  /\ a.ws.active \in 1 .. Len(a.ws.tabs)
         /\ FocusedIn(a.ws) \in HostedBy(a.ws.tabs[a.ws.active])
         /\ FocusedIn(a.ws) \in Registered(a)
<1>1. Good(a.ws) /\ HostedIn(a.ws) = Registered(a)
  BY DEF Fits
<1>2. DOMAIN a.ws.tabs # {}
  <2>1. a.ws.tabs \in Seq(TabsWith(Layouts(a.ws))) /\ DOMAIN a.ws.tabs = 1 .. Len(a.ws.tabs)
    BY <1>1, GoodStrip
  <2>2. PICK n : n = Len(a.ws.tabs)
    OBVIOUS
  <2>3. n \in Nat \ {0}
    BY <2>1, <2>2, EmptySeq
  <2>4. 1 \in 1 .. n
    BY <2>3
  <2> QED
    BY <2>1, <2>2, <2>4
<1>3. PICK i : i = a.ws.active
  OBVIOUS
<1>4. i \in 1 .. Len(a.ws.tabs)
  BY <1>1, <1>2, <1>3, ShownIsTab
<1>5. FocusedSession(a.ws.tabs[i].layout) \in HostedBy(a.ws.tabs[i])
  BY <1>1, <1>4, TabHosts
<1>6. FocusedIn(a.ws) \in HostedBy(a.ws.tabs[i])
  BY <1>3, <1>5 DEF FocusedIn, Shown
<1> QED
  BY <1>1, <1>3, <1>4, <1>6, HostedInIs

(* A split; with no tab to split the id minted is lost. *)
LEMMA SplitSane ==
  ASSUME NEW a, Fits(a), NEW dir \in SplitDir
  PROVE  Sane(a, SplitFocused(a, dir))
<1>1. CASE a.nextId = MaxId
  BY <1>1, QuietSane DEF SplitFocused
<1>2. CASE a.nextId # MaxId /\ a.ws.tabs = <<>>
  <2>1. PICK b : b = AppOf(a.ws, a.live, a.nextId + 1, a.closed)
    OBVIOUS
  <2>2. a.nextId + 1 \in 0 .. MaxId /\ DOMAIN a.live \subseteq 1 .. a.nextId + 1
    BY <1>2, IdsAre DEF Fits, Registered
  <2>3. Fits(b)
    BY <2>1, <2>2, FitsOf DEF Fits, Registered
  <2>4. Registered(b) = Registered(a)
    BY <2>1, AppOfFields DEF Registered
  <2>5. SplitFocused(a, dir) = Quiet(b)
    BY <1>2, <2>1 DEF SplitFocused, AppOf, Fits
  <2> QED
    BY <2>3, <2>4, <2>5, QuietSane
<1>3. CASE a.nextId # MaxId /\ a.ws.tabs # <<>>
  <2>1. PICK id : id = a.nextId + 1
    OBVIOUS
  <2>2. Good(a.ws) /\ id \notin HostedIn(a.ws)
    BY <2>1, IdsAre DEF Fits
  <2>3. a.ws.active \in 1 .. Len(a.ws.tabs)
    BY <1>3, FocusedIs
  <2>4. PICK w : w = SplitShown(a.ws, dir, id)
    OBVIOUS
  <2>5. Good(w) /\ HostedIn(w) = HostedIn(a.ws) \cup {id}
    BY <2>2, <2>3, <2>4, SplitGood
  <2>6. PICK x : x = Starting("Shell", a.live[FocusedIn(a.ws)].cwd)
    OBVIOUS
  <2>7. x \in Session
    <3>1. a.live[FocusedIn(a.ws)] \in Session
      BY <1>3, FocusedIs DEF Fits
    <3> QED
      BY <2>6, <3>1 DEF Starting, Session, Status, LaunchKind
  <2>8. Sane(a, Answer([Register(a, a.nextId + 1, x) EXCEPT !.ws = w], <<Spawn(a.nextId + 1)>>))
    BY <1>3, <2>1, <2>5, <2>7, BirthSane
  <2>9. SplitFocused(a, dir)
          = Answer([Register(a, a.nextId + 1, x) EXCEPT !.ws = w], <<Spawn(a.nextId + 1)>>)
    BY <1>3, <2>1, <2>4, <2>6 DEF SplitFocused
  <2> QED
    BY <2>8, <2>9
<1> QED
  BY <1>1, <1>2, <1>3

(* The kills a tab's close asks for: each of its sessions once. *)
LEMMA KillsAre ==
  ASSUME NEW l, LayoutFits(l), Hosted(l) \subseteq SessionId,
         NEW kills, kills = [n \in DOMAIN LeafOrder(l) |-> Kill(SessionAt(l, LeafOrder(l)[n]))]
  PROVE  /\ kills \in Seq(Effect)
         /\ Named(kills, "Kill") = Hosted(l) /\ Named(kills, "Spawn") = {}
         /\ Once(kills, "Kill") /\ Once(kills, "Spawn")
<1>1. PICK order : order = LeafOrder(l)
  OBVIOUS
<1>2. IsTree(l) /\ IsFiniteSet(Hosted(l))
  BY DEF LayoutFits
<1>3. PICK n : n = Cardinality(LeafPaths(l))
  OBVIOUS
<1>4. n \in Nat /\ DOMAIN order = 1 .. n
  BY <1>1, <1>2, <1>3, LeafOrderIs
<1>5. \A i \in 1 .. n : order[i] \in LeafPaths(l)
  BY <1>1, <1>2, <1>4, LeafOrderIs
<1>6. \A i, j \in 1 .. n : order[i] = order[j] => i = j
  BY <1>1, <1>2, <1>4, LeafOrderIs
<1>7. \A p \in LeafPaths(l) : \E i \in 1 .. n : order[i] = p
  BY <1>1, <1>2, <1>4, LeafOrderIs
<1>8. ASSUME NEW i \in 1 .. n
      PROVE  SessionAt(l, order[i]) \in Hosted(l) /\ l.at[SessionAt(l, order[i])] = order[i]
  <2>1. PICK s \in Hosted(l) : l.at[s] = order[i]
    BY <1>5 DEF LeafPaths
  <2> QED
    BY <1>2, <2>1, SessionAtIs
<1>9. kills = [i \in 1 .. n |-> Kill(SessionAt(l, order[i]))]
  BY <1>1, <1>4
<1>10. ASSUME NEW i \in 1 .. n
       PROVE  /\ kills[i].kind = "Kill" /\ kills[i].session = SessionAt(l, order[i])
              /\ kills[i] \in Effect
  BY <1>8, <1>9 DEF Kill, Effect
<1>11. DOMAIN kills = 1 .. n
  BY <1>9
<1>12. kills \in Seq(Effect)
  BY <1>4, <1>9, <1>10
<1>13. OfKind(kills, "Kill") = 1 .. n /\ OfKind(kills, "Spawn") = {}
  BY <1>10, <1>11 DEF OfKind
<1>14. Named(kills, "Spawn") = {} /\ Once(kills, "Spawn")
  BY <1>13 DEF Named, Once
<1>15. Once(kills, "Kill")
  <2>1. ASSUME NEW i \in 1 .. n, NEW j \in 1 .. n, kills[i].session = kills[j].session
        PROVE  i = j
    BY <1>6, <1>8, <1>10, <2>1
  <2> QED
    BY <1>13, <2>1 DEF Once
<1>16. ASSUME NEW s \in Hosted(l) PROVE s \in Named(kills, "Kill")
  <2>1. PICK i \in 1 .. n : order[i] = l.at[s]
    BY <1>7 DEF LeafPaths
  <2>2. kills[i].session = s
    BY <1>2, <1>10, <2>1, SessionAtIs
  <2> QED
    BY <1>13, <2>2 DEF Named
<1>17. ASSUME NEW s \in Named(kills, "Kill") PROVE s \in Hosted(l)
  <2>1. PICK i \in 1 .. n : kills[i].session = s
    BY <1>13, <1>17 DEF Named
  <2> QED
    BY <1>8, <1>10, <2>1
<1> QED
  BY <1>12, <1>14, <1>15, <1>16, <1>17

(* A push on the reopen stack drops the oldest entry past the cap, a cap of 0
   included. *)
LEMMA StackIs ==
  ASSUME NEW closed \in Seq(Closed), Len(closed) <= MaxClosed, NEW entry \in Closed,
         NEW stack, stack = Append(closed, entry)
  PROVE  /\ (IF Len(stack) > MaxClosed THEN Tail(stack) ELSE stack) \in Seq(Closed)
         /\ Len(IF Len(stack) > MaxClosed THEN Tail(stack) ELSE stack) <= MaxClosed
<1>1. stack \in Seq(Closed) /\ Len(stack) = Len(closed) + 1 /\ Len(closed) \in Nat
  BY AppendProperties, LenProperties
<1>2. stack # <<>>
  BY <1>1, EmptySeq
<1>3. Tail(stack) \in Seq(Closed) /\ Len(Tail(stack)) = Len(stack) - 1
  BY <1>1, <1>2, HeadTailProperties
<1>4. MaxClosed \in Nat
  BY AppAssumption
<1>5. CASE Len(stack) > MaxClosed
  BY <1>1, <1>3, <1>4, <1>5
<1>6. CASE ~(Len(stack) > MaxClosed)
  BY <1>1, <1>4, <1>6
<1> QED
  BY <1>5, <1>6

(* Remembering a tab changes the reopen stack alone, which keeps its cap. *)
LEMMA RememberIs ==
  ASSUME NEW a, Fits(a), NEW i \in 1 .. Len(a.ws.tabs)
  PROVE  \E closed \in Seq(Closed) :
           /\ Len(closed) <= MaxClosed
           /\ RememberClosedTab(a, i) = AppOf(a.ws, a.live, a.nextId, closed)
<1>1. Good(a.ws) /\ a.closed \in Seq(Closed) /\ Len(a.closed) <= MaxClosed
  BY DEF Fits
<1>2. PICK first : first = FirstSession(a.ws.tabs[i].layout)
  OBVIOUS
<1>3. first \in HostedIn(a.ws)
  <2>1. first \in HostedBy(a.ws.tabs[i])
    BY <1>1, <1>2, LayoutOfTab, FirstSessionIs DEF HostedBy
  <2> QED
    BY <1>1, <2>1, TabIsTheOne
<1>4. first \in Registered(a) /\ a.live[first] \in Session
  BY <1>3 DEF Fits
<1>5. PICK entry : entry = [launch |-> a.live[first].launch, cwd |-> a.live[first].cwd]
  OBVIOUS
<1>6. entry \in Closed
  BY <1>4, <1>5 DEF Closed, Session
<1>7. PICK stack : stack = Append(a.closed, entry)
  OBVIOUS
<1>8. PICK closed : closed = IF Len(stack) > MaxClosed THEN Tail(stack) ELSE stack
  OBVIOUS
<1>9. closed \in Seq(Closed) /\ Len(closed) <= MaxClosed
  BY <1>1, <1>6, <1>7, <1>8, StackIs
<1>10. RememberClosedTab(a, i) = [a EXCEPT !.closed = closed]
  BY <1>2, <1>4, <1>5, <1>7, <1>8 DEF RememberClosedTab
<1>11. [a EXCEPT !.closed = closed] = AppOf(a.ws, a.live, a.nextId, closed)
  BY DEF Fits, AppOf
<1> QED
  BY <1>9, <1>10, <1>11

(* A registry without some sessions. *)
Without(live, ids) == [s \in DOMAIN live \ ids |-> live[s]]

(* Forgetting ids takes them out of the registry. *)
LEMMA ForgetIs ==
  ASSUME NEW w, NEW live, NEW n, NEW closed, NEW ids
  PROVE  Forget(AppOf(w, live, n, closed), ids) = AppOf(w, Without(live, ids), n, closed)
<1>0. PICK left : left = Without(live, ids)
  OBVIOUS
<1>1. PICK a : a = AppOf(w, live, n, closed)
  OBVIOUS
<1>2. a.live = live
  BY <1>1, AppOfFields
<1>3. Forget(a, ids) = [a EXCEPT !.live = [s \in DOMAIN a.live \ ids |-> a.live[s]]]
  BY Zenon DEF Forget
<1>4. Forget(a, ids) = [a EXCEPT !.live = left]
  BY <1>0, <1>2, <1>3 DEF Without
<1>5. [a EXCEPT !.live = left] = AppOf(w, left, n, closed)
  BY <1>1 DEF AppOf
<1> QED
  BY <1>0, <1>1, <1>4, <1>5

(* Some sessions fewer, each killed once. *)
LEMMA DeathSane ==
  ASSUME NEW a, Fits(a), NEW dying, dying \subseteq Registered(a),
         NEW w, Good(w), HostedIn(w) = HostedIn(a.ws) \ dying,
         NEW closed \in Seq(Closed), Len(closed) <= MaxClosed,
         NEW kills \in Seq(Effect), Named(kills, "Kill") = dying, Named(kills, "Spawn") = {},
         Once(kills, "Kill"), Once(kills, "Spawn")
  PROVE  Sane(a, Answer(Forget(AppOf(w, a.live, a.nextId, closed), dying), kills))
<1>1. PICK live : live = Without(a.live, dying)
  OBVIOUS
<1>2. PICK b : b = AppOf(w, live, a.nextId, closed)
  OBVIOUS
<1>3. DOMAIN live = Registered(a) \ dying
  BY <1>1 DEF Registered, Without
<1>4. Fits(b)
  <2>1. HostedIn(w) = DOMAIN live
    BY <1>3 DEF Fits
  <2>2. \A s \in DOMAIN live : live[s] \in Session
    BY <1>1, <1>3 DEF Fits, Registered, Without
  <2>3. DOMAIN live \subseteq 1 .. a.nextId
    BY <1>3 DEF Fits
  <2> QED
    BY <1>2, <2>1, <2>2, <2>3, FitsOf DEF Fits
<1>5. Registered(b) = Registered(a) \ dying
  BY <1>2, <1>3, AppOfFields
<1>6. Forget(AppOf(w, a.live, a.nextId, closed), dying) = b
  BY <1>1, <1>2, ForgetIs
<1>7. PICK r : r = [app |-> b, effects |-> kills]
  OBVIOUS
<1>8. Sane(a, r)
  <2>1. r.app = b /\ r.effects = kills /\ r = [app |-> r.app, effects |-> r.effects]
    BY <1>7
  <2>2. Registered(b) \ Registered(a) = {} /\ Registered(a) \ Registered(b) = dying
    BY <1>5
  <2> QED
    BY <1>4, <2>1, <2>2 DEF Sane
<1> QED
  BY <1>6, <1>7, <1>8 DEF Answer

(* A tab closes with all its panes. *)
LEMMA CloseTabSane ==
  ASSUME NEW a, Fits(a), NEW i
  PROVE  Sane(a, CloseTab(a, i))
<1>1. Good(a.ws) /\ DOMAIN a.ws.tabs = 1 .. Len(a.ws.tabs)
  BY GoodStrip DEF Fits
<1>2. CASE i \notin DOMAIN a.ws.tabs
  BY <1>2, QuietSane DEF CloseTab
<1>3. CASE i \in DOMAIN a.ws.tabs
  <2>1. i \in 1 .. Len(a.ws.tabs)
    BY <1>1, <1>3
  <2>2. PICK l : l = a.ws.tabs[i].layout
    OBVIOUS
  <2>3. PICK dying : dying = HostedBy(a.ws.tabs[i])
    OBVIOUS
  <2>4. LayoutFits(l) /\ Hosted(l) = dying
    BY <1>1, <2>1, <2>2, <2>3, LayoutOfTab DEF HostedBy
  <2>5. dying \subseteq Registered(a) /\ dying \subseteq SessionId
    <3>1. dying \subseteq HostedIn(a.ws)
      BY <1>1, <2>1, <2>3, HostedInIs
    <3> QED
      BY <3>1, IdsAre DEF Fits
  <2>6. PICK kills : kills = [n \in DOMAIN LeafOrder(l) |-> Kill(SessionAt(l, LeafOrder(l)[n]))]
    OBVIOUS
  <2>7. kills \in Seq(Effect)
    BY <2>4, <2>5, <2>6, KillsAre
  <2>8. Named(kills, "Kill") = dying
    BY <2>4, <2>5, <2>6, KillsAre
  <2>9. Named(kills, "Spawn") = {} /\ Once(kills, "Kill") /\ Once(kills, "Spawn")
    BY <2>4, <2>5, <2>6, KillsAre
  <2>10. PICK w : w = CloseAt(a.ws, i)
    OBVIOUS
  <2>11. Good(w)
    BY <1>1, <2>1, <2>10, CloseAtGood
  <2>12. HostedIn(w) = HostedIn(a.ws) \ dying
    BY <1>1, <2>1, <2>3, <2>10, CloseAtGood
  <2>13. PICK closed \in Seq(Closed) :
            /\ Len(closed) <= MaxClosed
            /\ RememberClosedTab(a, i) = AppOf(a.ws, a.live, a.nextId, closed)
    BY <2>1, RememberIs
  <2>14. [RememberClosedTab(a, i) EXCEPT !.ws = CloseAt(@, i)] = AppOf(w, a.live, a.nextId, closed)
    BY <2>10, <2>13 DEF AppOf
  <2>15. CloseTab(a, i) = Answer(Forget(AppOf(w, a.live, a.nextId, closed), dying), kills)
    BY <1>3, <2>2, <2>3, <2>6, <2>14 DEF CloseTab
  <2>16. Sane(a, Answer(Forget(AppOf(w, a.live, a.nextId, closed), dying), kills))
    <3>1. dying \subseteq Registered(a) /\ Len(closed) <= MaxClosed
      BY <2>5, <2>13
    <3> QED
      BY <2>7, <2>8, <2>9, <2>11, <2>12, <3>1, DeathSane
  <2> QED
    BY <2>15, <2>16
<1> QED
  BY <1>2, <1>3

(* One pane fewer. *)
LEMMA ReleaseSane ==
  ASSUME NEW a, Fits(a), NEW s \in Registered(a),
         NEW w, Good(w), HostedIn(w) = HostedIn(a.ws) \ {s}
  PROVE  Sane(a, ReleaseClosedPane(a, s, w))
<1>1. PICK kills : kills = <<Kill(s)>>
  OBVIOUS
<1>2. Kill(s) \in Effect /\ Kill(s).kind = "Kill" /\ Kill(s).session = s
  BY IdsAre DEF Kill, Effect
<1>3. kills \in Seq(Effect) /\ DOMAIN kills = {1} /\ kills[1] = Kill(s)
  BY <1>1, <1>2
<1>4. OfKind(kills, "Kill") = {1} /\ OfKind(kills, "Spawn") = {}
  BY <1>2, <1>3 DEF OfKind
<1>5. Named(kills, "Kill") = {s}
  BY <1>2, <1>3, <1>4 DEF Named
<1>6. Named(kills, "Spawn") = {} /\ Once(kills, "Kill") /\ Once(kills, "Spawn")
  BY <1>2, <1>3, <1>4 DEF Named, Once
<1>7. {s} \subseteq Registered(a) /\ a.closed \in Seq(Closed) /\ Len(a.closed) <= MaxClosed
  BY DEF Fits
<1>8. Sane(a, Answer(Forget(AppOf(w, a.live, a.nextId, a.closed), {s}), kills))
  BY <1>3, <1>5, <1>6, <1>7, DeathSane
<1>9. [a EXCEPT !.ws = w] = AppOf(w, a.live, a.nextId, a.closed)
  BY DEF AppOf, Fits
<1> QED
  BY <1>1, <1>8, <1>9 DEF ReleaseClosedPane

(* A pane closes wherever it is, with its tab when it is alone there. *)
LEMMA ClosePaneSane ==
  ASSUME NEW a, Fits(a), NEW s
  PROVE  Sane(a, ClosePane(a, s))
<1>1. CASE s \notin HostedIn(a.ws)
  BY <1>1, QuietSane DEF ClosePane
<1>2. CASE s \in HostedIn(a.ws) /\ HostedBy(a.ws.tabs[TabOf(a.ws, s)]) = {s}
  <2>1. Sane(a, CloseTab(a, TabOf(a.ws, s)))
    BY CloseTabSane
  <2> QED
    BY <1>2, <2>1 DEF ClosePane
<1>3. CASE s \in HostedIn(a.ws) /\ HostedBy(a.ws.tabs[TabOf(a.ws, s)]) # {s}
  <2>1. Good(a.ws) /\ s \in Registered(a)
    BY <1>3 DEF Fits
  <2>2. PICK i : i = TabOf(a.ws, s)
    OBVIOUS
  <2>3. i \in 1 .. Len(a.ws.tabs) /\ s \in HostedBy(a.ws.tabs[i])
    BY <1>3, <2>1, <2>2, TabOfIs
  <2>4. PICK w : w = CloseLeafAt(a.ws, i, s)
    OBVIOUS
  <2>5. Good(w) /\ HostedIn(w) = HostedIn(a.ws) \ {s}
    BY <2>1, <2>3, <2>4, CloseLeafGood
  <2>6. Sane(a, ReleaseClosedPane(a, s, w))
    BY <2>1, <2>5, ReleaseSane
  <2> QED
    BY <1>3, <2>2, <2>4, <2>6 DEF ClosePane, ClosePaneOf
<1> QED
  BY <1>1, <1>2, <1>3

(* The pane in focus closes. *)
LEMMA CloseFocusedSane ==
  ASSUME NEW a, Fits(a)
  PROVE  Sane(a, CloseFocusedPane(a))
<1>1. CASE a.ws.tabs = <<>>
  BY <1>1, QuietSane DEF CloseFocusedPane
<1>2. CASE a.ws.tabs # <<>>
  <2>1. PICK s : s = FocusedIn(a.ws)
    OBVIOUS
  <2>2. PICK i : i = a.ws.active
    OBVIOUS
  <2>3. Good(a.ws)
    BY DEF Fits
  <2>4. i \in 1 .. Len(a.ws.tabs) /\ s \in HostedBy(a.ws.tabs[i]) /\ s \in Registered(a)
    BY <1>2, <2>1, <2>2, FocusedIs
  <2>5. PICK w : w = CloseLeafAt(a.ws, i, s)
    OBVIOUS
  <2>6. Good(w) /\ HostedIn(w) = HostedIn(a.ws) \ {s}
    BY <2>3, <2>4, <2>5, CloseLeafGood
  <2>7. Sane(a, ReleaseClosedPane(a, s, w))
    BY <2>4, <2>6, ReleaseSane
  <2> QED
    BY <1>2, <2>1, <2>2, <2>5, <2>7 DEF CloseFocusedPane
<1> QED
  BY <1>1, <1>2

(* An app that has forgotten the last entry of its reopen stack. *)
LEMMA FrontFits ==
  ASSUME NEW a, Fits(a), a.closed # <<>>
  PROVE  /\ Last(a.closed) \in Closed
         /\ Fits(AppOf(a.ws, a.live, a.nextId, Front(a.closed)))
<1>1. a.closed \in Seq(Closed) /\ Len(a.closed) <= MaxClosed
  BY DEF Fits
<1>2. PICK n : n = Len(a.closed)
  OBVIOUS
<1>3. n \in Nat \ {0}
  BY <1>1, <1>2, EmptySeq
<1>4. \A k \in 1 .. n : a.closed[k] \in Closed
  BY <1>1, <1>2
<1>5. Last(a.closed) \in Closed
  BY <1>2, <1>3, <1>4 DEF Last
<1>6. PICK rest : rest = Front(a.closed)
  OBVIOUS
<1>7. rest \in Seq(Closed) /\ Len(rest) = n - 1
  <2>1. \A k \in 1 .. n - 1 : a.closed[k] \in Closed
    BY <1>3, <1>4
  <2>2. rest = SubSeq(a.closed, 1, n - 1)
    BY <1>2, <1>6 DEF Front
  <2>3. 1 \in Int /\ n - 1 \in Int
    BY <1>3
  <2>4. rest \in Seq(Closed)
    BY <2>1, <2>2, <2>3, SubSeqProperties
  <2>5. Len(rest) = IF 1 <= n - 1 THEN n - 1 - 1 + 1 ELSE 0
    BY <2>1, <2>2, <2>3, SubSeqProperties
  <2> QED
    BY <1>3, <2>4, <2>5
<1>8. Len(rest) <= MaxClosed
  BY <1>1, <1>2, <1>3, <1>7, AppAssumption
<1>9. HostedIn(a.ws) = DOMAIN a.live /\ DOMAIN a.live \subseteq 1 .. a.nextId
  BY DEF Fits, Registered
<1>10. Fits(AppOf(a.ws, a.live, a.nextId, rest))
  BY <1>7, <1>8, <1>9, FitsOf DEF Fits, Registered
<1> QED
  BY <1>5, <1>6, <1>10

(* Reopening launches in an app that has forgotten the entry. *)
LEMMA ReopenSane ==
  ASSUME NEW a, Fits(a)
  PROVE  Sane(a, ReopenClosedTab(a))
<1>1. CASE a.closed = <<>>
  BY <1>1, QuietSane DEF ReopenClosedTab
<1>2. CASE a.closed # <<>>
  <2>1. PICK rest : rest = Front(a.closed)
    OBVIOUS
  <2>2. PICK b : b = AppOf(a.ws, a.live, a.nextId, rest)
    OBVIOUS
  <2>3. Fits(b) /\ Last(a.closed) \in Closed
    BY <1>2, <2>1, <2>2, FrontFits
  <2>4. b.nextId = a.nextId /\ Registered(b) = Registered(a)
    BY <2>2, AppOfFields DEF Registered
  <2>5. PICK last : last = Last(a.closed)
    OBVIOUS
  <2>6. PICK r : r = Launch(b, last.launch, last.cwd, "Foreground")
    OBVIOUS
  <2>7. Sane(b, r)
    BY <2>3, <2>5, <2>6, LaunchSane DEF Closed
  <2>8. Sane(a, r)
    BY <2>4, <2>7 DEF Sane
  <2>9. [a EXCEPT !.closed = Front(@)] = b
    BY <2>1, <2>2 DEF Fits, AppOf
  <2>10. ReopenClosedTab(a) = r
    BY <1>2, <2>5, <2>6, <2>9 DEF ReopenClosedTab
  <2> QED
    BY <2>8, <2>10
<1> QED
  BY <1>1, <1>2

-----------------------------------------------------------------------------
(***************************************************************************)
(* Reports.                                                                *)
(***************************************************************************)

(* A report changes what is known of one session and, at most, rearranges the
   strip. *)
LEMMA ReportSane ==
  ASSUME NEW a, Fits(a), NEW s \in Registered(a), NEW x \in Session,
         NEW live, live = [a.live EXCEPT ![s] = x],
         NEW w, Good(w), HostedIn(w) = HostedIn(a.ws)
  PROVE  Sane(a, Quiet(AppOf(w, live, a.nextId, a.closed)))
<1>1. DOMAIN live = Registered(a)
  BY DEF Registered
<1>2. \A t \in Registered(a) : live[t] = IF t = s THEN x ELSE a.live[t]
  BY DEF Registered
<1>3. HostedIn(w) = DOMAIN live /\ DOMAIN live \subseteq 1 .. a.nextId
  BY <1>1 DEF Fits
<1>4. \A t \in DOMAIN live : live[t] \in Session
  BY <1>1, <1>2 DEF Fits
<1>5. Fits(AppOf(w, live, a.nextId, a.closed))
  BY <1>3, <1>4, FitsOf DEF Fits
<1>6. Registered(AppOf(w, live, a.nextId, a.closed)) = Registered(a)
  BY <1>1, AppOfFields
<1> QED
  BY <1>5, <1>6, QuietSane

(* A report of attention unparks the tab it is in, and rearranges no more. *)
LEMMA UnparkTabGood ==
  ASSUME NEW w, Good(w), NEW s
  PROVE  Good(UnparkTabOf(w, s)) /\ HostedIn(UnparkTabOf(w, s)) = HostedIn(w)
<1>1. CASE s \in HostedIn(w) /\ w.tabs[TabOf(w, s)].parked
  <2>1. PICK i : i = TabOf(w, s)
    OBVIOUS
  <2>2. i \in 1 .. Len(w.tabs)
    BY <1>1, <2>1, TabOfIs
  <2>3. UnparkTabOf(w, s) = ToggleParked(w, i)
    BY <1>1, <2>1 DEF UnparkTabOf, ToggleParked
  <2> QED
    BY <2>2, <2>3, ToggleGood
<1>2. CASE ~(s \in HostedIn(w) /\ w.tabs[TabOf(w, s)].parked)
  BY <1>2 DEF UnparkTabOf
<1> QED
  BY <1>1, <1>2

(* A report of activity. *)
LEMMA StatusSane ==
  ASSUME NEW a, Fits(a), NEW s, NEW status \in Report
  PROVE  Sane(a, StatusChanged(a, s, status))
<1>1. CASE s \notin Registered(a) \/ a.live[s].status = "Exited"
  BY <1>1, QuietSane DEF StatusChanged
<1>2. CASE ~(s \notin Registered(a) \/ a.live[s].status = "Exited")
  <2>1. s \in Registered(a) /\ a.live[s] \in Session
    BY <1>2 DEF Fits
  <2>2. PICK x : x = [a.live[s] EXCEPT !.status = status]
    OBVIOUS
  <2>3. x \in Session
    BY <2>1, <2>2 DEF Session, Status
  <2>4. PICK w : w = IF status = "Attention" THEN UnparkTabOf(a.ws, s) ELSE a.ws
    OBVIOUS
  <2>5. Good(w) /\ HostedIn(w) = HostedIn(a.ws)
    BY <2>4, UnparkTabGood DEF Fits
  <2>6. PICK live : live = [a.live EXCEPT ![s] = x]
    OBVIOUS
  <2>7. Sane(a, Quiet(AppOf(w, live, a.nextId, a.closed)))
    BY <2>1, <2>3, <2>5, <2>6, ReportSane
  <2>8. StatusChanged(a, s, status) = Quiet(AppOf(w, live, a.nextId, a.closed))
    <3>1. [a EXCEPT !.live[s].status = status,
                    !.ws = IF status = "Attention" THEN UnparkTabOf(@, s) ELSE @]
            = [[a EXCEPT !.live = live] EXCEPT !.ws = w]
      BY <2>2, <2>4, <2>6 DEF Fits
    <3>2. PICK b : b = [a EXCEPT !.live = live]
      OBVIOUS
    <3>3. b = AppOf(a.ws, live, a.nextId, a.closed)
      BY <3>2 DEF AppOf, Fits
    <3>4. [b EXCEPT !.ws = w] = AppOf(w, live, a.nextId, a.closed)
      BY <3>3 DEF AppOf
    <3> QED
      BY <1>2, <3>1, <3>2, <3>4 DEF StatusChanged
  <2> QED
    BY <2>7, <2>8
<1> QED
  BY <1>1, <1>2

(* An exit, clean or not. *)
LEMMA ExitSane ==
  ASSUME NEW a, Fits(a), NEW s, NEW clean
  PROVE  Sane(a, PtyExited(a, s, clean))
<1>1. CASE s \notin Registered(a)
  BY <1>1, QuietSane DEF PtyExited
<1>2. CASE s \in Registered(a) /\ clean /\ s \in HostedIn(a.ws)
  BY <1>2, ClosePaneSane DEF PtyExited
<1>3. CASE s \in Registered(a) /\ ~(clean /\ s \in HostedIn(a.ws))
  <2>1. s \in Registered(a) /\ a.live[s] \in Session
    BY <1>3 DEF Fits
  <2>2. PICK x : x = [a.live[s] EXCEPT !.status = "Exited"]
    OBVIOUS
  <2>3. x \in Session
    BY <2>1, <2>2 DEF Session, Status
  <2>4. PICK live : live = [a.live EXCEPT ![s] = x]
    OBVIOUS
  <2>5. Sane(a, Quiet(AppOf(a.ws, live, a.nextId, a.closed)))
    BY <2>1, <2>3, <2>4, ReportSane DEF Fits
  <2>6. [a EXCEPT !.live[s].status = "Exited"] = AppOf(a.ws, live, a.nextId, a.closed)
    BY <2>2, <2>4 DEF AppOf, Fits
  <2> QED
    BY <1>3, <2>5, <2>6 DEF PtyExited
<1> QED
  BY <1>1, <1>2, <1>3

(* A report of a new working directory. *)
LEMMA CwdSane ==
  ASSUME NEW a, Fits(a), NEW s, NEW cwd \in Cwd
  PROVE  Sane(a, SessionCwdChanged(a, s, cwd))
<1>1. CASE s \notin Registered(a)
  BY <1>1, QuietSane DEF SessionCwdChanged
<1>2. CASE s \in Registered(a)
  <2>1. a.live[s] \in Session
    BY <1>2 DEF Fits
  <2>2. PICK x : x = [a.live[s] EXCEPT !.cwd = cwd]
    OBVIOUS
  <2>3. x \in Session
    BY <2>1, <2>2 DEF Session
  <2>4. PICK live : live = [a.live EXCEPT ![s] = x]
    OBVIOUS
  <2>5. Sane(a, Quiet(AppOf(a.ws, live, a.nextId, a.closed)))
    BY <1>2, <2>3, <2>4, ReportSane DEF Fits
  <2>6. [a EXCEPT !.live[s].cwd = cwd] = AppOf(a.ws, live, a.nextId, a.closed)
    BY <2>2, <2>4 DEF AppOf, Fits
  <2> QED
    BY <1>2, <2>5, <2>6 DEF SessionCwdChanged
<1> QED
  BY <1>1, <1>2

(* A click on a tab. *)
LEMMA ActivateSane ==
  ASSUME NEW a, Fits(a), NEW i
  PROVE  Sane(a, ActivateTab(a, i))
<1>1. Good(a.ws) /\ DOMAIN a.ws.tabs = 1 .. Len(a.ws.tabs)
  BY GoodStrip DEF Fits
<1>2. CASE i \notin DOMAIN a.ws.tabs
  BY <1>2, QuietSane DEF ActivateTab, InStrip
<1>3. CASE i \in DOMAIN a.ws.tabs
  <2>1. PICK w : w = Activate(a.ws, i)
    OBVIOUS
  <2>2. Good(w) /\ HostedIn(w) = HostedIn(a.ws)
    BY <1>1, <1>3, <2>1, ActivateGood
  <2> QED
    BY <1>3, <2>1, <2>2, StripSane DEF ActivateTab, InStrip
<1> QED
  BY <1>2, <1>3

(* A tab parked or unparked. *)
LEMMA ParkSane ==
  ASSUME NEW a, Fits(a), NEW i
  PROVE  Sane(a, ToggleParkTab(a, i))
<1>1. Good(a.ws) /\ DOMAIN a.ws.tabs = 1 .. Len(a.ws.tabs)
  BY GoodStrip DEF Fits
<1>2. CASE i \notin DOMAIN a.ws.tabs
  BY <1>2, QuietSane DEF ToggleParkTab, InStrip
<1>3. CASE i \in DOMAIN a.ws.tabs
  <2>1. PICK w : w = ToggleParked(a.ws, i)
    OBVIOUS
  <2>2. Good(w) /\ HostedIn(w) = HostedIn(a.ws)
    BY <1>1, <1>3, <2>1, ToggleGood
  <2> QED
    BY <1>3, <2>1, <2>2, StripSane DEF ToggleParkTab, InStrip
<1> QED
  BY <1>2, <1>3

(* A tab dragged to another place. *)
LEMMA MoveSane ==
  ASSUME NEW a, Fits(a), NEW from, NEW to
  PROVE  Sane(a, MoveTab(a, from, to))
<1>1. Good(a.ws) /\ DOMAIN a.ws.tabs = 1 .. Len(a.ws.tabs)
  BY GoodStrip DEF Fits
<1>2. CASE ~(from \in DOMAIN a.ws.tabs /\ to \in DOMAIN a.ws.tabs)
  BY <1>2, QuietSane DEF MoveTab, InStrip
<1>3. CASE from \in DOMAIN a.ws.tabs /\ to \in DOMAIN a.ws.tabs
  <2>1. PICK w : w = Move(a.ws, from, to)
    OBVIOUS
  <2>2. Good(w) /\ HostedIn(w) = HostedIn(a.ws)
    BY <1>1, <1>3, <2>1, MoveGood
  <2> QED
    BY <1>3, <2>1, <2>2, StripSane DEF MoveTab, InStrip
<1> QED
  BY <1>2, <1>3

(* A pane brought to the front. *)
LEMMA RevealSane ==
  ASSUME NEW a, Fits(a), NEW s
  PROVE  Sane(a, RevealPane(a, s))
<1>1. Good(a.ws)
  BY DEF Fits
<1>2. CASE s \notin HostedIn(a.ws)
  BY <1>2, QuietSane DEF RevealPane
<1>3. CASE s \in HostedIn(a.ws)
  <2>1. PICK w : w = Reveal(a.ws, s)
    OBVIOUS
  <2>2. Good(w) /\ HostedIn(w) = HostedIn(a.ws)
    BY <1>1, <1>3, <2>1, RevealGood
  <2> QED
    BY <1>3, <2>1, <2>2, StripSane DEF RevealPane
<1> QED
  BY <1>2, <1>3

(* The moves of the focus within the tab shown. *)
LEMMA FocusSane ==
  ASSUME NEW a, Fits(a)
  PROVE  /\ \A s : Sane(a, FocusPaneAt(a, s))
         /\ \A step : Sane(a, FocusNeighbour(a, step))
         /\ \A d \in Direction : Sane(a, FocusTowards(a, d))
<1>1. Good(a.ws)
  BY DEF Fits
<1>2. CASE a.ws.tabs = <<>>
  BY <1>2, QuietSane DEF FocusPaneAt, FocusNeighbour, FocusTowards, OnShown
<1>3. CASE a.ws.tabs # <<>>
  <2>1. a.ws.active \in 1 .. Len(a.ws.tabs)
    BY <1>3, FocusedIs
  <2>2. ASSUME NEW s PROVE Sane(a, FocusPaneAt(a, s))
    <3>1. CASE s \in HostedBy(Shown(a.ws))
      <4>1. PICK w : w = FocusPane(a.ws, s)
        OBVIOUS
      <4>2. Good(w) /\ HostedIn(w) = HostedIn(a.ws)
        BY <1>1, <2>1, <3>1, <4>1, FocusPaneGood
      <4> QED
        BY <1>3, <3>1, <4>1, <4>2, StripSane DEF FocusPaneAt
    <3>2. CASE s \notin HostedBy(Shown(a.ws))
      BY <3>2, QuietSane DEF FocusPaneAt
    <3> QED
      BY <3>1, <3>2
  <2>3. ASSUME NEW step PROVE Sane(a, FocusNeighbour(a, step))
    <3>1. PICK w : w = CyclePanes(a.ws, step)
      OBVIOUS
    <3>2. Good(w) /\ HostedIn(w) = HostedIn(a.ws)
      BY <1>1, <2>1, <3>1, CyclePanesGood
    <3> QED
      BY <1>3, <3>1, <3>2, StripSane DEF FocusNeighbour, OnShown
  <2>4. ASSUME NEW d \in Direction PROVE Sane(a, FocusTowards(a, d))
    <3>1. PICK w : w = FocusDir(a.ws, d)
      OBVIOUS
    <3>2. Good(w) /\ HostedIn(w) = HostedIn(a.ws)
      BY <1>1, <2>1, <3>1, FocusDirGood
    <3> QED
      BY <1>3, <3>1, <3>2, StripSane DEF FocusTowards, OnShown
  <2> QED
    BY <2>2, <2>3, <2>4
<1> QED
  BY <1>2, <1>3

(* A link to a repository. *)
LEMMA OpenRepoSane ==
  ASSUME NEW a, Fits(a), NEW path \in Cwd, NEW resolved
  PROVE  Sane(a, OpenRepo(a, path, resolved))
<1>1. CASE WorkingIn(a, path) # {}
  BY <1>1, RevealSane DEF OpenRepo
<1>2. CASE WorkingIn(a, path) = {} /\ WorkingIn(a, resolved) # {}
  BY <1>2, RevealSane DEF OpenRepo
<1>3. CASE WorkingIn(a, path) = {} /\ WorkingIn(a, resolved) = {}
  <2>1. OpenRepo(a, path, resolved) = Launch(a, "Shell", path, "Foreground")
    BY <1>3 DEF OpenRepo
  <2>2. "Shell" \in LaunchKind
    BY DEF LaunchKind
  <2> QED
    BY <2>1, <2>2, LaunchSane
<1> QED
  BY <1>1, <1>2, <1>3

-----------------------------------------------------------------------------
(***************************************************************************)
(* What the answers are, where a property tells them apart.                *)
(***************************************************************************)

(* A launch with an id left opens a tab for it, in front or behind. *)
LEMMA LaunchIs ==
  ASSUME NEW a, Fits(a), a.nextId # MaxId, NEW launch, NEW cwd, NEW placement,
         NEW id, id = a.nextId + 1,
         NEW w, w = IF placement = "Foreground" THEN OpenTab(a.ws, id) ELSE AppendTab(a.ws, id),
         NEW b, b = Launch(a, launch, cwd, placement).app
  PROVE  /\ b.ws = w
         /\ id \in Registered(b) /\ b.live[id] = Starting(launch, cwd)
<1>1. PICK x : x = Starting(launch, cwd)
  OBVIOUS
<1>2. PICK live : live = [s \in Registered(a) \cup {id} |-> IF s = id THEN x ELSE a.live[s]]
  OBVIOUS
<1>3. Register(a, id, x) = AppOf(a.ws, live, id, a.closed)
  <2>1. a = [ws |-> a.ws, live |-> a.live, nextId |-> a.nextId, closed |-> a.closed]
    BY DEF Fits
  <2> QED
    BY <1>2, <2>1, RegisterIs
<1>4. [Register(a, id, x) EXCEPT !.ws = w] = AppOf(w, live, id, a.closed)
  BY <1>3 DEF AppOf
<1>5. b = AppOf(w, live, id, a.closed)
  <2>1. Launch(a, launch, cwd, placement)
          = Answer([Register(a, a.nextId + 1, x) EXCEPT !.ws = w], <<Spawn(a.nextId + 1)>>)
    BY <1>1 DEF Launch
  <2>2. PICK e : e = <<Spawn(id)>>
    OBVIOUS
  <2>3. Launch(a, launch, cwd, placement) = [app |-> AppOf(w, live, id, a.closed), effects |-> e]
    BY <1>4, <2>1, <2>2 DEF Answer
  <2> QED
    BY <2>3
<1>6. id \in DOMAIN live /\ live[id] = x
  BY <1>2
<1> QED
  BY <1>1, <1>5, <1>6, AppOfFields

(* Remembering a tab puts what ran in its first pane on top of the stack, unless
   the stack holds nothing. *)
LEMMA RememberedIs ==
  ASSUME NEW a, Fits(a), NEW i \in 1 .. Len(a.ws.tabs),
         NEW first, first = a.live[FirstSession(a.ws.tabs[i].layout)],
         NEW closed, closed = RememberClosedTab(a, i).closed
  PROVE  /\ closed \in Seq(Closed) /\ Len(closed) <= MaxClosed
         /\ RememberClosedTab(a, i) = AppOf(a.ws, a.live, a.nextId, closed)
         /\ MaxClosed > 0 => /\ closed # <<>>
                             /\ Last(closed) = [launch |-> first.launch, cwd |-> first.cwd]
<1>1. PICK c \in Seq(Closed) :
        /\ Len(c) <= MaxClosed
        /\ RememberClosedTab(a, i) = AppOf(a.ws, a.live, a.nextId, c)
  BY RememberIs
<1>2. c = closed
  BY <1>1, AppOfFields
<1>3. ASSUME MaxClosed > 0
      PROVE  closed # <<>> /\ Last(closed) = [launch |-> first.launch, cwd |-> first.cwd]
  <2>1. PICK entry : entry = [launch |-> first.launch, cwd |-> first.cwd]
    OBVIOUS
  <2>2. FirstSession(a.ws.tabs[i].layout) \in Registered(a)
    <3>1. Good(a.ws)
      BY DEF Fits
    <3>2. FirstSession(a.ws.tabs[i].layout) \in HostedBy(a.ws.tabs[i])
      BY <3>1, LayoutOfTab, FirstSessionIs DEF HostedBy
    <3>3. FirstSession(a.ws.tabs[i].layout) \in HostedIn(a.ws)
      BY <3>1, <3>2, TabIsTheOne
    <3> QED
      BY <3>3 DEF Fits
  <2>3. entry \in Closed
    BY <2>1, <2>2 DEF Closed, Session, Fits
  <2>4. PICK n : n = Len(a.closed)
    OBVIOUS
  <2>5. a.closed \in Seq(Closed) /\ n \in Nat /\ n <= MaxClosed
    BY <2>4 DEF Fits
  <2>6. PICK stack : stack = Append(a.closed, entry)
    OBVIOUS
  <2>7. stack \in Seq(Closed) /\ Len(stack) = n + 1 /\ stack[n + 1] = entry
    BY <2>3, <2>4, <2>5, <2>6, AppendProperties
  <2>8. closed = IF Len(stack) > MaxClosed THEN Tail(stack) ELSE stack
    <3>1. PICK kept : kept = IF Len(stack) > MaxClosed THEN Tail(stack) ELSE stack
      OBVIOUS
    <3>2. RememberClosedTab(a, i) = [a EXCEPT !.closed = kept]
      BY <2>1, <2>2, <2>6, <3>1 DEF RememberClosedTab
    <3>3. [a EXCEPT !.closed = kept].closed = kept
      BY DEF Fits
    <3> QED
      BY <3>1, <3>2, <3>3
  <2>9. CASE Len(stack) > MaxClosed
    <3>1. PICK rest : rest = Tail(stack)
      OBVIOUS
    <3>2. n \in Nat \ {0}
      BY <1>3, <2>5, <2>7, <2>9, AppAssumption
    <3>3. stack # <<>>
      BY <2>5, <2>7, EmptySeq
    <3>4. rest \in Seq(Closed) /\ Len(rest) = n
      BY <2>5, <2>7, <3>1, <3>3, HeadTailProperties
    <3>5. rest[n] = stack[n + 1]
      BY <2>5, <2>7, <3>1, <3>2, <3>3, <3>4, HeadTailProperties
    <3> QED
      BY <2>1, <2>7, <2>8, <2>9, <3>1, <3>2, <3>4, <3>5, EmptySeq DEF Last
  <2>10. CASE ~(Len(stack) > MaxClosed)
    BY <2>1, <2>5, <2>7, <2>8, <2>10, EmptySeq DEF Last
  <2> QED
    BY <2>9, <2>10
<1> QED
  BY <1>1, <1>2, <1>3

(* The app a closed tab leaves behind. *)
LEMMA CloseTabIs ==
  ASSUME NEW a, Fits(a), NEW i \in 1 .. Len(a.ws.tabs),
         NEW closed, closed = RememberClosedTab(a, i).closed
  PROVE  CloseTab(a, i).app
           = AppOf(CloseAt(a.ws, i), Without(a.live, HostedBy(a.ws.tabs[i])), a.nextId, closed)
<1>1. i \in DOMAIN a.ws.tabs
  BY GoodStrip DEF Fits
<1>2. PICK w : w = CloseAt(a.ws, i)
  OBVIOUS
<1>3. PICK dying : dying = HostedBy(a.ws.tabs[i])
  OBVIOUS
<1>4. RememberClosedTab(a, i) = AppOf(a.ws, a.live, a.nextId, closed)
  BY RememberedIs
<1>5. [RememberClosedTab(a, i) EXCEPT !.ws = CloseAt(@, i)] = AppOf(w, a.live, a.nextId, closed)
  BY <1>2, <1>4 DEF AppOf
<1>6. CloseTab(a, i).app = Forget(AppOf(w, a.live, a.nextId, closed), dying)
  BY <1>1, <1>3, <1>5 DEF CloseTab, Answer
<1> QED
  BY <1>2, <1>3, <1>6, ForgetIs

(* The strip a closed pane leaves behind. *)
LEMMA ReleaseIs ==
  ASSUME NEW a, Fits(a), NEW s, NEW w
  PROVE  ReleaseClosedPane(a, s, w).app.ws = w
<1>1. [a EXCEPT !.ws = w] = AppOf(w, a.live, a.nextId, a.closed)
  BY DEF AppOf, Fits
<1>2. Forget([a EXCEPT !.ws = w], {s}) = AppOf(w, Without(a.live, {s}), a.nextId, a.closed)
  BY <1>1, ForgetIs
<1> QED
  BY <1>2, AppOfFields DEF ReleaseClosedPane, Answer
=============================================================================
