---------------------------- MODULE WidgetSyncProofs ----------------------------
(***************************************************************************)
(* ChildrenInOrder and NodesAreReused for any number of children, any      *)
(* lists of them and any number of syncs and rebuilds.                     *)
(***************************************************************************)
EXTENDS WidgetSync, SequenceTheorems, FiniteSetTheorems, WellFoundedInduction, TLAPS

USE SyncAssumption

(* What a synced child is: a widget with its render object and its slot. *)
Types == {w.type : w \in Widgets}
Keys == {w.key : w \in Widgets}
Nodes == [type : Types, key : Keys, root : Nat, slot : Nat]

TypeOK == /\ children \in Seq(Nodes) /\ Len(children) <= MaxChildren
          /\ old_children \in Seq(Nodes) /\ Len(old_children) <= MaxChildren
          /\ siblings \in Seq(Nat \ {0})
          /\ start_index \in Nat \ {0} /\ end_index \in Nat
          /\ old_start_index \in Nat \ {0} /\ old_end_index \in Nat
          /\ next_sibling \in Nat
          /\ stage \in {"idle", "backward", "forward", "failed"}

(* Two children have the same key only where they have none. *)
KeysDiffer(list) ==
    \A i, j \in DOMAIN list : list[i].key = list[j].key => i = j \/ list[i].key = NoKey

Differ(s) == \A i, j \in DOMAIN s : s[i] = s[j] => i = j

RootsDiffer(list) == \A i, j \in DOMAIN list : list[i].root = list[j].root => i = j

(* The old children whose turn is still to come. *)
Rest == {k \in old_start_index .. old_end_index : old_children[k].key \notin reordered}

(* The places a..b of s hold the roots of the children of list in R, in their order. *)
Holds(s, a, b, list, R) ==
    /\ \A i \in a .. b : \E k \in R : s[i] = list[k].root
    /\ \A k \in R : \E i \in a .. b : s[i] = list[k].root
    /\ \A i, j \in a .. b, k, l \in R :
           s[i] = list[k].root /\ s[j] = list[l].root /\ i < j => k < l

(* Children before a and after b have their roots at the ends of s. *)
Ends(s, list, a, b) ==
    /\ a >= 1 /\ b <= Len(list) /\ a <= b + 1
    /\ a - 1 + (Len(list) - b) <= Len(s)
    /\ \A i \in 1 .. a - 1 : s[i] = list[i].root
    /\ \A i \in b + 1 .. Len(list) : s[Len(s) - Len(list) + i] = list[i].root

Shape(s, list, a, b, olds, R) ==
    /\ s \in Seq(Nat \ {0}) /\ list \in Seq(Nodes) /\ olds \in Seq(Nodes)
    /\ a \in Int /\ b \in Int /\ R \subseteq DOMAIN olds
    /\ Differ(s) /\ RootsDiffer(olds)
    /\ Ends(s, list, a, b)
    /\ Holds(s, a, Len(s) - (Len(list) - b), olds, R)

(* A slot is the sibling in the place p, if it is one at all. *)
SlotIs(s, slot, p) ==
    /\ slot = Null => p > Len(s)
    /\ \A j \in 1 .. Len(s) : s[j] = slot => j = p

Slots(s, list, a, b) ==
    /\ \A i \in 1 .. a - 1 : SlotIs(s, list[i].slot, i + 1)
    /\ \A i \in b + 1 .. Len(list) : SlotIs(s, list[i].slot, Len(s) - Len(list) + i + 1)

(* The sibling to insert before, to come to the place p. *)
At(s, p) == IF p > Len(s) THEN Null ELSE s[p]

NextSibling ==
    /\ stage = "backward" =>
         /\ start_index = 1 /\ old_start_index = 1 /\ reordered = {}
         /\ next_sibling = IF end_index = Len(children) THEN Null ELSE children[end_index + 1].root
    /\ stage = "forward" /\ start_index <= end_index =>
         next_sibling = At(siblings, start_index)

Places ==
    /\ NoKey \notin reordered
    /\ old_start_index <= old_end_index + 1 /\ old_end_index <= Len(old_children)
    /\ old_start_index <= old_end_index => old_start_index \in Rest

Synced == (1 .. start_index - 1) \cup (end_index + 1 .. Len(children))

(* The keys of the children that were synced: those that were reordered, and, while  *)
(* children are left, those of the old children whose turn has come.                 *)
KeysAreKnown ==
    /\ \A key \in reordered : \E i \in Synced : children[i].key = key
    /\ start_index <= end_index => \A k \in DOMAIN old_children \ Rest :
          old_children[k].key # NoKey => \E i \in Synced : children[i].key = old_children[k].key

Reused ==
    program \subseteq {KeysChangeType} =>
        \A i \in Synced, j \in DOMAIN old_children :
            (/\ children[i].key = old_children[j].key
             /\ children[i].type = old_children[j].type
             /\ children[i].key # NoKey)
                => children[i].root = old_children[j].root

Ended == stage = "idle" => start_index = end_index + 1 /\ Rest = {}

SyncInv ==
   /\ KeysDiffer(children) /\ KeysDiffer(old_children)
   /\ Shape(siblings, children, start_index, end_index, old_children, Rest)
   /\ Slots(siblings, children, start_index, end_index)
   /\ NextSibling /\ Places /\ KeysAreKnown /\ Reused /\ Ended

IInv == TypeOK /\ (stage # "failed" => SyncInv)

-----------------------------------------------------------------------------
(* What happens to the list of render objects. *)

(* t is s without what is in its place p, with o in the place p too, or instead of it. *)
Removes(s, p, t) ==
    /\ Len(t) = Len(s) - 1
    /\ \A i \in 1 .. Len(s) - 1 : t[i] = IF i < p THEN s[i] ELSE s[i + 1]

Inserts(s, p, o, t) ==
    /\ Len(t) = Len(s) + 1
    /\ \A i \in 1 .. Len(s) + 1 : t[i] = IF i < p THEN s[i] ELSE IF i = p THEN o ELSE s[i - 1]

(* t is s with o in the place a, and what was in the place p gone from there. *)
Takes(s, a, p, o, t) ==
    /\ t \in Seq(Nat \ {0})
    /\ Len(t) = Len(s)
    /\ \A i \in 1 .. Len(s) : t[i] = IF i < a \/ i > p THEN s[i]
                                     ELSE IF i = a THEN o ELSE s[i - 1]

LEMMA WithoutRemoves ==
    ASSUME NEW S, NEW s \in Seq(S), NEW p \in 1 .. Len(s), Differ(s)
    PROVE  /\ Without(s, s[p]) \in Seq(S)
           /\ Removes(s, p, Without(s, s[p]))
<1>0. Len(s) \in Nat /\ p \in Int
  OBVIOUS
<1> DEFINE front == SubSeq(s, 1, p - 1)
           back == SubSeq(s, p + 1, Len(s))
<1>1. /\ front \in Seq(S) /\ Len(front) = p - 1
      /\ \A i \in 1 .. p - 1 : front[i] = s[i]
  BY SubSeqProperties
<1>2. /\ back \in Seq(S) /\ Len(back) = Len(s) - p
      /\ \A i \in 1 .. Len(s) - p : back[i] = s[p + i]
  BY SubSeqProperties
<1> HIDE DEF front, back
<1>3. front \o back \in Seq(S) /\ Len(front \o back) = Len(s) - 1
  <2>1. front \o back \in Seq(S) /\ Len(front \o back) = Len(front) + Len(back)
    BY <1>1, <1>2, ConcatProperties, Zenon
  <2>. QED  BY <1>0, <1>1, <1>2, <2>1
<1>4. ASSUME NEW i \in 1 .. Len(s) - 1
      PROVE  (front \o back)[i] = IF i < p THEN s[i] ELSE s[i + 1]
  <2>0. i < p \/ i >= p
    BY <1>0
  <2>1. CASE i < p
    BY <1>1, <1>2, <2>1
  <2>2. CASE i >= p
    <3>1. (front \o back)[i] = back[i - p + 1] /\ i - p + 1 \in 1 .. Len(s) - p
      BY <1>1, <1>2, <2>2
    <3>. QED  BY <1>2, <2>2, <3>1
  <2>. QED  BY <2>0, <2>1, <2>2, Zenon
<1>5. {i \in 1 .. Len(s) : s[i] = s[p]} = {p}
  BY DEF Differ
<1>6. Min({p}) = p
  BY DEF Min
<1>7. SelectInSeq(s, LAMBDA v : v = s[p]) = p
  BY <1>5, <1>6 DEF SelectInSeq
<1>8. RemoveFirst(s, s[p]) = RemoveAt(s, p)
  BY <1>7 DEF RemoveFirst
<1>9. RemoveAt(s, p) = front \o back
  BY DEF RemoveAt, front, back
<1>. QED  BY <1>3, <1>4, <1>8, <1>9 DEF Removes, Without

LEMMA PositionIs ==
    ASSUME NEW S, NEW s \in Seq(S), NEW p \in 1 .. Len(s), Differ(s)
    PROVE  Position(s, s[p]) = p
BY DEF Position, Differ

LEMMA BeforeInserts ==
    ASSUME NEW S, NEW s \in Seq(S), NEW p \in 1 .. Len(s) + 1, NEW o \in S, Null \notin S,
           Differ(s)
    PROVE  /\ Before(s, o, At(s, p)) \in Seq(S)
           /\ Inserts(s, p, o, Before(s, o, At(s, p)))
<1>0. Len(s) \in Nat /\ p \in Int
  OBVIOUS
<1> DEFINE front == SubSeq(s, 1, p - 1)
           back == SubSeq(s, p, Len(s))
           most == front \o <<o>>
<1>1. /\ front \in Seq(S) /\ Len(front) = p - 1
      /\ \A i \in 1 .. p - 1 : front[i] = s[i]
  BY SubSeqProperties
<1>2. /\ back \in Seq(S) /\ Len(back) = Len(s) - p + 1
      /\ \A i \in 1 .. Len(s) - p + 1 : back[i] = s[p + i - 1]
  BY SubSeqProperties
<1> HIDE DEF front, back
<1>3. /\ most \in Seq(S) /\ Len(most) = p
      /\ \A i \in 1 .. p : most[i] = IF i < p THEN s[i] ELSE o
  BY <1>1
<1> HIDE DEF most
<1>4. most \o back \in Seq(S) /\ Len(most \o back) = Len(s) + 1
  <2>1. most \o back \in Seq(S) /\ Len(most \o back) = Len(most) + Len(back)
    BY <1>2, <1>3, ConcatProperties, Zenon
  <2>. QED  BY <1>0, <1>2, <1>3, <2>1
<1>5. ASSUME NEW i \in 1 .. Len(s) + 1
      PROVE  (most \o back)[i] = IF i < p THEN s[i] ELSE IF i = p THEN o ELSE s[i - 1]
  <2>0. i <= p \/ i > p
    BY <1>0
  <2>1. CASE i <= p
    BY <1>2, <1>3, <2>1
  <2>2. CASE i > p
    <3>1. (most \o back)[i] = back[i - p] /\ i - p \in 1 .. Len(s) - p + 1
      BY <1>2, <1>3, <2>2
    <3>. QED  BY <1>2, <2>2, <3>1
  <2>. QED  BY <2>0, <2>1, <2>2, Zenon
<1>6. CASE p <= Len(s)
  <2>1. At(s, p) = s[p] /\ s[p] \in S /\ Position(s, s[p]) = p
    BY <1>6, PositionIs DEF At
  <2>2. Before(s, o, At(s, p)) = most \o back
    BY <2>1 DEF Before, most, front, back
  <2>. QED  BY <1>4, <1>5, <2>2 DEF Inserts
<1>7. CASE p = Len(s) + 1
  <2>1. Before(s, o, At(s, p)) = Append(s, o)
    BY <1>7 DEF Before, At
  <2>. QED  BY <1>7, <2>1 DEF Inserts
<1>. QED  BY <1>0, <1>6, <1>7

(* What is inserted, without what was in the place p, comes to the place a. *)
LEMMA TakesThePlace ==
    ASSUME NEW s \in Seq(Nat \ {0}), NEW p \in 1 .. Len(s), NEW a \in 1 .. p, NEW o,
           NEW l, NEW t \in Seq(Nat \ {0}), Removes(s, p, l), Inserts(l, a, o, t)
    PROVE  Takes(s, a, p, o, t)
<1>1. Len(s) \in Nat /\ p \in Int /\ a \in Int /\ Len(l) = Len(s) - 1 /\ Len(t) = Len(s)
  BY DEF Removes, Inserts
<1>2. ASSUME NEW i \in 1 .. Len(s)
      PROVE  t[i] = IF i < a \/ i > p THEN s[i] ELSE IF i = a THEN o ELSE s[i - 1]
  <2>1. i < a \/ i = a \/ i > a
    BY <1>1
  <2>2. CASE i < a
    <3>1. t[i] = l[i] /\ i \in 1 .. Len(s) - 1
      BY <1>1, <2>2 DEF Inserts
    <3>. QED  BY <1>1, <2>2, <3>1 DEF Removes
  <2>3. CASE i = a
    BY <1>1, <2>3 DEF Inserts
  <2>4. CASE i > a
    <3>1. i \in 1 .. Len(l) + 1 /\ i - 1 \in 1 .. Len(s) - 1 /\ ~(i < a) /\ i # a
      BY <1>1, <2>4
    <3>3. t[i] = l[i - 1]
      BY <3>1 DEF Inserts
    <3>2. l[i - 1] = IF i - 1 < p THEN s[i - 1] ELSE s[i]
      BY <1>1, <3>1 DEF Removes
    <3>. QED  BY <1>1, <2>4, <3>1, <3>2, <3>3
  <2>. QED  BY <2>1, <2>2, <2>3, <2>4, Zenon
<1>. QED  BY <1>1, <1>2 DEF Takes

-----------------------------------------------------------------------------
(* What becomes of the shape of the list. *)

LEMMA PlacesOfShape ==
    ASSUME NEW s, NEW c, NEW olds, NEW a, NEW b, NEW R, Shape(s, c, a, b, olds, R)
    PROVE  /\ Len(s) \in Nat /\ Len(c) \in Nat /\ a \in Int /\ b \in Int
           /\ DOMAIN s = 1 .. Len(s) /\ DOMAIN c = 1 .. Len(c) /\ DOMAIN olds = 1 .. Len(olds)
           /\ Len(olds) \in Nat /\ R \subseteq Int
           /\ 1 <= a /\ b <= Len(c) /\ a <= b + 1
           /\ a - 1 + (Len(c) - b) <= Len(s)
<1>1. /\ s \in Seq(Nat \ {0}) /\ c \in Seq(Nodes) /\ olds \in Seq(Nodes)
      /\ a \in Int /\ b \in Int /\ R \subseteq DOMAIN olds /\ Ends(s, c, a, b)
  BY DEF Shape
<1>. QED  BY <1>1 DEF Ends

(* What Shape says, place by place. *)
LEMMA ShapeIs ==
    ASSUME NEW s, NEW c, NEW olds, NEW a, NEW b, NEW R, Shape(s, c, a, b, olds, R)
    PROVE  /\ \A i, j \in 1 .. Len(s) : s[i] = s[j] => i = j
           /\ \A i \in 1 .. a - 1 : s[i] = c[i].root
           /\ \A i \in b + 1 .. Len(c) : s[Len(s) - Len(c) + i] = c[i].root
           /\ Holds(s, a, Len(s) - (Len(c) - b), olds, R)
           /\ \A k, l \in R : olds[l].root = olds[k].root => l = k
<1>1. Differ(s) /\ RootsDiffer(olds) /\ R \subseteq DOMAIN olds /\ DOMAIN s = 1 .. Len(s)
  BY PlacesOfShape DEF Shape
<1>. QED  BY <1>1 DEF Shape, Ends, Differ, RootsDiffer

(* The first and the last old child whose turn is to come are where they are looked for. *)
LEMMA FirstOfRest ==
    ASSUME NEW s, NEW c, NEW olds, NEW a, NEW b, NEW R, Shape(s, c, a, b, olds, R),
           NEW k \in R, \A l \in R : k <= l
    PROVE  a <= Len(s) - (Len(c) - b) /\ s[a] = olds[k].root
<1> DEFINE z == Len(s) - (Len(c) - b)
<1>1. z \in Int /\ a \in Int /\ R \subseteq Int
  BY PlacesOfShape
<1>2. Holds(s, a, z, olds, R)
  BY ShapeIs
<1> HIDE DEF z
<1>3. PICK i \in a .. z : s[i] = olds[k].root
  BY <1>2 DEF Holds
<1>4. a \in a .. z
  BY <1>1, <1>3
<1>5. PICK l \in R : s[a] = olds[l].root
  BY <1>2, <1>4 DEF Holds
<1>6. a < i => l < k
  BY <1>2, <1>3, <1>4, <1>5 DEF Holds
<1>7. a <= z /\ i = a
  BY <1>1, <1>3, <1>6
<1>. QED  BY <1>3, <1>7 DEF z

LEMMA LastOfRest ==
    ASSUME NEW s, NEW c, NEW olds, NEW a, NEW b, NEW R, Shape(s, c, a, b, olds, R),
           NEW k \in R, \A l \in R : l <= k
    PROVE  LET z == Len(s) - (Len(c) - b)
           IN  a <= z /\ s[z] = olds[k].root
<1> DEFINE z == Len(s) - (Len(c) - b)
<1>1. z \in Int /\ a \in Int /\ R \subseteq Int
  BY PlacesOfShape
<1>2. Holds(s, a, z, olds, R)
  BY ShapeIs
<1> HIDE DEF z
<1>3. PICK i \in a .. z : s[i] = olds[k].root
  BY <1>2 DEF Holds
<1>4. z \in a .. z
  BY <1>1, <1>3
<1>5. PICK l \in R : s[z] = olds[l].root
  BY <1>2, <1>4 DEF Holds
<1>6. i < z => k < l
  BY <1>2, <1>3, <1>4, <1>5 DEF Holds
<1>7. a <= z /\ i = z
  BY <1>1, <1>3, <1>6
<1>8. a <= z /\ s[z] = olds[k].root
  BY <1>3, <1>7
<1>. QED  BY <1>8 DEF z

(* The places of s and t when t takes what is in the place p of s to the place a, as o. *)
Taking(s, n, a, p, o, t) ==
    /\ n \in Nat /\ a \in Int /\ p \in Int
    /\ 1 <= a /\ a <= p /\ p <= n
    /\ \A i \in 1 .. n : t[i] = IF i < a \/ i > p THEN s[i] ELSE IF i = a THEN o ELSE s[i - 1]

DifferUpTo(s, n) == \A i, j \in 1 .. n : s[i] = s[j] => i = j

NewOrAt(s, n, p, o) == o = s[p] \/ \A i \in 1 .. n : s[i] # o

LEMMA TakeDiffers ==
    ASSUME NEW s, NEW t, NEW n, NEW a, NEW p, NEW o, Taking(s, n, a, p, o, t),
           NewOrAt(s, n, p, o), DifferUpTo(s, n)
    PROVE  DifferUpTo(t, n)
<1> USE DEF Taking, NewOrAt, DifferUpTo
<1>. SUFFICES ASSUME NEW i \in 1 .. n, NEW j \in 1 .. n, t[i] = t[j] PROVE i = j
  OBVIOUS
<1>1. CASE i = a /\ j # a
  <2>1. t[i] = o /\ t[j] = s[IF j < a \/ j > p THEN j ELSE j - 1]
    BY <1>1
  <2>2. (IF j < a \/ j > p THEN j ELSE j - 1) \in (1 .. n) \ {p}
    BY <1>1
  <2>. QED  BY <1>1, <2>1, <2>2
<1>2. CASE i # a /\ j = a
  <2>1. t[j] = o /\ t[i] = s[IF i < a \/ i > p THEN i ELSE i - 1]
    BY <1>2
  <2>2. (IF i < a \/ i > p THEN i ELSE i - 1) \in (1 .. n) \ {p}
    BY <1>2
  <2>3. p \in 1 .. n
    OBVIOUS
  <2>4. s[IF i < a \/ i > p THEN i ELSE i - 1] # s[p]
    BY <2>2, <2>3
  <2>. QED  BY <2>1, <2>2, <2>4
<1>3. CASE i # a /\ j # a
  <2>1. /\ t[i] = s[IF i < a \/ i > p THEN i ELSE i - 1]
        /\ t[j] = s[IF j < a \/ j > p THEN j ELSE j - 1]
    BY <1>3
  <2>2. /\ (IF i < a \/ i > p THEN i ELSE i - 1) \in 1 .. n
        /\ (IF j < a \/ j > p THEN j ELSE j - 1) \in 1 .. n
    BY <1>3
  <2>3. (IF i < a \/ i > p THEN i ELSE i - 1) = (IF j < a \/ j > p THEN j ELSE j - 1)
    BY <2>1, <2>2
  <2>. QED  BY <1>3, <2>3
<1>. QED  BY <1>1, <1>2, <1>3

LEMMA TakeHolds ==
    ASSUME NEW s, NEW t, NEW n, NEW a, NEW p, NEW o, Taking(s, n, a, p, o, t),
           NEW z \in Int, p <= z, z <= n, DifferUpTo(s, n),
           NEW olds, NEW R, NEW k \in R, \A l \in R : olds[l].root = olds[k].root => l = k,
           s[p] = olds[k].root, Holds(s, a, z, olds, R)
    PROVE  Holds(t, a + 1, z, olds, R \ {k})
<1> USE DEF Taking, DifferUpTo
<1> DEFINE from(i) == IF i <= p THEN i - 1 ELSE i
<1>1. ASSUME NEW i \in a + 1 .. z
      PROVE  from(i) \in a .. z /\ from(i) # p /\ t[i] = s[from(i)]
  OBVIOUS
<1>2. ASSUME NEW i \in a + 1 .. z, NEW j \in a + 1 .. z, i < j
      PROVE  from(i) < from(j)
  BY <1>2
<1>3. ASSUME NEW j \in a .. z, j # p
      PROVE  \E i \in a + 1 .. z : from(i) = j
  <2>1. CASE j < p
    <3>1. j + 1 \in a + 1 .. z /\ from(j + 1) = j
      BY <2>1
    <3>. QED  BY <3>1
  <2>2. CASE j > p
    <3>1. j \in a + 1 .. z /\ from(j) = j
      BY <2>2
    <3>. QED  BY <3>1
  <2>. QED  BY <1>3, <2>1, <2>2
<1>4. \A j \in a .. z : j \in 1 .. n
  OBVIOUS
<1>5. p \in 1 .. n
  OBVIOUS
<1> HIDE DEF from
<1>6. ASSUME NEW i \in a + 1 .. z PROVE \E l \in R \ {k} : t[i] = olds[l].root
  <2>1. s[from(i)] # s[p]
    BY <1>1, <1>4, <1>5
  <2>. QED  BY <1>1, <2>1 DEF Holds
<1>7. ASSUME NEW l \in R \ {k} PROVE \E i \in a + 1 .. z : t[i] = olds[l].root
  <2>1. PICK j \in a .. z : s[j] = olds[l].root
    BY DEF Holds
  <2>2. j # p
    BY <2>1
  <2>3. PICK i \in a + 1 .. z : from(i) = j
    BY <1>3, <2>2
  <2>. QED  BY <1>1, <2>1, <2>3
<1>8. ASSUME NEW i \in a + 1 .. z, NEW j \in a + 1 .. z, NEW l \in R \ {k}, NEW m \in R \ {k},
             t[i] = olds[l].root, t[j] = olds[m].root, i < j
      PROVE  l < m
  <2>1. from(i) \in a .. z /\ from(j) \in a .. z /\ from(i) < from(j)
    BY <1>1, <1>2, <1>8
  <2>2. s[from(i)] = olds[l].root /\ s[from(j)] = olds[m].root
    BY <1>1, <1>8
  <2>. QED  BY <2>1, <2>2 DEF Holds
<1>. QED  BY <1>6, <1>7, <1>8 DEF Holds

(* d is c with o for the root of the child at a. *)
NewRoot(c, a, o, d) ==
    /\ d \in Seq(Nodes)
    /\ Len(d) = Len(c)
    /\ d[a].root = o
    /\ \A i \in 1 .. Len(c) : i # a => d[i].root = c[i].root

(* Where the children at the end have their roots. *)
LEMMA PlacesAtTheEnd ==
    ASSUME NEW n \in Nat, NEW m \in Nat, NEW b \in Int, b <= m, m - b <= n,
           NEW i \in b + 1 .. m
    PROVE  n - m + i \in 1 .. n /\ n - m + i > n - (m - b)
OBVIOUS

(* An old child is synced with the first child that is left: its root comes to the front. *)
LEMMA TakeKeepsShape ==
    ASSUME NEW s, NEW c, NEW olds, NEW a, NEW b, NEW R, Shape(s, c, a, b, olds, R), a <= b,
           NEW k \in R, NEW p \in a .. Len(s) - (Len(c) - b), s[p] = olds[k].root,
           NEW o, o = s[p] \/ \A i \in 1 .. Len(s) : s[i] # o,
           NEW t, Takes(s, a, p, o, t), NEW d, NewRoot(c, a, o, d)
    PROVE  Shape(t, d, a + 1, b, olds, R \ {k})
<1> DEFINE n == Len(s)
           m == Len(c)
           z == n - (m - b)
<1>1. /\ n \in Nat /\ m \in Nat /\ a \in Int /\ b \in Int
      /\ 1 <= a /\ b <= m /\ a - 1 + (m - b) <= n
  BY PlacesOfShape
<1>2. /\ \A i, j \in 1 .. n : s[i] = s[j] => i = j
      /\ \A i \in 1 .. a - 1 : s[i] = c[i].root
      /\ \A i \in b + 1 .. m : s[n - m + i] = c[i].root
      /\ Holds(s, a, z, olds, R)
      /\ \A l \in R : olds[l].root = olds[k].root => l = k
  BY ShapeIs
<1>3. /\ t \in Seq(Nat \ {0}) /\ Len(t) = n /\ DOMAIN t = 1 .. n
      /\ \A i \in 1 .. n : t[i] = IF i < a \/ i > p THEN s[i] ELSE IF i = a THEN o ELSE s[i - 1]
  <2>1. t \in Seq(Nat \ {0}) /\ Len(t) = n
    BY DEF Takes
  <2>. QED  BY <2>1 DEF Takes
<1>4. d \in Seq(Nodes) /\ Len(d) = m /\ \A i \in 1 .. m : i # a => d[i].root = c[i].root
  BY DEF NewRoot
<1>5. o = s[p] \/ \A i \in 1 .. n : s[i] # o
  OBVIOUS
<1> HIDE DEF n, m
<1>6. /\ z \in Int /\ p \in Int /\ m - b <= n
      /\ 1 <= a /\ a <= p /\ p <= z /\ z <= n /\ p <= n
  <2>1. p \in a .. z
    BY DEF n, m
  <2>. QED  BY <1>1, <2>1
<1> HIDE DEF z
<1>7. Taking(s, n, a, p, o, t) /\ DifferUpTo(s, n) /\ NewOrAt(s, n, p, o)
  BY <1>1, <1>2, <1>3, <1>5, <1>6 DEF Taking, DifferUpTo, NewOrAt
<1>8. DifferUpTo(t, n) /\ Holds(t, a + 1, z, olds, R \ {k})
  BY <1>2, <1>6, <1>7, TakeDiffers, TakeHolds, Zenon
<1>9. ASSUME NEW i \in 1 .. (a + 1) - 1 PROVE t[i] = d[i].root
  <2>1. i \in 1 .. n /\ i \in 1 .. m /\ (i = a \/ i < a)
    BY <1>1, <1>6
  <2>2. CASE i = a
    BY <1>1, <1>3, <1>6, <2>1, <2>2 DEF NewRoot
  <2>3. CASE i < a
    <3>1. i \in 1 .. a - 1 /\ i # a
      BY <1>1, <2>1, <2>3
    <3>2. t[i] = s[i]
      BY <1>3, <2>1, <2>3
    <3>. QED  BY <1>2, <1>4, <2>1, <3>1, <3>2
  <2>. QED  BY <2>1, <2>2, <2>3
<1>10. ASSUME NEW i \in b + 1 .. m PROVE t[n - m + i] = d[i].root
  <2>1. n - m + i \in 1 .. n /\ n - m + i > z
    BY <1>1, <1>6, PlacesAtTheEnd DEF z
  <2>2. n - m + i > p /\ i \in 1 .. m /\ i # a
    BY <1>1, <1>6, <2>1
  <2>. QED  BY <1>2, <1>3, <1>4, <2>1, <2>2
<1>11. a + 1 >= 1 /\ b <= m /\ a + 1 <= b + 1 /\ (a + 1) - 1 + (m - b) <= n
  BY <1>1, <1>6 DEF z
<1>12. Ends(t, d, a + 1, b)
  BY <1>3, <1>4, <1>9, <1>10, <1>11 DEF Ends
<1>13. Differ(t)
  BY <1>3, <1>8 DEF Differ, DifferUpTo
<1>14. Holds(t, a + 1, Len(t) - (Len(d) - b), olds, R \ {k})
  BY <1>3, <1>4, <1>8 DEF z
<1>. QED  BY <1>1, <1>3, <1>4, <1>12, <1>13, <1>14 DEF Shape

(* The last old child is synced with the last child: its root stays at the end. *)
LEMMA TakeAtTheEndKeepsShape ==
    ASSUME NEW s, NEW c, NEW olds, NEW a, NEW b, NEW R, Shape(s, c, a, b, olds, R), a <= b,
           NEW p, p = Len(s) - (Len(c) - b), a <= p,
           NEW k \in R, s[p] = olds[k].root,
           NEW o, o = s[p] \/ \A i \in 1 .. Len(s) : s[i] # o,
           NEW t, Takes(s, p, p, o, t), NEW d, NewRoot(c, b, o, d)
    PROVE  Shape(t, d, a, b - 1, olds, R \ {k})
<1> DEFINE n == Len(s)
           m == Len(c)
<1>1. /\ n \in Nat /\ m \in Nat /\ a \in Int /\ b \in Int
      /\ 1 <= a /\ b <= m /\ a - 1 + (m - b) <= n
  BY PlacesOfShape
<1>2. /\ \A i, j \in 1 .. n : s[i] = s[j] => i = j
      /\ \A i \in 1 .. a - 1 : s[i] = c[i].root
      /\ \A i \in b + 1 .. m : s[n - m + i] = c[i].root
      /\ Holds(s, a, p, olds, R)
      /\ \A l \in R : olds[l].root = olds[k].root => l = k
  BY ShapeIs
<1>3. /\ t \in Seq(Nat \ {0}) /\ Len(t) = n /\ DOMAIN t = 1 .. n
      /\ \A i \in 1 .. n : t[i] = IF i < p \/ i > p THEN s[i] ELSE IF i = p THEN o ELSE s[i - 1]
  <2>1. t \in Seq(Nat \ {0}) /\ Len(t) = n
    BY DEF Takes
  <2>. QED  BY <2>1 DEF Takes
<1>4. d \in Seq(Nodes) /\ Len(d) = m /\ \A i \in 1 .. m : i # b => d[i].root = c[i].root
  BY DEF NewRoot
<1>5. o = s[p] \/ \A i \in 1 .. n : s[i] # o
  OBVIOUS
<1> HIDE DEF n, m
<1>6. p = n - (m - b) /\ p \in 1 .. n /\ a <= p /\ a <= b /\ p \in Int
  <2>1. p = n - (m - b)
    BY DEF n, m
  <2>. QED  BY <1>1, <2>1
<1>7. \A i \in 1 .. n : IF i = p THEN t[i] = o ELSE t[i] = s[i]
  BY <1>3, <1>6
<1>8. Taking(s, n, p, p, o, t) /\ DifferUpTo(s, n) /\ NewOrAt(s, n, p, o)
  BY <1>1, <1>2, <1>3, <1>5, <1>6 DEF Taking, DifferUpTo, NewOrAt
<1>9. Differ(t)
  <2>1. DifferUpTo(t, n)
    BY <1>8, TakeDiffers, Zenon
  <2>. QED  BY <1>3, <2>1 DEF Differ, DifferUpTo
<1>10. Holds(t, a, p - 1, olds, R \ {k})
  <2>1. \A i \in a .. p - 1 : i \in 1 .. n /\ i \in a .. p /\ i # p /\ t[i] = s[i]
    BY <1>1, <1>6, <1>7
  <2>2. \A i \in a .. p : i # p => i \in a .. p - 1
    BY <1>1, <1>6
  <2>3. ASSUME NEW i \in a .. p - 1 PROVE \E l \in R \ {k} : t[i] = olds[l].root
    <3>1. s[i] # s[p]
      BY <1>2, <1>6, <2>1
    <3>. QED  BY <1>2, <2>1, <3>1 DEF Holds
  <2>4. ASSUME NEW l \in R \ {k} PROVE \E i \in a .. p - 1 : t[i] = olds[l].root
    <3>1. PICK i \in a .. p : s[i] = olds[l].root
      BY <1>2 DEF Holds
    <3>2. i # p
      BY <1>2, <3>1
    <3>. QED  BY <2>1, <2>2, <3>1, <3>2
  <2>5. ASSUME NEW i \in a .. p - 1, NEW j \in a .. p - 1, NEW l \in R \ {k}, NEW q \in R \ {k},
               t[i] = olds[l].root, t[j] = olds[q].root, i < j
        PROVE  l < q
    BY <1>2, <2>1, <2>5 DEF Holds
  <2>. QED  BY <2>3, <2>4, <2>5 DEF Holds
<1>11. ASSUME NEW i \in 1 .. a - 1 PROVE t[i] = d[i].root
  <2>1. i \in 1 .. n /\ i # p /\ i \in 1 .. m /\ i # b
    BY <1>1, <1>6
  <2>. QED  BY <1>2, <1>4, <1>7, <2>1
<1>12. ASSUME NEW i \in (b - 1) + 1 .. m PROVE t[n - m + i] = d[i].root
  <2>1. i = b \/ (i # b /\ i \in b + 1 .. m /\ i \in 1 .. m)
    BY <1>1, <1>6
  <2>2. CASE i = b
    <3>1. n - m + i = p
      BY <1>1, <1>6, <2>2
    <3>. QED  BY <1>6, <1>7, <2>2, <3>1 DEF NewRoot
  <2>3. CASE i # b /\ i \in b + 1 .. m /\ i \in 1 .. m
    <3>1. n - m + i \in 1 .. n /\ n - m + i # p
      BY <1>1, <1>6, <2>3
    <3>. QED  BY <1>2, <1>4, <1>7, <2>3, <3>1
  <2>. QED  BY <2>1, <2>2, <2>3
<1>13. a >= 1 /\ b - 1 <= m /\ a <= (b - 1) + 1 /\ a - 1 + (m - (b - 1)) <= n
  BY <1>1, <1>6
<1>14. Ends(t, d, a, b - 1)
  BY <1>3, <1>4, <1>11, <1>12, <1>13 DEF Ends
<1>15. p - 1 = Len(t) - (Len(d) - (b - 1))
  <2>1. p - 1 = n - (m - (b - 1))
    BY <1>1, <1>6
  <2>. QED  BY <1>3, <1>4, <2>1
<1>16. Holds(t, a, Len(t) - (Len(d) - (b - 1)), olds, R \ {k})
  BY <1>10, <1>15
<1>. QED  BY <1>1, <1>3, <1>4, <1>9, <1>14, <1>16 DEF Shape

(* A child gets a new root, which is inserted behind those in front of it. *)
LEMMA InsertKeepsShape ==
    ASSUME NEW s, NEW c, NEW olds, NEW a, NEW b, NEW R, Shape(s, c, a, b, olds, R), a <= b,
           NEW o, \A i \in 1 .. Len(s) : s[i] # o,
           NEW t \in Seq(Nat \ {0}), Inserts(s, a, o, t), NEW d, NewRoot(c, a, o, d)
    PROVE  Shape(t, d, a + 1, b, olds, R)
<1> DEFINE n == Len(s)
           m == Len(c)
           z == n - (m - b)
<1>1. /\ n \in Nat /\ m \in Nat /\ a \in Int /\ b \in Int
      /\ 1 <= a /\ b <= m /\ a - 1 + (m - b) <= n
  BY PlacesOfShape
<1>2. /\ \A i, j \in 1 .. n : s[i] = s[j] => i = j
      /\ \A i \in 1 .. a - 1 : s[i] = c[i].root
      /\ \A i \in b + 1 .. m : s[n - m + i] = c[i].root
      /\ Holds(s, a, z, olds, R)
  BY ShapeIs
<1>3. /\ Len(t) = n + 1 /\ DOMAIN t = 1 .. n + 1
      /\ \A i \in 1 .. n + 1 : t[i] = IF i < a THEN s[i] ELSE IF i = a THEN o ELSE s[i - 1]
  <2>1. Len(t) = n + 1
    BY DEF Inserts
  <2>. QED  BY <2>1 DEF Inserts
<1>4. d \in Seq(Nodes) /\ Len(d) = m /\ \A i \in 1 .. m : i # a => d[i].root = c[i].root
  BY DEF NewRoot
<1>5. \A i \in 1 .. n : s[i] # o
  OBVIOUS
<1> HIDE DEF n, m
<1>6. z \in Int /\ m - b <= n /\ a - 1 <= z /\ z <= n /\ a <= n + 1 /\ a <= b
  BY <1>1
<1> HIDE DEF z
<1>7. \A i \in 1 .. a - 1 : i \in 1 .. n /\ t[i] = s[i]
  BY <1>1, <1>3, <1>6
<1>8. t[a] = o
  BY <1>1, <1>3, <1>6
<1>9. \A i \in a + 1 .. n + 1 : i - 1 \in 1 .. n /\ t[i] = s[i - 1]
  BY <1>1, <1>3, <1>6
<1>10. Differ(t)
  <2> SUFFICES ASSUME NEW i \in 1 .. n + 1, NEW j \in 1 .. n + 1, t[i] = t[j], i < j
               PROVE  FALSE
    BY <1>1, <1>3 DEF Differ
  <2>1. CASE i < a /\ j < a
    BY <1>1, <1>2, <1>7, <2>1
  <2>2. CASE i < a /\ j = a
    <3>1. i \in 1 .. a - 1
      BY <1>1, <2>2
    <3>2. t[i] = s[i] /\ i \in 1 .. n /\ t[j] = o
      BY <1>7, <1>8, <2>2, <3>1
    <3>. QED  BY <1>5, <3>2
  <2>3. CASE i < a /\ j > a
    <3>1. t[i] = s[i] /\ t[j] = s[j - 1] /\ i \in 1 .. n /\ j - 1 \in 1 .. n /\ i # j - 1
      BY <1>1, <1>7, <1>9, <2>3
    <3>. QED  BY <1>2, <3>1
  <2>4. CASE i = a /\ j > a
    <3>1. j \in a + 1 .. n + 1
      BY <1>1, <2>4
    <3>2. t[j] = s[j - 1] /\ j - 1 \in 1 .. n /\ t[i] = o
      BY <1>8, <1>9, <2>4, <3>1
    <3>. QED  BY <1>5, <3>2
  <2>5. CASE i > a
    <3>1. /\ t[i] = s[i - 1] /\ t[j] = s[j - 1]
          /\ i - 1 \in 1 .. n /\ j - 1 \in 1 .. n /\ i - 1 # j - 1
      BY <1>1, <1>9, <2>5
    <3>. QED  BY <1>2, <3>1
  <2>6. (i < a /\ j < a) \/ (i < a /\ j = a) \/ (i < a /\ j > a) \/ (i = a /\ j > a) \/ i > a
    BY <1>1
  <2>. QED  BY <2>1, <2>2, <2>3, <2>4, <2>5, <2>6, Zenon
<1>11. Holds(t, a + 1, z + 1, olds, R)
  <2>1. \A i \in a + 1 .. z + 1 : i - 1 \in a .. z /\ t[i] = s[i - 1]
    BY <1>1, <1>6, <1>9
  <2>2. \A i \in a .. z : i + 1 \in a + 1 .. z + 1 /\ t[i + 1] = s[i]
    <3>1. \A i \in a .. z : i + 1 \in a + 1 .. z + 1 /\ (i + 1) - 1 = i
      BY <1>1, <1>6
    <3>. QED  BY <2>1, <3>1
  <2>3. ASSUME NEW i \in a + 1 .. z + 1, NEW j \in a + 1 .. z + 1, NEW l \in R, NEW q \in R,
               t[i] = olds[l].root, t[j] = olds[q].root, i < j
        PROVE  l < q
    <3>1. i - 1 < j - 1
      BY <1>1, <1>6, <2>3
    <3>. QED  BY <1>2, <2>1, <2>3, <3>1 DEF Holds
  <2>4. ASSUME NEW i \in a + 1 .. z + 1 PROVE \E l \in R : t[i] = olds[l].root
    BY <1>2, <2>1 DEF Holds
  <2>5. ASSUME NEW l \in R PROVE \E i \in a + 1 .. z + 1 : t[i] = olds[l].root
    <3>1. PICK i \in a .. z : s[i] = olds[l].root
      BY <1>2 DEF Holds
    <3>. QED  BY <2>2, <3>1
  <2>. QED  BY <2>3, <2>4, <2>5 DEF Holds
<1>12. ASSUME NEW i \in 1 .. (a + 1) - 1 PROVE t[i] = d[i].root
  <2>1. i \in 1 .. m /\ (i = a \/ (i # a /\ i \in 1 .. a - 1))
    BY <1>1, <1>6
  <2>. QED  BY <1>2, <1>4, <1>7, <1>8, <2>1 DEF NewRoot
<1>13. ASSUME NEW i \in b + 1 .. m PROVE t[(n + 1) - m + i] = d[i].root
  <2> DEFINE x == (n + 1) - m + i
             y == n - m + i
  <2>1. x \in a + 1 .. n + 1 /\ x - 1 = y
    BY <1>1, <1>6
  <2>2. i \in 1 .. m /\ i # a
    BY <1>1, <1>6
  <2>3. s[y] = c[i].root /\ d[i].root = c[i].root
    BY <1>2, <1>4, <2>2
  <2> HIDE DEF x, y
  <2>4. t[x] = s[y]
    BY <1>9, <2>1
  <2>. QED  BY <2>3, <2>4 DEF x
<1>14. a + 1 >= 1 /\ b <= m /\ a + 1 <= b + 1 /\ (a + 1) - 1 + (m - b) <= n + 1
  BY <1>1, <1>6
<1>15. Ends(t, d, a + 1, b)
  BY <1>3, <1>4, <1>12, <1>13, <1>14 DEF Ends
<1>16. z + 1 = Len(t) - (Len(d) - b)
  BY <1>1, <1>3, <1>4 DEF z
<1>17. Holds(t, a + 1, Len(t) - (Len(d) - b), olds, R)
  BY <1>11, <1>16
<1>. QED  BY <1>1, <1>4, <1>10, <1>15, <1>17 DEF Shape

(* The root of an old child that is not synced is removed. *)
LEMMA RemoveKeepsShape ==
    ASSUME NEW s, NEW c, NEW olds, NEW a, NEW b, NEW R, Shape(s, c, a, b, olds, R),
           NEW k \in R, a <= Len(s) - (Len(c) - b), s[a] = olds[k].root,
           NEW t \in Seq(Nat \ {0}), Removes(s, a, t)
    PROVE  Shape(t, c, a, b, olds, R \ {k})
<1> DEFINE n == Len(s)
           m == Len(c)
           z == n - (m - b)
<1>1. /\ n \in Nat /\ m \in Nat /\ a \in Int /\ b \in Int
      /\ 1 <= a /\ b <= m /\ a - 1 + (m - b) <= n /\ a <= b + 1
  BY PlacesOfShape
<1>2. /\ \A i, j \in 1 .. n : s[i] = s[j] => i = j
      /\ \A i \in 1 .. a - 1 : s[i] = c[i].root
      /\ \A i \in b + 1 .. m : s[n - m + i] = c[i].root
      /\ Holds(s, a, z, olds, R)
      /\ \A l \in R : olds[l].root = olds[k].root => l = k
  BY ShapeIs
<1>3. /\ Len(t) = n - 1 /\ DOMAIN t = 1 .. n - 1
      /\ \A i \in 1 .. n - 1 : t[i] = IF i < a THEN s[i] ELSE s[i + 1]
  <2>1. Len(t) = n - 1
    BY DEF Removes
  <2>. QED  BY <2>1 DEF Removes
<1>4. c \in Seq(Nodes) /\ olds \in Seq(Nodes) /\ R \subseteq DOMAIN olds /\ RootsDiffer(olds)
  BY DEF Shape
<1>5. a <= z
  OBVIOUS
<1> HIDE DEF n, m
<1>6. z \in Int /\ m - b <= n /\ z <= n
  BY <1>1
<1> HIDE DEF z
<1>7. \A i \in 1 .. a - 1 : i \in 1 .. n /\ t[i] = s[i]
  BY <1>1, <1>3, <1>5, <1>6
<1>8. \A i \in a .. n - 1 : i + 1 \in 1 .. n /\ t[i] = s[i + 1]
  BY <1>1, <1>3, <1>5, <1>6
<1>9. Differ(t)
  <2> SUFFICES ASSUME NEW i \in 1 .. n - 1, NEW j \in 1 .. n - 1, t[i] = t[j], i < j
               PROVE  FALSE
    BY <1>1, <1>3 DEF Differ
  <2> DEFINE from(x) == IF x < a THEN x ELSE x + 1
  <2>1. t[i] = s[from(i)] /\ t[j] = s[from(j)]
    BY <1>3
  <2>2. from(i) \in 1 .. n /\ from(j) \in 1 .. n /\ from(i) # from(j)
    BY <1>1
  <2>. QED  BY <1>2, <2>1, <2>2
<1>10. Holds(t, a, z - 1, olds, R \ {k})
  <2>1. \A i \in a .. z - 1 : i + 1 \in a .. z /\ i + 1 # a /\ t[i] = s[i + 1]
    BY <1>1, <1>5, <1>6, <1>8
  <2>2. \A i \in a .. z : i # a => i - 1 \in a .. z - 1 /\ t[i - 1] = s[i]
    <3>1. \A i \in a .. z : i # a => i - 1 \in a .. z - 1 /\ (i - 1) + 1 = i
      BY <1>1, <1>5, <1>6
    <3>. QED  BY <2>1, <3>1
  <2>3. \A i \in a .. z : i \in 1 .. n
    BY <1>1, <1>5, <1>6
  <2>4. ASSUME NEW i \in a .. z - 1 PROVE \E l \in R \ {k} : t[i] = olds[l].root
    <3>1. a \in 1 .. n /\ s[i + 1] # s[a]
      BY <1>1, <1>2, <1>5, <1>6, <2>1, <2>3
    <3>. QED  BY <1>2, <2>1, <3>1 DEF Holds
  <2>5. ASSUME NEW l \in R \ {k} PROVE \E i \in a .. z - 1 : t[i] = olds[l].root
    <3>1. PICK i \in a .. z : s[i] = olds[l].root
      BY <1>2 DEF Holds
    <3>2. i # a
      BY <1>2, <3>1
    <3>. QED  BY <2>2, <3>1, <3>2
  <2>6. ASSUME NEW i \in a .. z - 1, NEW j \in a .. z - 1, NEW l \in R \ {k}, NEW q \in R \ {k},
               t[i] = olds[l].root, t[j] = olds[q].root, i < j
        PROVE  l < q
    <3>1. /\ i + 1 \in a .. z /\ s[i + 1] = olds[l].root
          /\ j + 1 \in a .. z /\ s[j + 1] = olds[q].root
      BY <2>1, <2>6
    <3>2. i + 1 < j + 1
      BY <1>1, <1>6, <2>6
    <3>. QED  BY <1>2, <3>1, <3>2 DEF Holds
  <2>. QED  BY <2>4, <2>5, <2>6 DEF Holds
<1>11. \A i \in 1 .. a - 1 : t[i] = c[i].root
  BY <1>2, <1>7
<1>12. ASSUME NEW i \in b + 1 .. m PROVE t[(n - 1) - m + i] = c[i].root
  <2>1. (n - 1) - m + i \in a .. n - 1 /\ (n - 1) - m + i + 1 = n - m + i
    BY <1>1, <1>5, <1>6 DEF z
  <2>2. t[(n - 1) - m + i] = s[n - m + i]
    BY <1>8, <2>1
  <2>. QED  BY <1>2, <2>2
<1>13. a - 1 + (m - b) <= n - 1 /\ a >= 1
  BY <1>1, <1>5 DEF z
<1>14. Ends(t, c, a, b)
  BY <1>1, <1>3, <1>11, <1>12, <1>13 DEF Ends, m
<1>15. z - 1 = Len(t) - (m - b)
  BY <1>1, <1>3 DEF z
<1>16. Holds(t, a, Len(t) - (Len(c) - b), olds, R \ {k})
  BY <1>10, <1>15 DEF m
<1>. QED  BY <1>1, <1>4, <1>9, <1>14, <1>16 DEF Shape

(* When no old child is left the list is that of the children. *)
LEMMA EndedShape ==
    ASSUME NEW s, NEW c, NEW olds, NEW a, NEW b, a = b + 1, Shape(s, c, a, b, olds, {})
    PROVE  Len(s) = Len(c) /\ \A i \in 1 .. Len(c) : s[i] = c[i].root
<1> DEFINE n == Len(s)
           m == Len(c)
           z == n - (m - b)
<1>1. /\ n \in Nat /\ m \in Nat /\ a \in Int /\ b \in Int
      /\ 1 <= a /\ b <= m /\ a - 1 + (m - b) <= n /\ a <= b + 1
  BY PlacesOfShape
<1>2. /\ \A i \in 1 .. a - 1 : s[i] = c[i].root
      /\ \A i \in b + 1 .. m : s[n - m + i] = c[i].root
      /\ Holds(s, a, z, olds, {})
  BY ShapeIs
<1> HIDE DEF n, m
<1>3. z \in Int
  BY <1>1
<1>4. ~(a <= z)
  <2> HIDE DEF z
  <2>1. \A i \in a .. z : FALSE
    BY <1>2 DEF Holds
  <2>. QED  BY <1>1, <1>3, <2>1
<1>5. n = m
  BY <1>1, <1>4
<1>6. ASSUME NEW i \in 1 .. m PROVE s[i] = c[i].root
  <2>1. i \in 1 .. a - 1 \/ (i \in b + 1 .. m /\ n - m + i = i)
    BY <1>1, <1>5
  <2>. QED  BY <1>2, <2>1
<1>. QED  BY <1>5, <1>6 DEF n, m

(* A component replaces its root by itself. *)
LEMMA ReplaceKeepsShape ==
    ASSUME NEW s, NEW c, NEW olds, NEW a, NEW b, a = b + 1, Shape(s, c, a, b, olds, {}),
           NEW p \in 1 .. Len(s),
           NEW o, o = s[p] \/ \A i \in 1 .. Len(s) : s[i] # o,
           NEW t, Takes(s, p, p, o, t), NEW d, NewRoot(c, p, o, d)
    PROVE  Shape(t, d, a, b, olds, {})
<1> DEFINE n == Len(s)
<1>1. /\ n \in Nat /\ a \in Int /\ b \in Int /\ 1 <= a /\ b <= n /\ p \in 1 .. n /\ p \in Int
      /\ Len(c) = n /\ \A i \in 1 .. n : s[i] = c[i].root
  <2>1. Len(c) = Len(s) /\ \A i \in 1 .. Len(c) : s[i] = c[i].root
    BY EndedShape, Zenon
  <2>2. Len(s) \in Nat /\ a \in Int /\ b \in Int /\ 1 <= a /\ b <= Len(c)
    BY PlacesOfShape
  <2>. QED  BY <2>1, <2>2
<1>2. \A i, j \in 1 .. n : s[i] = s[j] => i = j
  BY ShapeIs
<1>3. /\ t \in Seq(Nat \ {0}) /\ Len(t) = n /\ DOMAIN t = 1 .. n
      /\ \A i \in 1 .. n : t[i] = IF i < p \/ i > p THEN s[i] ELSE IF i = p THEN o ELSE s[i - 1]
  <2>1. t \in Seq(Nat \ {0}) /\ Len(t) = n
    BY DEF Takes
  <2>. QED  BY <2>1 DEF Takes
<1>4. /\ d \in Seq(Nodes) /\ Len(d) = n /\ d[p].root = o
      /\ \A i \in 1 .. n : i # p => d[i].root = c[i].root
  BY <1>1 DEF NewRoot
<1>5. o = s[p] \/ \A i \in 1 .. n : s[i] # o
  OBVIOUS
<1>6. olds \in Seq(Nodes) /\ RootsDiffer(olds)
  BY DEF Shape
<1> HIDE DEF n
<1>7. \A i \in 1 .. n : t[i] = d[i].root
  BY <1>1, <1>3, <1>4
<1>8. Differ(t)
  <2>1. Taking(s, n, p, p, o, t) /\ DifferUpTo(s, n) /\ NewOrAt(s, n, p, o)
    BY <1>1, <1>2, <1>3, <1>5 DEF Taking, DifferUpTo, NewOrAt
  <2>2. DifferUpTo(t, n)
    BY <2>1, TakeDiffers, Zenon
  <2>. QED  BY <1>3, <2>2 DEF Differ, DifferUpTo
<1>9. /\ \A i \in 1 .. a - 1 : i \in 1 .. n
      /\ \A i \in b + 1 .. n : i \in 1 .. n /\ n - n + i = i
      /\ a - 1 + (n - b) <= n /\ n - (n - b) = b
      /\ a .. b = {}
  BY <1>1
<1>10. Ends(t, d, a, b)
  BY <1>1, <1>3, <1>4, <1>7, <1>9 DEF Ends
<1>11. Holds(t, a, Len(t) - (Len(d) - b), olds, {})
  BY <1>3, <1>4, <1>9 DEF Holds
<1>. QED  BY <1>1, <1>3, <1>4, <1>6, <1>8, <1>10, <1>11 DEF Shape

(* A sync begins: the roots in the list are those of the old children. *)
LEMMA NewShape ==
    ASSUME NEW s, NEW c, NEW olds, NEW a, NEW b, a = b + 1, Shape(s, c, a, b, olds, {}),
           NEW d \in Seq(Nodes)
    PROVE  Shape(s, d, 1, Len(d), c, 1 .. Len(c))
<1> DEFINE n == Len(s)
<1>1. n \in Nat /\ Len(c) = n /\ \A i \in 1 .. n : s[i] = c[i].root
  <2>1. Len(c) = Len(s) /\ \A i \in 1 .. Len(c) : s[i] = c[i].root
    BY EndedShape, Zenon
  <2>. QED  BY PlacesOfShape, <2>1
<1>2. \A i, j \in 1 .. n : s[i] = s[j] => i = j
  BY ShapeIs
<1>3. s \in Seq(Nat \ {0}) /\ c \in Seq(Nodes) /\ Differ(s) /\ DOMAIN c = 1 .. n
  BY <1>1 DEF Shape
<1> HIDE DEF n
<1>4. Len(d) \in Nat /\ Len(d) - Len(d) = 0
  OBVIOUS
<1>5. RootsDiffer(c)
  BY <1>1, <1>2, <1>3 DEF RootsDiffer
<1>6. Ends(s, d, 1, Len(d))
  BY <1>1, <1>4 DEF Ends, n
<1>7. Holds(s, 1, n, c, 1 .. n)
  <2>1. ASSUME NEW i \in 1 .. n, NEW j \in 1 .. n, NEW k \in 1 .. n, NEW l \in 1 .. n,
               s[i] = c[k].root, s[j] = c[l].root, i < j
        PROVE  k < l
    <3>1. s[i] = s[k] /\ s[j] = s[l]
      BY <1>1, <2>1
    <3>. QED  BY <1>2, <2>1, <3>1
  <2>. QED  BY <1>1, <2>1 DEF Holds
<1>8. Holds(s, 1, Len(s) - (Len(d) - Len(d)), c, 1 .. n)
  <2>1. Len(s) - (Len(d) - Len(d)) = n
    BY <1>1, <1>4 DEF n
  <2>. QED  BY <1>7, <2>1
<1>. QED  BY <1>1, <1>3, <1>4, <1>5, <1>6, <1>8 DEF Shape

-----------------------------------------------------------------------------
(* What becomes of the slots. *)

(* o is not in the list, and no slot. *)
IsNew(o, s, c) == /\ \A i \in 1 .. Len(s) : s[i] # o
                  /\ \A i \in 1 .. Len(c) : c[i].slot # o

(* d is c with the root o for the child at a: the one in front of it learns it. *)
SyncsSlots(c, a, o, next, d) ==
    /\ d[a].slot = next
    /\ a - 1 \in 1 .. Len(c) => d[a - 1].slot = o
    /\ \A i \in 1 .. Len(c) : i # a /\ i # a - 1 => d[i].slot = c[i].slot

LEMMA SlotGoesAlong ==
    ASSUME NEW s, NEW t, NEW slot, NEW p, NEW q, SlotIs(s, slot, p),
           p > Len(s) => q > Len(t),
           \A j \in 1 .. Len(t) : t[j] = slot =>
               \E i \in 1 .. Len(s) : s[i] = slot /\ (i = p => j = q)
    PROVE  SlotIs(t, slot, q)
BY DEF SlotIs

LEMMA SlotIsTheNext ==
    ASSUME NEW s, NEW p \in Int, NEW n \in Nat, Len(s) = n, DifferUpTo(s, n), 1 <= p,
           Null \notin {s[i] : i \in 1 .. n}
    PROVE  SlotIs(s, At(s, p), p)
<1>1. CASE p > n
  BY <1>1 DEF SlotIs, At
<1>2. CASE p <= n
  <2>1. p \in 1 .. n /\ At(s, p) = s[p] /\ s[p] # Null
    BY <1>2 DEF At
  <2>. QED  BY <2>1 DEF SlotIs, DifferUpTo
<1>. QED  BY <1>1, <1>2

LEMMA SlotsOfShape ==
    ASSUME NEW s, NEW c, NEW olds, NEW a, NEW b, NEW R, Shape(s, c, a, b, olds, R),
           NEW p \in Int, 1 <= p
    PROVE  SlotIs(s, At(s, p), p)
<1>1. Len(s) \in Nat /\ DifferUpTo(s, Len(s))
  BY PlacesOfShape, ShapeIs DEF DifferUpTo
<1>2. s \in Seq(Nat \ {0})
  BY DEF Shape
<1>3. Null \notin {s[i] : i \in 1 .. Len(s)}
  BY <1>1, <1>2 DEF Null
<1>. QED  BY <1>1, <1>3, SlotIsTheNext

LEMMA TakeKeepsSlots ==
    ASSUME NEW s, NEW c, NEW olds, NEW a, NEW b, NEW R, Shape(s, c, a, b, olds, R), a <= b,
           NEW p \in a .. Len(s) - (Len(c) - b), NEW o, o = s[p] \/ IsNew(o, s, c),
           NEW t, Takes(s, a, p, o, t), NEW d, Len(d) = Len(c),
           SyncsSlots(c, a, o, At(t, a + 1), d),
           NEW Q, Shape(t, d, a + 1, b, olds, Q),
           Slots(s, c, a, b)
    PROVE  Slots(t, d, a + 1, b)
<1> DEFINE n == Len(s)
           m == Len(c)
<1>1. /\ n \in Nat /\ m \in Nat /\ a \in Int /\ b \in Int /\ p \in Int
      /\ 1 <= a /\ a <= b /\ b <= m /\ a - 1 + (m - b) <= n
      /\ a <= p /\ p <= n - (m - b) /\ p <= n
  <2>1. /\ n \in Nat /\ m \in Nat /\ a \in Int /\ b \in Int
        /\ 1 <= a /\ b <= m /\ a - 1 + (m - b) <= n
    BY PlacesOfShape
  <2>. QED  BY <2>1
<1>2. /\ Len(t) = n
      /\ \A i \in 1 .. n : t[i] = IF i < a \/ i > p THEN s[i] ELSE IF i = a THEN o ELSE s[i - 1]
  BY DEF Takes
<1>3. /\ d[a].slot = At(t, a + 1)
      /\ a - 1 \in 1 .. m => d[a - 1].slot = o
      /\ \A i \in 1 .. m : i # a /\ i # a - 1 => d[i].slot = c[i].slot
  BY DEF SyncsSlots
<1>4. /\ \A i \in 1 .. a - 1 : SlotIs(s, c[i].slot, i + 1)
      /\ \A i \in b + 1 .. m : SlotIs(s, c[i].slot, n - m + i + 1)
  BY DEF Slots
<1>5. Len(d) = m
  OBVIOUS
<1>6. \A i \in 1 .. m : o = c[i].slot => o = s[p]
  BY DEF IsNew
<1> HIDE DEF n, m
<1>7. ASSUME NEW i \in 1 .. m, NEW q \in 1 .. n + 1, q < a \/ q > p, SlotIs(s, c[i].slot, q)
      PROVE  SlotIs(t, c[i].slot, q)
  <2>1. ASSUME NEW j \in 1 .. n, t[j] = c[i].slot
        PROVE  \E k \in 1 .. n : s[k] = c[i].slot /\ (k = q => j = q)
    <3>1. j < a \/ j > p \/ j = a \/ (a < j /\ j <= p)
      BY <1>1
    <3>2. CASE j < a \/ j > p
      BY <1>2, <2>1, <3>2
    <3>3. CASE j = a
      <4>1. t[j] = o
        BY <1>1, <1>2, <3>3
      <4>2. p \in 1 .. n /\ p # q
        BY <1>1, <1>7
      <4>3. s[p] = c[i].slot
        BY <1>6, <2>1, <4>1
      <4>. QED  BY <4>2, <4>3
    <3>4. CASE a < j /\ j <= p
      <4>1. t[j] = s[j - 1]
        BY <1>1, <1>2, <3>4
      <4>2. j - 1 \in 1 .. n /\ j - 1 # q
        BY <1>1, <1>7, <3>4
      <4>. QED  BY <2>1, <4>1, <4>2
    <3>. QED  BY <3>1, <3>2, <3>3, <3>4
  <2>2. \A j \in 1 .. Len(t) : t[j] = c[i].slot =>
            \E k \in 1 .. Len(s) : s[k] = c[i].slot /\ (k = q => j = q)
    BY <1>2, <2>1 DEF n
  <2>3. q > Len(s) => q > Len(t)
    BY <1>2 DEF n
  <2>. QED  BY <1>7, <2>2, <2>3, SlotGoesAlong, Zenon
<1>8. ASSUME NEW i \in 1 .. (a + 1) - 1 PROVE SlotIs(t, d[i].slot, i + 1)
  <2>1. i = a \/ i = a - 1 \/ i < a - 1
    BY <1>1
  <2>2. CASE i = a
    BY <1>1, <1>3, <2>2, SlotsOfShape
  <2>3. CASE i = a - 1
    <3>1. a - 1 \in 1 .. m /\ a \in 1 .. n /\ i + 1 = a
      BY <1>1, <2>3
    <3>2. d[i].slot = o /\ t[a] = o
      BY <1>1, <1>2, <1>3, <2>3, <3>1
    <3>3. At(t, a) = o
      BY <1>1, <1>2, <3>1, <3>2 DEF At
    <3>. QED  BY <1>1, <3>1, <3>2, <3>3, SlotsOfShape
  <2>4. CASE i < a - 1
    <3>1. /\ i \in 1 .. a - 1 /\ i \in 1 .. m /\ i # a /\ i # a - 1
          /\ i + 1 \in 1 .. n + 1 /\ i + 1 < a
      BY <1>1, <2>4
    <3>. QED  BY <1>3, <1>4, <1>7, <3>1
  <2>. QED  BY <2>1, <2>2, <2>3, <2>4
<1>9. ASSUME NEW i \in b + 1 .. m PROVE SlotIs(t, d[i].slot, n - m + i + 1)
  <2>1. i \in 1 .. m /\ i # a /\ i # a - 1 /\ n - m + i + 1 \in 1 .. n + 1 /\ n - m + i + 1 > p
    BY <1>1
  <2>. QED  BY <1>3, <1>4, <1>7, <2>1
<1>. QED  BY <1>2, <1>5, <1>8, <1>9 DEF Slots

LEMMA TakeAtTheEndKeepsSlots ==
    ASSUME NEW s, NEW c, NEW olds, NEW b, NEW R, Shape(s, c, 1, b, olds, R), 1 <= b,
           NEW p, p = Len(s) - (Len(c) - b), 1 <= p, NEW o, o = s[p] \/ IsNew(o, s, c),
           NEW t, Takes(s, p, p, o, t), NEW d, Len(d) = Len(c),
           SyncsSlots(c, b, o, At(t, p + 1), d),
           NEW Q, Shape(t, d, 1, b - 1, olds, Q),
           Slots(s, c, 1, b)
    PROVE  Slots(t, d, 1, b - 1)
<1> DEFINE n == Len(s)
           m == Len(c)
<1>1. /\ n \in Nat /\ m \in Nat /\ b \in Int /\ p \in 1 .. n /\ p = n - (m - b) /\ 1 <= b /\ b <= m
  <2>1. n \in Nat /\ m \in Nat /\ b \in Int /\ b <= m
    BY PlacesOfShape
  <2>. QED  BY <2>1
<1>2. /\ Len(t) = n
      /\ \A i \in 1 .. n : t[i] = IF i < p \/ i > p THEN s[i] ELSE IF i = p THEN o ELSE s[i - 1]
  BY DEF Takes
<1>3. /\ d[b].slot = At(t, p + 1)
      /\ \A i \in 1 .. m : i # b /\ i # b - 1 => d[i].slot = c[i].slot
  BY DEF SyncsSlots
<1>4. \A i \in b + 1 .. m : SlotIs(s, c[i].slot, n - m + i + 1)
  BY DEF Slots
<1>5. Len(d) = m
  OBVIOUS
<1>6. \A i \in 1 .. m : o = c[i].slot => o = s[p]
  BY DEF IsNew
<1> HIDE DEF n, m
<1>7. ASSUME NEW i \in (b - 1) + 1 .. m PROVE SlotIs(t, d[i].slot, n - m + i + 1)
  <2>1. i = b \/ i > b
    BY <1>1
  <2>2. CASE i = b
    <3>1. n - m + i + 1 = p + 1 /\ p + 1 \in Int /\ 1 <= p + 1
      BY <1>1, <2>2
    <3>2. SlotIs(t, At(t, p + 1), p + 1)
      BY <3>1, SlotsOfShape, Zenon
    <3>. QED  BY <1>3, <2>2, <3>1, <3>2
  <2>3. CASE i > b
    <3> DEFINE q == n - m + i + 1
    <3>1. i \in b + 1 .. m /\ i \in 1 .. m /\ i # b /\ i # b - 1 /\ q # p /\ q \in Int
      BY <1>1, <2>3
    <3>2. SlotIs(s, c[i].slot, q)
      BY <1>4, <3>1
    <3>7. d[i].slot = c[i].slot
      BY <1>3, <3>1
    <3> HIDE DEF q
    <3>3. ASSUME NEW j \in 1 .. n, t[j] = c[i].slot
          PROVE  \E k \in 1 .. n : s[k] = c[i].slot /\ (k = q => j = q)
      <4>1. CASE j # p
        <5>1. j < p \/ j > p
          BY <1>1, <4>1
        <5>2. t[j] = s[j]
          BY <1>2, <5>1
        <5>. QED  BY <3>3, <5>2
      <4>2. CASE j = p
        <5>1. t[j] = o
          BY <1>1, <1>2, <4>2
        <5>. QED  BY <1>1, <1>6, <3>1, <3>3, <5>1
      <4>. QED  BY <4>1, <4>2
    <3>4. \A j \in 1 .. Len(t) : t[j] = c[i].slot =>
              \E k \in 1 .. Len(s) : s[k] = c[i].slot /\ (k = q => j = q)
      BY <1>2, <3>3 DEF n
    <3>5. q > Len(s) => q > Len(t)
      BY <1>2 DEF n
    <3>6. SlotIs(t, c[i].slot, q)
      BY <3>2, <3>4, <3>5, SlotGoesAlong, Zenon
    <3>. QED  BY <3>6, <3>7 DEF q
  <2>. QED  BY <2>1, <2>2, <2>3
<1>8. 1 .. 1 - 1 = {}
  OBVIOUS
<1>. QED  BY <1>2, <1>5, <1>7, <1>8 DEF Slots

LEMMA InsertKeepsSlots ==
    ASSUME NEW s, NEW c, NEW olds, NEW a, NEW b, NEW R, Shape(s, c, a, b, olds, R), a <= b,
           NEW o, IsNew(o, s, c),
           NEW t, Inserts(s, a, o, t), NEW d, Len(d) = Len(c),
           SyncsSlots(c, a, o, At(t, a + 1), d),
           NEW Q, Shape(t, d, a + 1, b, olds, Q),
           Slots(s, c, a, b)
    PROVE  Slots(t, d, a + 1, b)
<1> DEFINE n == Len(s)
           m == Len(c)
<1>1. /\ n \in Nat /\ m \in Nat /\ a \in Int /\ b \in Int
      /\ 1 <= a /\ a <= b /\ b <= m /\ a - 1 + (m - b) <= n
  <2>1. /\ n \in Nat /\ m \in Nat /\ a \in Int /\ b \in Int
        /\ 1 <= a /\ b <= m /\ a - 1 + (m - b) <= n
    BY PlacesOfShape
  <2>. QED  BY <2>1
<1>2. /\ Len(t) = n + 1
      /\ \A i \in 1 .. n + 1 : t[i] = IF i < a THEN s[i] ELSE IF i = a THEN o ELSE s[i - 1]
  BY DEF Inserts
<1>3. /\ d[a].slot = At(t, a + 1)
      /\ a - 1 \in 1 .. m => d[a - 1].slot = o
      /\ \A i \in 1 .. m : i # a /\ i # a - 1 => d[i].slot = c[i].slot
  BY DEF SyncsSlots
<1>4. /\ \A i \in 1 .. a - 1 : SlotIs(s, c[i].slot, i + 1)
      /\ \A i \in b + 1 .. m : SlotIs(s, c[i].slot, n - m + i + 1)
  BY DEF Slots
<1>5. Len(d) = m
  OBVIOUS
<1>6. \A i \in 1 .. m : o # c[i].slot
  BY DEF IsNew
<1> HIDE DEF n, m
<1>7. ASSUME NEW i \in 1 .. m, NEW q \in Int, NEW r \in Int, SlotIs(s, c[i].slot, q),
             (q < a /\ r = q) \/ (q > a /\ r = q + 1)
      PROVE  SlotIs(t, c[i].slot, r)
  <2>1. ASSUME NEW j \in 1 .. n + 1, t[j] = c[i].slot
        PROVE  \E k \in 1 .. n : s[k] = c[i].slot /\ (k = q => j = r)
    <3>1. j < a \/ j = a \/ j > a
      BY <1>1
    <3>2. CASE j < a
      <4>1. t[j] = s[j] /\ j \in 1 .. n /\ (j = q => j = r)
        BY <1>1, <1>2, <1>7, <3>2
      <4>. QED  BY <2>1, <4>1
    <3>3. CASE j = a
      BY <1>1, <1>2, <1>6, <2>1, <3>3
    <3>4. CASE j > a
      <4>1. t[j] = s[j - 1]
        BY <1>1, <1>2, <3>4
      <4>2. j - 1 \in 1 .. n /\ (j - 1 = q => j = r)
        BY <1>1, <1>7, <3>4
      <4>. QED  BY <2>1, <4>1, <4>2
    <3>. QED  BY <3>1, <3>2, <3>3, <3>4
  <2>2. \A j \in 1 .. Len(t) : t[j] = c[i].slot =>
            \E k \in 1 .. Len(s) : s[k] = c[i].slot /\ (k = q => j = r)
    BY <1>2, <2>1 DEF n
  <2>3. q > n => r > n + 1
    BY <1>1, <1>7
  <2>4. q > Len(s) => r > Len(t)
    BY <1>2, <2>3 DEF n
  <2>. QED  BY <1>7, <2>2, <2>4, SlotGoesAlong, Zenon
<1>8. ASSUME NEW i \in 1 .. (a + 1) - 1 PROVE SlotIs(t, d[i].slot, i + 1)
  <2>1. i = a \/ i = a - 1 \/ i < a - 1
    BY <1>1
  <2>2. CASE i = a
    BY <1>1, <1>3, <2>2, SlotsOfShape
  <2>3. CASE i = a - 1
    <3>1. a - 1 \in 1 .. m /\ a \in 1 .. n + 1 /\ i + 1 = a
      BY <1>1, <2>3
    <3>2. d[i].slot = o /\ t[a] = o
      BY <1>1, <1>2, <1>3, <2>3, <3>1
    <3>3. At(t, a) = o
      BY <1>1, <1>2, <3>1, <3>2 DEF At
    <3>. QED  BY <1>1, <3>1, <3>2, <3>3, SlotsOfShape
  <2>4. CASE i < a - 1
    <3>1. i \in 1 .. a - 1 /\ i \in 1 .. m /\ i # a /\ i # a - 1 /\ i + 1 \in Int /\ i + 1 < a
      BY <1>1, <2>4
    <3>. QED  BY <1>3, <1>4, <1>7, <3>1
  <2>. QED  BY <2>1, <2>2, <2>3, <2>4
<1>9. ASSUME NEW i \in b + 1 .. m PROVE SlotIs(t, d[i].slot, (n + 1) - m + i + 1)
  <2> DEFINE q == n - m + i + 1
             r == (n + 1) - m + i + 1
  <2>1. /\ i \in 1 .. m /\ i # a /\ i # a - 1
        /\ q \in Int /\ r \in Int /\ q > a /\ r = q + 1
    BY <1>1
  <2>2. SlotIs(s, c[i].slot, q) /\ d[i].slot = c[i].slot
    BY <1>3, <1>4, <2>1
  <2> HIDE DEF q, r
  <2>3. SlotIs(t, c[i].slot, r)
    BY <1>7, <2>1, <2>2
  <2>. QED  BY <2>2, <2>3 DEF r
<1>. QED  BY <1>2, <1>5, <1>8, <1>9 DEF Slots

LEMMA RemoveKeepsSlots ==
    ASSUME NEW s, NEW c, NEW olds, NEW a, NEW b, NEW R, Shape(s, c, a, b, olds, R),
           a <= Len(s) - (Len(c) - b),
           NEW t, Removes(s, a, t), Slots(s, c, a, b)
    PROVE  Slots(t, c, a, b)
<1> DEFINE n == Len(s)
           m == Len(c)
<1>1. /\ n \in Nat /\ m \in Nat /\ a \in Int /\ b \in Int
      /\ 1 <= a /\ a <= b + 1 /\ b <= m /\ a <= n - (m - b)
  <2>1. /\ n \in Nat /\ m \in Nat /\ a \in Int /\ b \in Int
        /\ 1 <= a /\ b <= m /\ a <= b + 1
    BY PlacesOfShape
  <2>. QED  BY <2>1
<1>2. /\ Len(t) = n - 1
      /\ \A i \in 1 .. n - 1 : t[i] = IF i < a THEN s[i] ELSE s[i + 1]
  BY DEF Removes
<1>3. /\ \A i \in 1 .. a - 1 : SlotIs(s, c[i].slot, i + 1)
      /\ \A i \in b + 1 .. m : SlotIs(s, c[i].slot, n - m + i + 1)
  BY DEF Slots
<1> HIDE DEF n, m
<1>4. ASSUME NEW slot, NEW q \in Int, NEW r \in Int, SlotIs(s, slot, q),
             (q <= a /\ r = q) \/ (q > a /\ r = q - 1)
      PROVE  SlotIs(t, slot, r)
  <2>1. ASSUME NEW j \in 1 .. n - 1, t[j] = slot
        PROVE  \E k \in 1 .. n : s[k] = slot /\ (k = q => j = r)
    <3>1. j < a \/ j >= a
      BY <1>1
    <3>2. CASE j < a
      <4>1. t[j] = s[j] /\ j \in 1 .. n /\ (j = q => j = r)
        BY <1>1, <1>2, <1>4, <3>2
      <4>. QED  BY <2>1, <4>1
    <3>3. CASE j >= a
      <4>1. t[j] = s[j + 1]
        BY <1>1, <1>2, <3>3
      <4>2. j + 1 \in 1 .. n /\ (j + 1 = q => j = r)
        BY <1>1, <1>4, <3>3
      <4>. QED  BY <2>1, <4>1, <4>2
    <3>. QED  BY <3>1, <3>2, <3>3
  <2>2. \A j \in 1 .. Len(t) : t[j] = slot =>
            \E k \in 1 .. Len(s) : s[k] = slot /\ (k = q => j = r)
    BY <1>2, <2>1 DEF n
  <2>3. q > n => r > n - 1
    BY <1>1, <1>4
  <2>4. q > Len(s) => r > Len(t)
    BY <1>2, <2>3 DEF n
  <2>. QED  BY <1>4, <2>2, <2>4, SlotGoesAlong, Zenon
<1>5. ASSUME NEW i \in 1 .. a - 1 PROVE SlotIs(t, c[i].slot, i + 1)
  <2>1. i + 1 \in Int /\ i + 1 <= a
    BY <1>1
  <2>. QED  BY <1>3, <1>4, <2>1
<1>6. ASSUME NEW i \in b + 1 .. m PROVE SlotIs(t, c[i].slot, (n - 1) - m + i + 1)
  <2> DEFINE q == n - m + i + 1
             r == (n - 1) - m + i + 1
  <2>1. q \in Int /\ r \in Int /\ q > a /\ r = q - 1
    BY <1>1
  <2>2. SlotIs(s, c[i].slot, q)
    BY <1>3
  <2> HIDE DEF q, r
  <2>3. SlotIs(t, c[i].slot, r)
    BY <1>4, <2>1, <2>2
  <2>. QED  BY <2>3 DEF r
<1>. QED  BY <1>2, <1>5, <1>6 DEF Slots, m

LEMMA ReplaceKeepsSlots ==
    ASSUME NEW s, NEW c, NEW a, NEW b, NEW p \in 1 .. Len(s), NEW o, IsNew(o, s, c),
           Len(s) \in Nat, a \in Int, b \in Int, a = b + 1, b <= Len(c), 1 <= a,
           NEW t, Takes(s, p, p, o, t), NEW d, Len(d) = Len(c),
           \A i \in 1 .. Len(c) : d[i].slot = c[i].slot,
           Len(c) \in Nat, Slots(s, c, a, b)
    PROVE  Slots(t, d, a, b)
<1> DEFINE n == Len(s)
           m == Len(c)
<1>1. /\ n \in Nat /\ m \in Nat /\ a \in Int /\ b \in Int
      /\ 1 <= a /\ a = b + 1 /\ b <= m /\ p \in 1 .. n
  OBVIOUS
<1>2. /\ Len(t) = n
      /\ \A i \in 1 .. n : t[i] = IF i < p \/ i > p THEN s[i] ELSE IF i = p THEN o ELSE s[i - 1]
  BY DEF Takes
<1>3. /\ \A i \in 1 .. a - 1 : SlotIs(s, c[i].slot, i + 1)
      /\ \A i \in b + 1 .. m : SlotIs(s, c[i].slot, n - m + i + 1)
  BY DEF Slots
<1>4. Len(d) = m /\ \A i \in 1 .. m : d[i].slot = c[i].slot /\ o # c[i].slot
  BY DEF IsNew
<1> HIDE DEF n, m
<1>5. ASSUME NEW i \in 1 .. m, NEW q, SlotIs(s, c[i].slot, q)
      PROVE  SlotIs(t, d[i].slot, q)
  <2>1. ASSUME NEW j \in 1 .. n, t[j] = c[i].slot
        PROVE  s[j] = c[i].slot
    <3>1. j < p \/ j > p \/ j = p
      BY <1>1
    <3>2. CASE j < p \/ j > p
      BY <1>2, <2>1, <3>2
    <3>3. CASE j = p
      BY <1>1, <1>2, <1>4, <2>1, <3>3
    <3>. QED  BY <3>1, <3>2, <3>3
  <2>. QED  BY <1>2, <1>4, <1>5, <2>1 DEF SlotIs, n
<1>6. /\ \A i \in 1 .. a - 1 : i \in 1 .. m
      /\ \A i \in b + 1 .. m : i \in 1 .. m
  BY <1>1
<1>. QED  BY <1>2, <1>3, <1>4, <1>5, <1>6 DEF Slots

-----------------------------------------------------------------------------
(* What sync does to a child and to the list. *)

NextTo(s, a, p) == IF a = p THEN At(s, p + 1) ELSE s[a]

LEMMA TakesIsTyped ==
    ASSUME NEW s \in Seq(Nat \ {0}), Differ(s),
           NEW p \in 1 .. Len(s), NEW a \in 1 .. p, NEW o,
           o = s[p] \/ \A i \in 1 .. Len(s) : s[i] # o,
           NEW t, Takes(s, a, p, o, t)
    PROVE  /\ t \in Seq(Nat \ {0}) /\ Differ(t)
           /\ At(t, a + 1) = NextTo(s, a, p)
<1> DEFINE n == Len(s)
<1>1. Len(s) = n /\ n \in Nat /\ DOMAIN s = 1 .. n /\ p \in 1 .. n /\ a \in 1 .. p
  OBVIOUS
<1>2. t \in Seq(Nat \ {0}) /\ Len(t) = n
  BY DEF Takes
<1>3. \A i \in 1 .. n : t[i] = IF i < a \/ i > p THEN s[i] ELSE IF i = a THEN o ELSE s[i - 1]
  BY DEF Takes
<1>4. DifferUpTo(s, n) /\ NewOrAt(s, n, p, o)
  BY <1>1 DEF Differ, DifferUpTo, NewOrAt
<1> HIDE DEF n
<1>5. Taking(s, n, a, p, o, t)
  BY <1>1, <1>3 DEF Taking
<1>6. DifferUpTo(t, n)
  BY <1>4, <1>5, TakeDiffers, Zenon
<1>. SUFFICES At(t, a + 1) = NextTo(s, a, p)
  BY <1>1, <1>2, <1>6 DEF Differ, DifferUpTo
<1>7. CASE a = p
  <2>1. CASE p = n
    <3>1. p + 1 > n
      BY <1>1, <2>1
    <3>. QED  BY <1>1, <1>2, <1>7, <3>1 DEF At, NextTo
  <2>2. CASE p < n
    <3>1. p + 1 \in 1 .. n /\ p + 1 > p
      BY <1>1, <2>2
    <3>2. t[p + 1] = s[p + 1]
      BY <1>3, <3>1
    <3>3. ~(p + 1 > n)
      BY <1>1, <2>2
    <3>. QED  BY <1>1, <1>2, <1>7, <3>2, <3>3 DEF At, NextTo
  <2>. QED  BY <1>1, <2>1, <2>2
<1>8. CASE a < p
  <2>1. a + 1 \in 1 .. n /\ a < a + 1 /\ a + 1 <= p /\ (a + 1) - 1 = a
    BY <1>1, <1>8
  <2>2. t[a + 1] = s[(a + 1) - 1]
    <3>1. ~(a + 1 < a \/ a + 1 > p) /\ a + 1 # a
      BY <1>1, <2>1
    <3>. QED  BY <1>3, <2>1, <3>1
  <2>3. ~(a + 1 > n) /\ a # p
    BY <1>1, <1>8
  <2>4. At(t, a + 1) = t[a + 1]
    BY <1>2, <2>3 DEF At
  <2>. QED  BY <2>1, <2>2, <2>3, <2>4 DEF NextTo
<1>. QED  BY <1>1, <1>7, <1>8

(* A root taken out and another, or the same, inserted before the sibling next. *)
LEMMA PutsInPlace ==
    ASSUME NEW s \in Seq(Nat \ {0}), Differ(s),
           NEW p \in 1 .. Len(s), NEW a \in 1 .. p, NEW o \in Nat \ {0}
    PROVE  Takes(s, a, p, o, Before(Without(s, s[p]), o, NextTo(s, a, p)))
<1> DEFINE l == Without(s, s[p])
           t == Before(l, o, NextTo(s, a, p))
<1>1. l \in Seq(Nat \ {0}) /\ Removes(s, p, l)
  BY WithoutRemoves
<1> HIDE DEF l
<1>2. Len(s) \in Nat /\ p \in Int /\ a \in Int /\ a \in 1 .. Len(l) + 1 /\ Len(l) = Len(s) - 1
  BY <1>1 DEF Removes
<1>3. Differ(l)
  <2>1. DOMAIN l = 1 .. Len(s) - 1 /\ DOMAIN s = 1 .. Len(s)
    BY <1>1, <1>2
  <2> SUFFICES ASSUME NEW i \in 1 .. Len(s) - 1, NEW j \in 1 .. Len(s) - 1, l[i] = l[j]
               PROVE  i = j
    BY <2>1 DEF Differ
  <2> DEFINE from(x) == IF x < p THEN x ELSE x + 1
  <2>2. l[i] = s[from(i)] /\ l[j] = s[from(j)]
    BY <1>1 DEF Removes
  <2>3. from(i) \in 1 .. Len(s) /\ from(j) \in 1 .. Len(s) /\ (from(i) = from(j) => i = j)
    BY <1>2
  <2> HIDE DEF from
  <2>. QED  BY <2>1, <2>2, <2>3 DEF Differ
<1>4. At(l, a) = NextTo(s, a, p)
  <2>1. CASE a = p /\ p = Len(s)
    BY <1>2, <2>1 DEF At, NextTo
  <2>2. CASE a = p /\ p < Len(s)
    <3>1. l[a] = s[p + 1]
      BY <1>1, <1>2, <2>2 DEF Removes
    <3>. QED  BY <1>2, <2>2, <3>1 DEF At, NextTo
  <2>3. CASE a < p
    <3>0. a \in 1 .. Len(s) - 1
      BY <1>2, <2>3
    <3>1. l[a] = s[a]
      BY <1>1, <2>3, <3>0 DEF Removes
    <3>. QED  BY <1>2, <2>3, <3>1 DEF At, NextTo
  <2>. QED  BY <1>2, <2>1, <2>2, <2>3
<1>5. t \in Seq(Nat \ {0}) /\ Inserts(l, a, o, t)
  <2>1. Null \notin Nat \ {0}
    BY DEF Null
  <2>2. Before(l, o, At(l, a)) \in Seq(Nat \ {0}) /\ Inserts(l, a, o, Before(l, o, At(l, a)))
    BY <1>1, <1>2, <1>3, <2>1, BeforeInserts
  <2>. QED  BY <1>4, <2>2
<1> HIDE DEF t
<1>6. Takes(s, a, p, o, t)
  BY <1>1, <1>5, TakesThePlace
<1>. QED  BY <1>6 DEF t, l

LEMMA TakesTwice ==
    ASSUME NEW s \in Seq(Nat \ {0}), NEW p \in 1 .. Len(s), NEW a \in 1 .. p, NEW v, NEW o,
           NEW t, Takes(s, a, p, v, t), NEW u, Takes(t, a, a, o, u)
    PROVE  Takes(s, a, p, o, u)
<1>1. Len(s) \in Nat /\ Len(t) = Len(s) /\ Len(u) = Len(s) /\ u \in Seq(Nat \ {0})
  BY DEF Takes
<1>2. ASSUME NEW i \in 1 .. Len(s)
      PROVE  u[i] = IF i < a \/ i > p THEN s[i] ELSE IF i = a THEN o ELSE s[i - 1]
  <2>1. t[i] = IF i < a \/ i > p THEN s[i] ELSE IF i = a THEN v ELSE s[i - 1]
    BY DEF Takes
  <2>2. u[i] = IF i < a \/ i > a THEN t[i] ELSE IF i = a THEN o ELSE t[i - 1]
    BY <1>1 DEF Takes
  <2>3. i \in Int /\ a \in Int /\ p \in Int /\ a <= p
    OBVIOUS
  <2>. QED  BY <2>1, <2>2, <2>3
<1>. QED  BY <1>1, <1>2 DEF Takes

LEMMA TakesItself ==
    ASSUME NEW s \in Seq(Nat \ {0}), NEW p \in 1 .. Len(s)
    PROVE  Takes(s, p, p, s[p], s)
<1>1. Len(s) \in Nat /\ p \in Int
  OBVIOUS
<1>. QED  BY <1>1 DEF Takes

(* d is c after sync of the child at a. *)
Learns(c, a, o, next, d) ==
    /\ NewRoot(c, a, o, d)
    /\ SyncsSlots(c, a, o, next, d)
    /\ \A i \in 1 .. Len(c) : d[i].key = c[i].key /\ d[i].type = c[i].type

Kept(at, old) == old # Null /\ Matches(children[at], old_children[old])

LEMMA SyncEffect ==
    ASSUME TypeOK, NEW at \in 1 .. Len(children), NEW old, NEW list, NEW next \in Nat,
           old # Null => old \in 1 .. Len(old_children),
           NewObject \in Nat, Sync(at, old, list, next)
    PROVE  \E root \in Nat :
               /\ Learns(children, at, root, next, children')
               /\ \/ /\ Kept(at, old) /\ root = old_children[old].root
                     /\ siblings' = list
                  \/ /\ Kept(at, old) => RootsChange \in program
                     /\ root = NewObject
                     /\ siblings' = Before(IF old = Null THEN list
                                           ELSE Without(list, old_children[old].root),
                                           root, next)
<1>1. PICK replaced \in BOOLEAN :
          LET kept == /\ old # Null
                      /\ Matches(children[at], old_children[old])
                      /\ ~replaced
              left == IF old = Null THEN list ELSE Without(list, old_children[old].root)
              root == IF kept THEN old_children[old].root ELSE NewObject
          IN  /\ replaced => old # Null /\ RootsChange \in program
              /\ siblings' = IF kept THEN list ELSE Before(left, root, next)
              /\ children' = [i \in DOMAIN children |->
                    IF i = at THEN [children[i] EXCEPT !.root = root, !.slot = next]
                    ELSE IF i = at - 1 THEN [children[i] EXCEPT !.slot = root]
                    ELSE children[i]]
  BY DEF Sync
<1> DEFINE kept == Kept(at, old) /\ ~replaced
           root == IF kept THEN old_children[old].root ELSE NewObject
           left == IF old = Null THEN list ELSE Without(list, old_children[old].root)
<1>2. /\ replaced => RootsChange \in program
      /\ siblings' = IF kept THEN list ELSE Before(left, root, next)
      /\ children' = [i \in DOMAIN children |->
                    IF i = at THEN [children[i] EXCEPT !.root = root, !.slot = next]
                    ELSE IF i = at - 1 THEN [children[i] EXCEPT !.slot = root]
                    ELSE children[i]]
  BY <1>1 DEF Kept
<1>3. /\ children \in Seq(Nodes) /\ old_children \in Seq(Nodes)
      /\ Len(children) \in Nat /\ DOMAIN children = 1 .. Len(children)
  BY DEF TypeOK
<1>4. root \in Nat
  <2>1. CASE kept
    <3>1. old_children[old] \in Nodes
      BY <1>3, <2>1 DEF Kept
    <3>. QED  BY <2>1, <3>1 DEF Nodes
  <2>2. CASE ~kept
    BY <2>2
  <2>. QED  BY <2>1, <2>2
<1> HIDE DEF root
<1>5. ASSUME NEW i \in 1 .. Len(children)
      PROVE  /\ children'[i] \in Nodes
             /\ children'[i].key = children[i].key /\ children'[i].type = children[i].type
             /\ children'[i].root = IF i = at THEN root ELSE children[i].root
             /\ children'[i].slot = IF i = at THEN next
                                    ELSE IF i = at - 1 THEN root ELSE children[i].slot
  <2>1. children[i] \in Nodes
    BY <1>3
  <2>2. children'[i] = IF i = at THEN [children[i] EXCEPT !.root = root, !.slot = next]
                       ELSE IF i = at - 1 THEN [children[i] EXCEPT !.slot = root]
                       ELSE children[i]
    BY <1>2, <1>3
  <2>3. at - 1 # at
    OBVIOUS
  <2>4. CASE i = at
    BY <1>4, <2>1, <2>2, <2>4 DEF Nodes
  <2>5. CASE i = at - 1
    BY <1>4, <2>1, <2>2, <2>3, <2>5 DEF Nodes
  <2>6. CASE i # at /\ i # at - 1
    BY <2>1, <2>2, <2>6
  <2>. QED  BY <2>4, <2>5, <2>6
<1>6. children' \in Seq(Nodes) /\ Len(children') = Len(children)
  <2>1. DOMAIN children' = 1 .. Len(children)
    BY <1>2, <1>3
  <2>2. children' \in [1 .. Len(children) -> Nodes]
    BY <1>2, <1>3, <1>5
  <2>. QED  BY <1>3, <2>2
<1>7. Learns(children, at, root, next, children')
  <2>1. at - 1 # at
    OBVIOUS
  <2>2. NewRoot(children, at, root, children')
    BY <1>5, <1>6 DEF NewRoot
  <2>3. SyncsSlots(children, at, root, next, children')
    BY <1>5, <2>1 DEF SyncsSlots
  <2>. QED  BY <1>5, <2>2, <2>3 DEF Learns
<1>8. CASE kept
  <2>1. Kept(at, old) /\ root = old_children[old].root /\ siblings' = list
    BY <1>2, <1>8 DEF root
  <2>. QED  BY <1>4, <1>7, <2>1
<1>9. CASE ~kept
  <2>1. /\ Kept(at, old) => RootsChange \in program
        /\ root = NewObject
        /\ siblings' = Before(left, root, next)
    BY <1>2, <1>9 DEF root
  <2>. QED  BY <1>4, <1>7, <2>1
<1>. QED  BY <1>8, <1>9

-----------------------------------------------------------------------------
(* New objects, and the next old child. *)

LEMMA LeastOfNumbers ==
    ASSUME NEW S \in SUBSET Nat, S # {}
    PROVE  \E m \in S : \A x \in S : m <= x
<1> DEFINE less == OpToRel(<, Nat)
<1>1. \A x, m \in Nat : x < m => <<x, m>> \in less
  BY DEF OpToRel
<1>2. IsWellFoundedOn(less, Nat)
  BY NatLessThanWellFounded
<1> HIDE DEF less
<1>3. PICK m \in S : \A x \in S : ~(<<x, m>> \in less)
  BY <1>2, WFMin
<1>4. ASSUME NEW x \in S PROVE m <= x
  <2>1. x \in Nat /\ m \in Nat /\ ~(x < m)
    BY <1>1, <1>3
  <2>. QED  BY <2>1
<1>. QED  BY <1>4

LEMMA SiblingsAreRoots ==
    ASSUME NEW s, NEW c, NEW olds, NEW a, NEW b, NEW R, Shape(s, c, a, b, olds, R),
           NEW i \in 1 .. Len(s)
    PROVE  \/ \E j \in 1 .. Len(c) : s[i] = c[j].root
           \/ \E j \in R : s[i] = olds[j].root
<1> DEFINE n == Len(s)
           m == Len(c)
           z == n - (m - b)
<1>1. /\ n \in Nat /\ m \in Nat /\ a \in Int /\ b \in Int
      /\ 1 <= a /\ b <= m /\ a - 1 + (m - b) <= n /\ a <= b + 1
  BY PlacesOfShape
<1>2. /\ \A j \in 1 .. a - 1 : s[j] = c[j].root
      /\ \A j \in b + 1 .. m : s[n - m + j] = c[j].root
      /\ Holds(s, a, z, olds, R)
  BY ShapeIs
<1>3. i \in 1 .. n
  OBVIOUS
<1> HIDE DEF n, m
<1>4. CASE i < a
  BY <1>1, <1>2, <1>3, <1>4 DEF m
<1>5. CASE a <= i /\ i <= z
  <2>1. i \in a .. z
    BY <1>1, <1>3, <1>5
  <2> HIDE DEF z
  <2>. QED  BY <1>2, <2>1 DEF Holds
<1>6. CASE i > z
  <2> DEFINE j == i - n + m
  <2>1. j \in b + 1 .. m /\ j \in 1 .. m /\ n - m + j = i
    BY <1>1, <1>3, <1>6
  <2> HIDE DEF j
  <2>2. s[i] = c[j].root
    BY <1>2, <2>1
  <2>. QED  BY <2>1, <2>2 DEF m
<1>. QED  BY <1>1, <1>3, <1>4, <1>5, <1>6

(* There are more objects than the roots and slots of two lists of children. *)
LEMMA NewObjectIsNew ==
    ASSUME TypeOK,
           Shape(siblings, children, start_index, end_index, old_children, Rest)
    PROVE  NewObject \in Nat \ {0} /\ IsNew(NewObject, siblings, children)
<1> DEFINE M == MaxChildren
           f == [x \in 1 .. 3 * M |->
                    IF x <= M THEN old_children[x].root
                    ELSE IF x <= 2 * M THEN children[x - M].root ELSE children[x - 2 * M].slot]
           T == {f[x] : x \in 1 .. 3 * M}
<1>1. /\ M \in Nat /\ Len(children) \in Nat /\ Len(old_children) \in Nat /\ Len(siblings) \in Nat
      /\ Len(children) <= M /\ Len(old_children) <= M
      /\ DOMAIN children = 1 .. Len(children) /\ DOMAIN old_children = 1 .. Len(old_children)
      /\ DOMAIN siblings = 1 .. Len(siblings)
  BY DEF TypeOK
<1>2. ASSUME NEW j \in 1 .. Len(old_children) PROVE old_children[j].root \in T
  <2>1. j \in 1 .. 3 * M /\ j <= M
    BY <1>1
  <2>2. f[j] = old_children[j].root
    BY <2>1
  <2> HIDE DEF f
  <2>. QED  BY <2>1, <2>2
<1>3. ASSUME NEW j \in 1 .. Len(children)
      PROVE  children[j].root \in T /\ children[j].slot \in T
  <2>1. /\ j + M \in 1 .. 3 * M /\ ~(j + M <= M) /\ j + M <= 2 * M /\ (j + M) - M = j
        /\ j + 2 * M \in 1 .. 3 * M /\ ~(j + 2 * M <= 2 * M) /\ ~(j + 2 * M <= M)
        /\ (j + 2 * M) - 2 * M = j
    BY <1>1
  <2>2. f[j + M] = children[j].root
    BY <2>1
  <2>3. f[j + 2 * M] = children[j].slot
    BY <2>1
  <2> HIDE DEF f
  <2>. QED  BY <2>1, <2>2, <2>3
<1>4. IsFiniteSet(T) /\ Cardinality(T) <= 3 * M
  <2>1. f \in Surjection(1 .. 3 * M, T)
    BY DEF Surjection
  <2> HIDE DEF f
  <2>2. 3 * M \in Int /\ 3 * M >= 0
    BY <1>1
  <2>3. IsFiniteSet(1 .. 3 * M) /\ Cardinality(1 .. 3 * M) = 3 * M
    BY <2>2, FS_Interval
  <2>4. IsFiniteSet(T) /\ Cardinality(T) <= Cardinality(1 .. 3 * M)
    <3> HIDE DEF T
    <3>. QED  BY <2>1, <2>3, FS_Surjection
  <2>. QED  BY <2>3, <2>4
<1> HIDE DEF f, T
<1>5. Remembered \subseteq T
  <2>1. ASSUME NEW i \in 1 .. Len(siblings) PROVE siblings[i] \in T
    <3>1. \/ \E j \in 1 .. Len(children) : siblings[i] = children[j].root
          \/ \E j \in Rest : siblings[i] = old_children[j].root
      BY SiblingsAreRoots
    <3>2. Rest \subseteq DOMAIN old_children
      BY DEF Shape
    <3>. QED  BY <1>1, <1>2, <1>3, <3>1, <3>2
  <2>2. \A i \in DOMAIN children : {children[i].root, children[i].slot} \subseteq T
    BY <1>1, <1>3
  <2>3. UNION {{children[i].root, children[i].slot} : i \in DOMAIN children} \subseteq T
    BY <2>2
  <2>. QED  BY <1>1, <1>2, <2>1, <2>3 DEF Remembered
<1>6. Objects \ Remembered # {}
  <2>1. SUFFICES ASSUME Objects \subseteq Remembered PROVE FALSE
    OBVIOUS
  <2>2. Objects \in SUBSET T
    BY <1>5, <2>1
  <2>3. Cardinality(Objects) <= Cardinality(T)
    BY <1>4, <2>2, FS_Subset
  <2>4. 4 * M + 1 \in Int /\ 4 * M + 1 >= 1
    BY <1>1
  <2>5. Cardinality(Objects) = 4 * M + 1 /\ IsFiniteSet(Objects)
    <3>1. Cardinality(1 .. 4 * M + 1) = IF 1 > 4 * M + 1 THEN 0 ELSE 4 * M + 1 - 1 + 1
      BY <2>4, FS_Interval
    <3>2. IsFiniteSet(1 .. 4 * M + 1)
      BY <2>4, FS_Interval
    <3>. QED  BY <2>4, <3>1, <3>2 DEF Objects
  <2>6. Cardinality(T) \in Nat
    BY <1>4, FS_CardinalityType
  <2>. QED  BY <1>1, <1>4, <2>3, <2>5, <2>6
<1>7. NewObject \in Objects \ Remembered
  <2>1. Objects \ Remembered \in SUBSET Nat
    BY DEF Objects
  <2>2. \E o \in Objects \ Remembered : \A p \in Objects \ Remembered : o <= p
    BY <1>6, <2>1, LeastOfNumbers
  <2>. QED  BY <2>2 DEF NewObject
<1>8. NewObject \in Nat \ {0}
  BY <1>7 DEF Objects
<1>9. \A i \in 1 .. Len(siblings) : siblings[i] \in Remembered
  BY <1>1 DEF Remembered
<1>10. \A i \in 1 .. Len(children) : children[i].slot \in Remembered
  BY <1>1 DEF Remembered
<1>. QED  BY <1>7, <1>8, <1>9, <1>10 DEF IsNew

(* The turn of an old child has come. *)
LEMMA NextOldChild ==
    ASSUME TypeOK, NEW k \in 1 .. Len(old_children), k = old_start_index,
           old_start_index <= old_end_index
    PROVE  LET n == AdvanceOldStart(reordered)
           IN  /\ n \in Nat \ {0} /\ n <= old_end_index + 1
               /\ n <= old_end_index => old_children[n].key \notin reordered
               /\ {j \in n .. old_end_index : old_children[j].key \notin reordered}
                      = Rest \ {old_start_index}
<1> DEFINE from == old_start_index
           to == old_end_index
           S == {x \in from + 1 .. to + 1 : x = to + 1 \/ old_children[x].key \notin reordered}
           n == AdvanceOldStart(reordered)
<1>1. from \in Nat \ {0} /\ to \in Nat /\ from <= to
  BY DEF TypeOK
<1>2. S \in SUBSET Nat /\ to + 1 \in S
  BY <1>1
<1>3. PICK x \in S : \A y \in S : x <= y
  <2> HIDE DEF S
  <2>1. S # {}
    BY <1>2
  <2>. QED  BY <1>2, <2>1, LeastOfNumbers, Zenon
<1>4. /\ x \in from + 1 .. to + 1
      /\ x <= to => old_children[x].key \notin reordered
      /\ \A i \in from + 1 .. x - 1 : old_children[i].key \in reordered
  <2>1. x \in from + 1 .. to + 1 /\ (x = to + 1 \/ old_children[x].key \notin reordered)
    OBVIOUS
  <2>2. ASSUME NEW i \in from + 1 .. x - 1, old_children[i].key \notin reordered PROVE FALSE
    <3>1. i \in S /\ ~(x <= i)
      BY <1>1, <2>1, <2>2
    <3>. QED  BY <1>3, <3>1
  <2>. QED  BY <1>1, <2>1, <2>2
<1>5. /\ n \in from + 1 .. to + 1
      /\ n <= to => old_children[n].key \notin reordered
      /\ \A i \in from + 1 .. n - 1 : old_children[i].key \in reordered
  <2> HIDE DEF S
  <2>1. \E y \in (old_start_index + 1) .. (old_end_index + 1) :
            /\ y <= old_end_index => old_children[y].key \notin reordered
            /\ \A i \in (old_start_index + 1) .. (y - 1) : old_children[i].key \in reordered
    BY <1>4
  <2>. QED  BY <2>1, Zenon DEF AdvanceOldStart
<1> HIDE DEF n
<1>6. {j \in n .. to : old_children[j].key \notin reordered} = Rest \ {from}
  <2>1. ASSUME NEW j \in n .. to PROVE j \in from .. to /\ j # from
    BY <1>1, <1>5
  <2>2. ASSUME NEW j \in from .. to, j # from, old_children[j].key \notin reordered
        PROVE  j \in n .. to
    <3>1. j \in from + 1 .. n - 1 \/ j \in n .. to
      BY <1>1, <1>5, <2>2
    <3>. QED  BY <1>5, <2>2, <3>1
  <2>. QED  BY <2>1, <2>2 DEF Rest
<1>7. n \in Nat \ {0} /\ n <= to + 1
  BY <1>1, <1>5
<1>. QED  BY <1>5, <1>6, <1>7 DEF n

-----------------------------------------------------------------------------
(* What sync keeps. *)

LEMMA SyncTakes ==
    ASSUME TypeOK,
           Shape(siblings, children, start_index, end_index, old_children, Rest),
           NEW at \in 1 .. Len(children), NEW k \in 1 .. Len(old_children),
           NEW p \in 1 .. Len(siblings), NEW a \in 1 .. p, siblings[p] = old_children[k].root,
           NEW list, Takes(siblings, a, p, siblings[p], list),
           NEW next \in Nat, next = NextTo(siblings, a, p),
           Sync(at, k, list, next)
    PROVE  \E root \in Nat :
               /\ Learns(children, at, root, next, children')
               /\ Takes(siblings, a, p, root, siblings')
               /\ root = siblings[p] \/ IsNew(root, siblings, children)
               /\ Matches(children[at], old_children[k]) /\ RootsChange \notin program
                      => root = old_children[k].root
<1>1. siblings \in Seq(Nat \ {0}) /\ Differ(siblings)
  BY DEF Shape
<1>2. NewObject \in Nat \ {0} /\ IsNew(NewObject, siblings, children)
  BY NewObjectIsNew
<1>3. /\ list \in Seq(Nat \ {0}) /\ Differ(list) /\ At(list, a + 1) = next
      /\ a \in 1 .. Len(list) /\ list[a] = old_children[k].root
  <2>1. list \in Seq(Nat \ {0}) /\ Differ(list) /\ At(list, a + 1) = next
    BY <1>1, TakesIsTyped
  <2>2. Len(list) = Len(siblings) /\ Len(siblings) \in Nat /\ a \in 1 .. Len(siblings)
    BY <1>1 DEF Takes
  <2>3. list[a] = siblings[p]
    BY <2>2 DEF Takes
  <2>. QED  BY <2>1, <2>2, <2>3
<1>4. k # Null
  BY DEF Null
<1>5. PICK root \in Nat :
               /\ Learns(children, at, root, next, children')
               /\ \/ /\ Kept(at, k) /\ root = old_children[k].root
                     /\ siblings' = list
                  \/ /\ Kept(at, k) => RootsChange \in program
                     /\ root = NewObject
                     /\ siblings' = Before(IF k = Null THEN list
                                           ELSE Without(list, old_children[k].root),
                                           root, next)
  BY <1>2, SyncEffect
<1>6. Matches(children[at], old_children[k]) => Kept(at, k)
  BY <1>4 DEF Kept
<1>7. CASE root = old_children[k].root /\ siblings' = list
  BY <1>5, <1>7
<1>8. CASE /\ Kept(at, k) => RootsChange \in program
           /\ root = NewObject
           /\ siblings' = Before(Without(list, old_children[k].root), root, next)
  <2>1. NextTo(list, a, a) = next
    BY <1>3 DEF NextTo
  <2>2. a \in 1 .. a
    OBVIOUS
  <2>3. Takes(list, a, a, root, Before(Without(list, list[a]), root, NextTo(list, a, a)))
    BY <1>2, <1>3, <1>8, <2>2, PutsInPlace
  <2>4. Takes(list, a, a, root, siblings')
    BY <1>3, <1>8, <2>1, <2>3
  <2>5. Takes(siblings, a, p, root, siblings')
    BY <1>1, <2>4, TakesTwice
  <2>. QED  BY <1>2, <1>5, <1>6, <1>8, <2>5
<1>. QED  BY <1>4, <1>5, <1>7, <1>8

LEMMA SyncInserts ==
    ASSUME TypeOK,
           Shape(siblings, children, start_index, end_index, old_children, Rest),
           NEW at \in 1 .. Len(children), NEW a \in 1 .. Len(siblings) + 1,
           NEW next \in Nat, next = At(siblings, a),
           Sync(at, Null, siblings, next)
    PROVE  \E root \in Nat :
               /\ Learns(children, at, root, next, children')
               /\ siblings' \in Seq(Nat \ {0}) /\ Inserts(siblings, a, root, siblings')
               /\ At(siblings', a + 1) = next
               /\ IsNew(root, siblings, children)
<1>1. siblings \in Seq(Nat \ {0}) /\ Differ(siblings)
  BY DEF Shape
<1>2. NewObject \in Nat \ {0} /\ IsNew(NewObject, siblings, children)
  BY NewObjectIsNew
<1>3. Null # Null => Null \in 1 .. Len(old_children)
  OBVIOUS
<1>4. PICK root \in Nat :
               /\ Learns(children, at, root, next, children')
               /\ \/ /\ Kept(at, Null) /\ root = old_children[Null].root
                     /\ siblings' = siblings
                  \/ /\ Kept(at, Null) => RootsChange \in program
                     /\ root = NewObject
                     /\ siblings' = Before(IF Null = Null THEN siblings
                                           ELSE Without(siblings, old_children[Null].root),
                                           root, next)
  BY <1>2, <1>3, SyncEffect
<1>5. root = NewObject /\ siblings' = Before(siblings, root, next)
  BY <1>4 DEF Kept
<1>6. Null \notin Nat \ {0}
  BY DEF Null
<1>7. /\ Before(siblings, root, At(siblings, a)) \in Seq(Nat \ {0})
      /\ Inserts(siblings, a, root, Before(siblings, root, At(siblings, a)))
  BY <1>1, <1>2, <1>5, <1>6, BeforeInserts
<1>8. siblings' \in Seq(Nat \ {0}) /\ Inserts(siblings, a, root, siblings')
  BY <1>5, <1>7
<1>9. At(siblings', a + 1) = next
  <2> DEFINE n == Len(siblings)
  <2>1. n \in Nat /\ Len(siblings') = n + 1 /\ a \in 1 .. n + 1
    BY <1>1, <1>8 DEF Inserts
  <2>2. CASE a = n + 1
    BY <2>1, <2>2 DEF At
  <2>3. CASE a <= n
    <3>1. a + 1 \in 1 .. n + 1 /\ ~(a + 1 < a) /\ a + 1 # a /\ (a + 1) - 1 = a /\ ~(a > n)
          /\ ~(a + 1 > n + 1)
      BY <2>1, <2>3
    <3>2. siblings'[a + 1] = siblings[a]
      BY <1>8, <3>1 DEF Inserts
    <3>. QED  BY <2>1, <3>1, <3>2 DEF At
  <2>. QED  BY <2>1, <2>2, <2>3
<1>. QED  BY <1>2, <1>4, <1>5, <1>8, <1>9

(* No old child whose turn has come has the key of one that is left to sync. *)
LEMMA KeyIsNotKnown ==
    ASSUME KeysDiffer(children), KeysAreKnown, start_index <= end_index,
           NEW at \in DOMAIN children, at \notin Synced, Synced \subseteq DOMAIN children,
           children[at].key # NoKey
    PROVE  /\ children[at].key \notin reordered
           /\ \A j \in DOMAIN old_children \ Rest : old_children[j].key # children[at].key
<1>1. \A i \in Synced : children[i].key # children[at].key
  BY DEF KeysDiffer
<1>. QED  BY <1>1 DEF KeysAreKnown

(* The keys and the roots of the children that were synced, when one more is. *)
LEMMA SyncKeepsKeys ==
    ASSUME KeysDiffer(children), KeysAreKnown, Reused, start_index <= end_index,
           Len(children) \in Nat, DOMAIN children = 1 .. Len(children),
           NEW at \in 1 .. Len(children), at \notin Synced, Synced' = Synced \cup {at},
           Synced \subseteq DOMAIN children,
           NEW root, NEW next, Learns(children, at, root, next, children'),
           old_children' = old_children, program' = program,
           \A k \in Rest \ Rest' : old_children[k].key = children[at].key,
           reordered' \subseteq reordered \cup {children[at].key},
           program \subseteq {KeysChangeType} =>
               \A j \in DOMAIN old_children :
                   (/\ children[at].key = old_children[j].key
                    /\ children[at].type = old_children[j].type
                    /\ children[at].key # NoKey)
                       => root = old_children[j].root
    PROVE  KeysDiffer(children') /\ KeysAreKnown' /\ Reused'
<1>1. /\ \A i \in 1 .. Len(children) : /\ children'[i].key = children[i].key
                                       /\ children'[i].type = children[i].type
      /\ \A i \in 1 .. Len(children) : i # at => children'[i].root = children[i].root
      /\ children'[at].root = root
      /\ DOMAIN children' = 1 .. Len(children)
  BY DEF Learns, NewRoot
<1>2. KeysDiffer(children')
  BY <1>1 DEF KeysDiffer
<1>3. KeysAreKnown'
  <2>1. ASSUME NEW key \in reordered' PROVE \E i \in Synced' : children'[i].key = key
    <3>1. CASE key = children[at].key
      BY <1>1, <3>1
    <3>2. CASE key \in reordered
      <4>1. PICK i \in Synced : children[i].key = key
        BY <3>2 DEF KeysAreKnown
      <4>2. i \in Synced' /\ children'[i].key = key
        BY <1>1, <4>1
      <4>. QED  BY <4>2
    <3>. QED  BY <3>1, <3>2
  <2>2. ASSUME NEW k \in DOMAIN old_children, k \notin Rest', old_children[k].key # NoKey
        PROVE  \E i \in Synced' : children'[i].key = old_children[k].key
    <3>1. CASE k \in Rest
      <4>1. at \in Synced' /\ children'[at].key = old_children[k].key
        BY <1>1, <2>2, <3>1
      <4>. QED  BY <4>1
    <3>2. CASE k \notin Rest
      <4>2. PICK i \in Synced : children[i].key = old_children[k].key
        BY <2>2, <3>2 DEF KeysAreKnown
      <4>3. i \in Synced' /\ children'[i].key = old_children[k].key
        BY <1>1, <4>2
      <4>. QED  BY <4>3
    <3>. QED  BY <3>1, <3>2
  <2>3. \A k \in DOMAIN old_children' \ Rest' :
          old_children'[k].key # NoKey => \E i \in Synced' : children'[i].key = old_children'[k].key
    BY <2>2
  <2>. QED  BY <2>1, <2>3 DEF KeysAreKnown
<1>4. Reused'
  <2> SUFFICES ASSUME program \subseteq {KeysChangeType},
                      NEW i \in Synced', NEW j \in DOMAIN old_children,
                      children'[i].key = old_children[j].key,
                      children'[i].type = old_children[j].type,
                      children'[i].key # NoKey
               PROVE  children'[i].root = old_children[j].root
    BY Zenon DEF Reused
  <2>1. CASE i = at
    BY <1>1, <2>1
  <2>2. CASE i # at
    <3>1. i \in Synced /\ i \in 1 .. Len(children)
      BY <2>2
    <3>. QED  BY <1>1, <2>2, <3>1 DEF Reused
  <2>. QED  BY <2>1, <2>2
<1>. QED  BY <1>2, <1>3, <1>4

-----------------------------------------------------------------------------
(* The steps. *)

(* The typing of a step that syncs or removes. *)
LEMMA StepIsTyped ==
    ASSUME TypeOK, stage' \in {"backward", "forward"},
           Len(children') = Len(children), old_children' = old_children,
           NEW a, NEW b, NEW R, Shape(siblings', children', a, b, old_children, R),
           start_index' \in Nat \ {0}, end_index' \in Nat,
           old_start_index' \in Nat \ {0}, old_end_index' \in Nat, next_sibling' \in Nat
    PROVE  TypeOK'
<1>1. siblings' \in Seq(Nat \ {0}) /\ children' \in Seq(Nodes)
  BY DEF Shape
<1>. QED  BY <1>1 DEF TypeOK

LEMMA SyncedAreChildren ==
    ASSUME NEW s, NEW olds, NEW R, Shape(s, children, start_index, end_index, olds, R)
    PROVE  /\ Synced \subseteq DOMAIN children
           /\ DOMAIN children = 1 .. Len(children) /\ Len(children) \in Nat
           /\ start_index <= end_index =>
                  /\ start_index \in 1 .. Len(children) /\ end_index \in 1 .. Len(children)
                  /\ start_index \notin Synced /\ end_index \notin Synced
<1>1. /\ start_index \in Int /\ end_index \in Int /\ Len(children) \in Nat
      /\ DOMAIN children = 1 .. Len(children)
      /\ 1 <= start_index /\ end_index <= Len(children) /\ start_index <= end_index + 1
  BY PlacesOfShape
<1>. QED  BY <1>1 DEF Synced

(* The old child that matches gives its root. *)
LEMMA MatchGivesRoot ==
    ASSUME NEW at, NEW k \in DOMAIN old_children, KeysDiffer(old_children),
           Matches(children[at], old_children[k]), NEW root,
           RootsChange \notin program => root = old_children[k].root,
           program \subseteq {KeysChangeType},
           NEW j \in DOMAIN old_children, children[at].key = old_children[j].key,
           children[at].key # NoKey
    PROVE  root = old_children[j].root
<1>1. j = k
  BY DEF KeysDiffer, Matches
<1>2. RootsChange \notin program
  BY DEF RootsChange, KeysChangeType
<1>. QED  BY <1>1, <1>2

LEMMA ScanBackwardKeeps ==
    ASSUME IInv, ScanBackward
    PROVE  IInv'
<1> DEFINE z == Len(siblings) - (Len(children) - end_index)
           k == old_end_index
<1>1. /\ TypeOK /\ SyncInv /\ stage = "backward" /\ stage' = "backward"
      /\ start_index <= end_index /\ old_start_index <= old_end_index
      /\ Matches(children[end_index], old_children[k])
      /\ Sync(end_index, k, siblings, next_sibling)
      /\ next_sibling' = children'[end_index].root
      /\ end_index' = end_index - 1 /\ old_end_index' = old_end_index - 1
      /\ old_children' = old_children /\ start_index' = start_index
      /\ old_start_index' = old_start_index /\ reordered' = reordered /\ program' = program
  BY DEF IInv, ScanBackward, BothLeft
<1>2. /\ KeysDiffer(children) /\ KeysDiffer(old_children)
      /\ Shape(siblings, children, start_index, end_index, old_children, Rest)
      /\ Slots(siblings, children, start_index, end_index)
      /\ NextSibling /\ Places /\ KeysAreKnown /\ Reused
  BY <1>1 DEF SyncInv
<1>3. /\ start_index = 1 /\ old_start_index = 1 /\ reordered = {}
      /\ next_sibling = IF end_index = Len(children) THEN Null ELSE children[end_index + 1].root
  BY <1>1, <1>2 DEF NextSibling
<1>4. /\ end_index \in Nat /\ k \in Nat /\ next_sibling \in Nat
      /\ Len(siblings) \in Nat /\ Len(children) \in Nat /\ Len(old_children) \in Nat
      /\ DOMAIN children = 1 .. Len(children) /\ DOMAIN old_children = 1 .. Len(old_children)
      /\ 1 <= end_index /\ end_index <= Len(children) /\ 1 <= k /\ k <= Len(old_children)
      /\ Len(children) - end_index <= Len(siblings)
  <2>1. end_index \in Nat /\ k \in Nat /\ next_sibling \in Nat
    BY <1>1 DEF TypeOK
  <2>2. /\ Len(siblings) \in Nat /\ Len(children) \in Nat /\ Len(old_children) \in Nat
        /\ DOMAIN children = 1 .. Len(children) /\ DOMAIN old_children = 1 .. Len(old_children)
        /\ end_index <= Len(children)
        /\ start_index - 1 + (Len(children) - end_index) <= Len(siblings)
    BY <1>2, PlacesOfShape
  <2>3. k <= Len(old_children)
    BY <1>2 DEF Places
  <2>. QED  BY <1>1, <1>3, <2>1, <2>2, <2>3
<1>5. Rest = 1 .. k
  BY <1>3 DEF Rest
<1>6. 1 <= z /\ z \in 1 .. Len(siblings) /\ siblings[z] = old_children[k].root
  <2>1. k \in Rest /\ \A l \in Rest : l <= k
    BY <1>4, <1>5
  <2>2. start_index <= z /\ siblings[z] = old_children[k].root
    BY <1>2, <2>1, LastOfRest
  <2>3. z \in Int /\ z <= Len(siblings)
    BY <1>4
  <2> HIDE DEF z
  <2>4. 1 <= z
    BY <1>3, <2>2
  <2>. QED  BY <1>4, <2>2, <2>3, <2>4
<1>7. next_sibling = NextTo(siblings, z, z)
  <2>1. \A i \in end_index + 1 .. Len(children) :
            siblings[Len(siblings) - Len(children) + i] = children[i].root
    BY <1>2, ShapeIs
  <2>2. CASE end_index = Len(children)
    <3>1. z + 1 > Len(siblings)
      BY <1>4, <2>2
    <3> HIDE DEF z
    <3>. QED  BY <1>3, <2>2, <3>1 DEF NextTo, At
  <2>3. CASE end_index < Len(children)
    <3>1. /\ end_index + 1 \in end_index + 1 .. Len(children) /\ ~(z + 1 > Len(siblings))
          /\ Len(siblings) - Len(children) + (end_index + 1) = z + 1 /\ end_index # Len(children)
      <4>1. \A n, m, e \in Nat : e < m =>
                /\ e + 1 \in e + 1 .. m /\ ~(n - (m - e) + 1 > n)
                /\ n - m + (e + 1) = n - (m - e) + 1 /\ e # m
        OBVIOUS
      <4>. QED  BY <1>4, <2>3, <4>1
    <3>2. siblings[z + 1] = children[end_index + 1].root
      BY <2>1, <3>1
    <3> HIDE DEF z
    <3>. QED  BY <1>3, <3>1, <3>2 DEF NextTo, At
  <2>4. end_index = Len(children) \/ end_index < Len(children)
    <3>1. \A e, m \in Nat : e <= m => e = m \/ e < m
      OBVIOUS
    <3>. QED  BY <1>4, <3>1, Zenon
  <2> HIDE DEF z
  <2>. QED  BY <2>2, <2>3, <2>4, Zenon
<1>8. PICK root \in Nat :
          /\ Learns(children, end_index, root, next_sibling, children')
          /\ Takes(siblings, z, z, root, siblings')
          /\ root = siblings[z] \/ IsNew(root, siblings, children)
          /\ RootsChange \notin program => root = old_children[k].root
  <2>1. Takes(siblings, z, z, siblings[z], siblings)
    BY <1>2, <1>6, TakesItself DEF Shape
  <2>2. end_index \in 1 .. Len(children) /\ k \in 1 .. Len(old_children) /\ z \in 1 .. z
    BY <1>4, <1>6
  <2> HIDE DEF z
  <2>. QED  BY <1>1, <1>2, <1>4, <1>6, <1>7, <2>1, <2>2, SyncTakes
<1>9. /\ NewRoot(children, end_index, root, children') /\ Len(children') = Len(children)
      /\ SyncsSlots(children, end_index, root, next_sibling, children')
      /\ children'[end_index].root = root
  BY <1>8 DEF Learns, NewRoot
<1>10. Rest' = Rest \ {k}
  <2>1. Rest' = 1 .. k - 1
    BY <1>1, <1>3 DEF Rest
  <2>. QED  BY <1>4, <1>5, <2>1
<1>11. Shape(siblings', children', start_index, end_index - 1, old_children, Rest \ {k})
  <2>1. k \in Rest
    BY <1>4, <1>5
  <2>2. root = siblings[z] \/ \A i \in 1 .. Len(siblings) : siblings[i] # root
    BY <1>8 DEF IsNew
  <2>3. start_index <= z
    BY <1>3, <1>6
  <2>4. z = Len(siblings) - (Len(children) - end_index)
    OBVIOUS
  <2> HIDE DEF z
  <2>. QED  BY <1>1, <1>2, <1>6, <1>8, <1>9, <2>1, <2>2, <2>3, <2>4, TakeAtTheEndKeepsShape
<1>12. Slots(siblings', children', start_index, end_index - 1)
  <2>1. At(siblings', z + 1) = next_sibling
    <3>1. siblings \in Seq(Nat \ {0}) /\ Differ(siblings)
      BY <1>2 DEF Shape
    <3>2. z \in 1 .. z
      BY <1>6
    <3>3. root = siblings[z] \/ \A i \in 1 .. Len(siblings) : siblings[i] # root
      BY <1>8 DEF IsNew
    <3> HIDE DEF z
    <3>. QED  BY <1>6, <1>7, <1>8, <3>1, <3>2, <3>3, TakesIsTyped
  <2>2. z = Len(siblings) - (Len(children) - end_index)
    OBVIOUS
  <2> HIDE DEF z
  <2>3. SyncsSlots(children, end_index, root, At(siblings', z + 1), children')
    BY <1>9, <2>1
  <2>4. Slots(siblings', children', 1, end_index - 1)
    BY <1>2, <1>3, <1>4, <1>6, <1>8, <1>9, <1>11, <2>2, <2>3, TakeAtTheEndKeepsSlots
  <2>. QED  BY <1>3, <2>4
<1>13. KeysDiffer(children') /\ KeysAreKnown' /\ Reused'
  <2>1. /\ end_index \in 1 .. Len(children) /\ end_index \notin Synced
        /\ Synced \subseteq DOMAIN children
    BY <1>1, <1>2, SyncedAreChildren
  <2>2. Synced' = Synced \cup {end_index}
    BY <1>1, <1>3, <1>4, <1>9 DEF Synced
  <2>3. program \subseteq {KeysChangeType} =>
            \A j \in DOMAIN old_children :
                (/\ children[end_index].key = old_children[j].key
                 /\ children[end_index].type = old_children[j].type
                 /\ children[end_index].key # NoKey)
                    => root = old_children[j].root
    <3> SUFFICES ASSUME program \subseteq {KeysChangeType}, NEW j \in DOMAIN old_children,
                        children[end_index].key = old_children[j].key,
                        children[end_index].key # NoKey
                 PROVE  root = old_children[j].root
      OBVIOUS
    <3>1. k \in DOMAIN old_children
      BY <1>4
    <3>2. RootsChange \notin program => root = old_children[k].root
      BY <1>8
    <3>. QED  BY <1>1, <1>2, <3>1, <3>2, MatchGivesRoot, Zenon
  <2>4. \A j \in Rest \ Rest' : old_children[j].key = children[end_index].key
    BY <1>1, <1>10 DEF Matches
  <2>5. reordered' \subseteq reordered \cup {children[end_index].key}
    BY <1>1
  <2>6. Learns(children, end_index, root, next_sibling, children')
    BY <1>8
  <2>7. /\ KeysDiffer(children) /\ KeysAreKnown /\ Reused /\ start_index <= end_index
        /\ Len(children) \in Nat /\ DOMAIN children = 1 .. Len(children)
        /\ old_children' = old_children /\ program' = program
    BY <1>1, <1>2, <1>4
  <2>. QED  BY <2>1, <2>2, <2>3, <2>4, <2>5, <2>6, <2>7,
             SyncKeepsKeys
<1>14. TypeOK'
  <2>1. /\ start_index' \in Nat \ {0} /\ end_index' \in Nat
        /\ old_start_index' \in Nat \ {0} /\ old_end_index' \in Nat /\ next_sibling' \in Nat
    <3>1. \A n \in Nat : 1 <= n => n - 1 \in Nat
      OBVIOUS
    <3>2. start_index' \in Nat \ {0} /\ old_start_index' \in Nat \ {0}
      BY <1>1, <1>3
    <3>3. next_sibling' \in Nat
      BY <1>1, <1>8, <1>9
    <3>. QED  BY <1>1, <1>4, <3>1, <3>2, <3>3
  <2>. QED  BY <1>1, <1>9, <1>11, <2>1, StepIsTyped
<1>15. NextSibling'
  <2>1. end_index' # Len(children') /\ end_index' + 1 = end_index
    BY <1>1, <1>4, <1>9
  <2>. QED  BY <1>1, <1>3, <2>1 DEF NextSibling
<1>16. Places'
  <2>1. \A n, l \in Nat : 1 <= n /\ n <= l =>
            /\ 1 <= n - 1 + 1 /\ n - 1 <= l
            /\ 1 <= n - 1 => 1 \in (1 .. n) \ {n}
    OBVIOUS
  <2>2. /\ 1 <= k - 1 + 1 /\ k - 1 <= Len(old_children)
        /\ 1 <= k - 1 => 1 \in (1 .. k) \ {k}
    BY <1>4, <2>1, Zenon
  <2>3. /\ old_start_index' = 1 /\ old_end_index' = k - 1 /\ Rest' = (1 .. k) \ {k}
        /\ reordered' = {} /\ old_children' = old_children
    BY <1>1, <1>3, <1>5, <1>10
  <2>. QED  BY <2>2, <2>3, Zenon DEF Places
<1>17. SyncInv'
  BY <1>1, <1>2, <1>10, <1>11, <1>12, <1>13, <1>15, <1>16 DEF SyncInv, Ended
<1>. QED  BY <1>14, <1>17 DEF IInv

(* The first child that is left is synced. *)
LEMMA ForwardKeeps ==
    ASSUME TypeOK, SyncInv, stage' = "forward",
           start_index <= end_index, start_index' = start_index + 1, end_index' = end_index,
           old_start_index' \in Nat \ {0}, old_end_index' = old_end_index,
           old_children' = old_children, program' = program,
           NEW root \in Nat, NEW next \in Nat, next_sibling' = next,
           Learns(children, start_index, root, next, children'),
           Shape(siblings', children', start_index + 1, end_index, old_children, Rest'),
           Slots(siblings', children', start_index + 1, end_index),
           At(siblings', start_index + 1) = next,
           Places',
           \A k \in Rest \ Rest' : old_children[k].key = children[start_index].key,
           reordered' \subseteq reordered \cup {children[start_index].key},
           program \subseteq {KeysChangeType} =>
               \A j \in DOMAIN old_children :
                   (/\ children[start_index].key = old_children[j].key
                    /\ children[start_index].type = old_children[j].type
                    /\ children[start_index].key # NoKey)
                       => root = old_children[j].root
    PROVE  IInv'
<1>1. /\ KeysDiffer(children) /\ KeysDiffer(old_children) /\ KeysAreKnown /\ Reused
      /\ Shape(siblings, children, start_index, end_index, old_children, Rest)
  BY DEF SyncInv
<1>2. /\ Synced \subseteq DOMAIN children
      /\ DOMAIN children = 1 .. Len(children) /\ Len(children) \in Nat
      /\ start_index \in 1 .. Len(children) /\ start_index \notin Synced
  BY <1>1, SyncedAreChildren
<1>3. Len(children') = Len(children)
  BY DEF Learns, NewRoot
<1>4. start_index \in Nat \ {0} /\ end_index \in Nat /\ old_end_index \in Nat
  BY DEF TypeOK
<1>5. Synced' = Synced \cup {start_index}
  <2>1. 1 .. (start_index + 1) - 1 = (1 .. start_index - 1) \cup {start_index}
    BY <1>4
  <2>. QED  BY <1>3, <2>1 DEF Synced
<1>6. KeysDiffer(children') /\ KeysAreKnown' /\ Reused'
  BY <1>1, <1>2, <1>5, SyncKeepsKeys
<1>7. TypeOK'
  <2>1. start_index' \in Nat \ {0} /\ end_index' \in Nat /\ old_end_index' \in Nat
    BY <1>4
  <2>. QED  BY <1>3, <2>1, StepIsTyped
<1>8. NextSibling'
  BY DEF NextSibling
<1>9. SyncInv'
  BY <1>1, <1>6, <1>8 DEF SyncInv, Ended
<1>. QED  BY <1>7, <1>9 DEF IInv

(* It is synced with an old one, whose root comes to the front. *)
LEMMA ForwardTakes ==
    ASSUME TypeOK, SyncInv, stage' = "forward",
           start_index <= end_index, start_index' = start_index + 1, end_index' = end_index,
           old_start_index' \in Nat \ {0}, old_end_index' = old_end_index,
           old_children' = old_children, program' = program,
           NEW k \in Rest, NEW p \in 1 .. Len(siblings), start_index <= p,
           siblings[p] = old_children[k].root,
           NEW list, Takes(siblings, start_index, p, siblings[p], list),
           NEW next \in Nat, next = NextTo(siblings, start_index, p), next_sibling' = next,
           Sync(start_index, k, list, next),
           Places', Rest' = Rest \ {k},
           old_children[k].key = children[start_index].key,
           reordered' \subseteq reordered \cup {children[start_index].key}
    PROVE  IInv'
<1>1. /\ KeysDiffer(old_children)
      /\ Shape(siblings, children, start_index, end_index, old_children, Rest)
      /\ Slots(siblings, children, start_index, end_index)
  BY DEF SyncInv
<1>2. /\ start_index \in 1 .. Len(children) /\ start_index \in 1 .. p /\ start_index \in Int
      /\ k \in 1 .. Len(old_children) /\ DOMAIN old_children = 1 .. Len(old_children)
  <2>1. start_index \in 1 .. Len(children)
    BY <1>1, SyncedAreChildren
  <2>2. k \in DOMAIN old_children
    BY <1>1 DEF Shape
  <2>3. DOMAIN old_children = 1 .. Len(old_children)
    BY <1>1, PlacesOfShape
  <2>. QED  BY <2>1, <2>2, <2>3
<1>3. PICK root \in Nat :
          /\ Learns(children, start_index, root, next, children')
          /\ Takes(siblings, start_index, p, root, siblings')
          /\ root = siblings[p] \/ IsNew(root, siblings, children)
          /\ Matches(children[start_index], old_children[k]) /\ RootsChange \notin program
                 => root = old_children[k].root
  BY <1>1, <1>2, SyncTakes
<1>4. /\ NewRoot(children, start_index, root, children') /\ Len(children') = Len(children)
      /\ SyncsSlots(children, start_index, root, next, children')
  BY <1>3 DEF Learns, NewRoot
<1>5. p \in start_index .. Len(siblings) - (Len(children) - end_index)
  <2> DEFINE z == Len(siblings) - (Len(children) - end_index)
  <2>1. Holds(siblings, start_index, z, old_children, Rest)
    BY <1>1, ShapeIs
  <2>2. z <= Len(siblings) /\ z \in Int
    <3>1. /\ Len(siblings) \in Nat /\ Len(children) \in Nat /\ end_index \in Int
          /\ end_index <= Len(children)
      BY <1>1, PlacesOfShape
    <3>. QED  BY <3>1
  <2> HIDE DEF z
  <2>3. PICK i \in start_index .. z : siblings[i] = old_children[k].root
    BY <2>1 DEF Holds
  <2>4. i \in 1 .. Len(siblings)
    BY <1>2, <2>2, <2>3
  <2>5. i = p
    BY <1>1, <2>3, <2>4, ShapeIs
  <2>. QED  BY <2>3, <2>5 DEF z
<1>6. root = siblings[p] \/ \A i \in 1 .. Len(siblings) : siblings[i] # root
  BY <1>3 DEF IsNew
<1>7. Shape(siblings', children', start_index + 1, end_index, old_children, Rest')
  BY <1>1, <1>3, <1>4, <1>5, <1>6, TakeKeepsShape
<1>8. At(siblings', start_index + 1) = next
  <2>1. siblings \in Seq(Nat \ {0}) /\ Differ(siblings)
    BY <1>1 DEF Shape
  <2>. QED  BY <1>2, <1>3, <1>6, <2>1, TakesIsTyped
<1>9. Slots(siblings', children', start_index + 1, end_index)
  BY <1>1, <1>3, <1>4, <1>5, <1>7, <1>8, TakeKeepsSlots
<1>10. \A j \in Rest \ Rest' : old_children[j].key = children[start_index].key
  OBVIOUS
<1>11. program \subseteq {KeysChangeType} =>
           \A j \in DOMAIN old_children :
               (/\ children[start_index].key = old_children[j].key
                /\ children[start_index].type = old_children[j].type
                /\ children[start_index].key # NoKey)
                   => root = old_children[j].root
  <2> SUFFICES ASSUME program \subseteq {KeysChangeType}, NEW j \in DOMAIN old_children,
                      children[start_index].key = old_children[j].key,
                      children[start_index].type = old_children[j].type,
                      children[start_index].key # NoKey
               PROVE  root = old_children[j].root
    OBVIOUS
  <2>1. j = k
    BY <1>1, <1>2 DEF KeysDiffer
  <2>2. Matches(children[start_index], old_children[k])
    BY <2>1 DEF Matches
  <2>3. RootsChange \notin program
    BY DEF RootsChange, KeysChangeType
  <2>. QED  BY <1>3, <2>1, <2>2, <2>3
<1>. QED  BY <1>3, <1>7, <1>8, <1>9, <1>10, <1>11, ForwardKeeps

(* There is no old child to sync it with, and it gets a new root. *)
LEMMA ForwardInserts ==
    ASSUME TypeOK, SyncInv, stage = "forward", stage' = "forward",
           start_index <= end_index, start_index' = start_index + 1, end_index' = end_index,
           old_start_index' = old_start_index, old_end_index' = old_end_index,
           old_children' = old_children, program' = program, reordered' = reordered,
           next_sibling' = next_sibling,
           Sync(start_index, Null, siblings, next_sibling),
           \A j \in Rest : old_children[j].key = NoKey
                               \/ old_children[j].key # children[start_index].key
    PROVE  IInv'
<1>1. /\ KeysDiffer(children) /\ KeysAreKnown
      /\ Shape(siblings, children, start_index, end_index, old_children, Rest)
      /\ Slots(siblings, children, start_index, end_index) /\ Places
      /\ next_sibling = At(siblings, start_index)
  BY DEF SyncInv, NextSibling
<1>2. start_index \in 1 .. Len(siblings) + 1
  <2>1. /\ Len(siblings) \in Nat /\ Len(children) \in Nat
        /\ start_index \in Int /\ end_index \in Int
        /\ 1 <= start_index /\ end_index <= Len(children)
        /\ start_index - 1 + (Len(children) - end_index) <= Len(siblings)
    BY <1>1, PlacesOfShape
  <2>2. \A n, m \in Nat, a, b \in Int :
            1 <= a /\ b <= m /\ a - 1 + (m - b) <= n => a \in 1 .. n + 1
    OBVIOUS
  <2>. QED  BY <2>1, <2>2
<1>3. /\ start_index \in 1 .. Len(children) /\ start_index \notin Synced
      /\ Synced \subseteq DOMAIN children /\ DOMAIN children = 1 .. Len(children)
  BY <1>1, SyncedAreChildren
<1>4. next_sibling \in Nat /\ old_start_index \in Nat \ {0}
  BY DEF TypeOK
<1>5. PICK root \in Nat :
          /\ Learns(children, start_index, root, next_sibling, children')
          /\ siblings' \in Seq(Nat \ {0}) /\ Inserts(siblings, start_index, root, siblings')
          /\ At(siblings', start_index + 1) = next_sibling
          /\ IsNew(root, siblings, children)
  BY <1>1, <1>2, <1>3, <1>4, SyncInserts
<1>6. /\ NewRoot(children, start_index, root, children') /\ Len(children') = Len(children)
      /\ SyncsSlots(children, start_index, root, next_sibling, children')
  BY <1>5 DEF Learns, NewRoot
<1>7. Rest' = Rest /\ Places'
  <2>1. Rest' = Rest
    BY DEF Rest
  <2>. QED  BY <1>1, <2>1 DEF Places
<1>8. Shape(siblings', children', start_index + 1, end_index, old_children, Rest')
  <2>1. \A i \in 1 .. Len(siblings) : siblings[i] # root
    BY <1>5 DEF IsNew
  <2>2. Shape(siblings', children', start_index + 1, end_index, old_children, Rest)
    BY <1>1, <1>5, <1>6, <2>1, InsertKeepsShape
  <2>. QED  BY <1>7, <2>2
<1>9. Slots(siblings', children', start_index + 1, end_index)
  BY <1>1, <1>5, <1>6, <1>8, InsertKeepsSlots
<1>10. \A j \in Rest \ Rest' : old_children[j].key = children[start_index].key
  BY <1>7
<1>11. program \subseteq {KeysChangeType} =>
           \A j \in DOMAIN old_children :
               (/\ children[start_index].key = old_children[j].key
                /\ children[start_index].type = old_children[j].type
                /\ children[start_index].key # NoKey)
                   => root = old_children[j].root
  <2> SUFFICES ASSUME NEW j \in DOMAIN old_children,
                      children[start_index].key = old_children[j].key,
                      children[start_index].key # NoKey
               PROVE  FALSE
    OBVIOUS
  <2>1. j \notin Rest
    OBVIOUS
  <2>2. \A i \in DOMAIN old_children \ Rest :
            old_children[i].key # children[start_index].key
    BY <1>1, <1>3, KeyIsNotKnown
  <2>. QED  BY <2>1, <2>2
<1>12. /\ old_start_index' \in Nat \ {0}
       /\ reordered' \subseteq reordered \cup {children[start_index].key}
  BY <1>4
<1>. QED  BY <1>4, <1>5, <1>7, <1>8, <1>9, <1>10, <1>11, <1>12, ForwardKeeps

(* The first old child whose turn is to come, and the first sibling behind the children. *)
LEMMA OldStartIsFirst ==
    ASSUME TypeOK, SyncInv, old_start_index <= old_end_index
    PROVE  /\ old_start_index \in Rest /\ old_start_index \in 1 .. Len(old_children)
           /\ start_index \in 1 .. Len(siblings)
           /\ start_index <= Len(siblings) - (Len(children) - end_index)
           /\ siblings[start_index] = old_children[old_start_index].root
<1>1. /\ Shape(siblings, children, start_index, end_index, old_children, Rest)
      /\ old_start_index \in Rest
  BY DEF SyncInv, Places
<1>2. \A l \in Rest : old_start_index <= l
  <2>1. old_start_index \in Nat /\ old_end_index \in Nat
    BY DEF TypeOK
  <2>. QED  BY <2>1 DEF Rest
<1>3. /\ start_index <= Len(siblings) - (Len(children) - end_index)
      /\ siblings[start_index] = old_children[old_start_index].root
  BY <1>1, <1>2, FirstOfRest
<1>4. start_index \in 1 .. Len(siblings)
  <2>1. /\ Len(siblings) \in Nat /\ Len(children) \in Nat
        /\ start_index \in Int /\ end_index \in Int /\ 1 <= start_index
        /\ end_index <= Len(children)
    BY <1>1, PlacesOfShape
  <2>2. \A n, m \in Nat, a, b \in Int :
            1 <= a /\ b <= m /\ a <= n - (m - b) => a \in 1 .. n
    OBVIOUS
  <2>. QED  BY <1>3, <2>1, <2>2
<1>5. old_start_index \in 1 .. Len(old_children)
  <2>1. old_start_index \in DOMAIN old_children
    BY <1>1 DEF Shape
  <2>. QED  BY <1>1, <2>1, PlacesOfShape
<1>. QED  BY <1>1, <1>3, <1>4, <1>5

(* What AdvanceOldStart leaves of the rest. *)
LEMMA AdvanceKeepsPlaces ==
    ASSUME TypeOK, SyncInv, old_start_index <= old_end_index,
           old_start_index' = AdvanceOldStart(reordered), old_end_index' = old_end_index,
           old_children' = old_children, reordered' = reordered
    PROVE  /\ Rest' = Rest \ {old_start_index} /\ Places' /\ old_start_index' \in Nat \ {0}
<1> DEFINE n == AdvanceOldStart(reordered)
<1>1. old_start_index \in 1 .. Len(old_children)
  BY OldStartIsFirst
<1>2. /\ n \in Nat \ {0} /\ n <= old_end_index + 1
      /\ n <= old_end_index => old_children[n].key \notin reordered
      /\ {j \in n .. old_end_index : old_children[j].key \notin reordered}
             = Rest \ {old_start_index}
  BY <1>1, NextOldChild
<1> HIDE DEF n
<1>3. Rest' = {j \in n .. old_end_index : old_children[j].key \notin reordered}
  BY DEF Rest, n
<1>4. n <= old_end_index => n \in Rest'
  <2>1. old_end_index \in Nat
    BY DEF TypeOK
  <2>. QED  BY <1>2, <1>3, <2>1
<1>5. NoKey \notin reordered /\ old_end_index <= Len(old_children)
  BY DEF SyncInv, Places
<1>. QED  BY <1>2, <1>3, <1>4, <1>5 DEF Places, n

LEMMA ScanForwardKeeps ==
    ASSUME IInv, ScanForward
    PROVE  IInv'
<1> DEFINE k == old_start_index
           next == At(siblings, start_index + 1)
<1>1. /\ TypeOK /\ SyncInv /\ stage = "forward" /\ stage' = "forward"
      /\ start_index <= end_index /\ old_start_index <= old_end_index
      /\ Matches(children[start_index], old_children[k])
      /\ next_sibling' = ChildAfter(next_sibling)
      /\ Sync(start_index, k, siblings, next_sibling')
      /\ start_index' = start_index + 1 /\ old_start_index' = AdvanceOldStart(reordered)
      /\ old_children' = old_children /\ end_index' = end_index
      /\ old_end_index' = old_end_index /\ reordered' = reordered /\ program' = program
  BY DEF IInv, ScanForward, BothLeft
<1>2. /\ k \in Rest /\ start_index \in 1 .. Len(siblings)
      /\ siblings[start_index] = old_children[k].root
  BY <1>1, OldStartIsFirst
<1>3. /\ siblings \in Seq(Nat \ {0}) /\ Differ(siblings)
      /\ next_sibling = siblings[start_index]
  <2>1. siblings \in Seq(Nat \ {0}) /\ Differ(siblings)
    BY <1>1 DEF SyncInv, Shape
  <2>2. next_sibling = At(siblings, start_index)
    BY <1>1 DEF SyncInv, NextSibling
  <2>3. ~(start_index > Len(siblings))
    BY <1>2, <2>1
  <2>. QED  BY <2>1, <2>2, <2>3 DEF At
<1>4. next_sibling' = next /\ next \in Nat
  <2>1. Position(siblings, siblings[start_index]) = start_index
    BY <1>2, <1>3, PositionIs
  <2>2. next_sibling' = IF start_index = Len(siblings) THEN Null ELSE siblings[start_index + 1]
    BY <1>1, <1>3, <2>1 DEF ChildAfter
  <2>3. CASE start_index = Len(siblings)
    <3>1. start_index + 1 > Len(siblings)
      BY <1>2, <1>3, <2>3
    <3>. QED  BY <2>2, <2>3, <3>1 DEF At, Null
  <2>4. CASE start_index # Len(siblings)
    <3>1. start_index + 1 \in 1 .. Len(siblings) /\ ~(start_index + 1 > Len(siblings))
      BY <1>2, <1>3, <2>4
    <3>2. siblings[start_index + 1] \in Nat
      BY <1>3, <3>1
    <3>. QED  BY <2>2, <2>4, <3>1, <3>2 DEF At
  <2>. QED  BY <2>3, <2>4
<1>5. /\ NextTo(siblings, start_index, start_index) = next
      /\ Takes(siblings, start_index, start_index, siblings[start_index], siblings)
      /\ start_index <= start_index
  <2>1. Takes(siblings, start_index, start_index, siblings[start_index], siblings)
    BY <1>2, <1>3, TakesItself
  <2>2. start_index \in Int
    BY <1>2
  <2>. QED  BY <2>1, <2>2 DEF NextTo
<1>6. Sync(start_index, k, siblings, next)
  <2> HIDE DEF next
  <2>. QED  BY <1>1, <1>4
<1>7. Rest' = Rest \ {k} /\ Places' /\ old_start_index' \in Nat \ {0}
  BY <1>1, AdvanceKeepsPlaces
<1>8. /\ old_children[k].key = children[start_index].key
      /\ reordered' \subseteq reordered \cup {children[start_index].key}
  BY <1>1 DEF Matches
<1> HIDE DEF next
<1>. QED  BY <1>1, <1>2, <1>4, <1>5, <1>6, <1>7, <1>8, ForwardTakes

(* An old child with the key of the first child that is left. *)
LEMMA FoundIsInRest ==
    ASSUME TypeOK, SyncInv, start_index <= end_index, NEW n \in Found(children[start_index])
    PROVE  /\ n \in Rest
           /\ \A k \in Rest : old_children[k].key = children[start_index].key => k = n
<1>1. /\ n \in 1 .. old_end_index /\ children[start_index].key # NoKey
      /\ old_children[n].key = children[start_index].key
      /\ children[start_index].key \notin reordered
  BY DEF Found
<1>2. /\ KeysDiffer(children) /\ KeysDiffer(old_children) /\ KeysAreKnown
      /\ Shape(siblings, children, start_index, end_index, old_children, Rest)
      /\ old_end_index <= Len(old_children)
  BY DEF SyncInv, Places
<1>3. /\ start_index \in DOMAIN children /\ start_index \notin Synced
      /\ Synced \subseteq DOMAIN children
  BY <1>2, SyncedAreChildren
<1>4. /\ DOMAIN old_children = 1 .. Len(old_children) /\ Len(old_children) \in Nat
      /\ Rest \subseteq DOMAIN old_children
  BY <1>2, PlacesOfShape DEF Shape
<1>5. n \in DOMAIN old_children
  <2>1. old_end_index \in Nat
    BY DEF TypeOK
  <2>. QED  BY <1>1, <1>2, <1>4, <2>1
<1>6. n \in Rest
  BY <1>1, <1>2, <1>3, <1>5, KeyIsNotKnown
<1>7. \A k \in Rest : old_children[k].key = children[start_index].key => k = n
  BY <1>1, <1>2, <1>4, <1>5 DEF KeysDiffer
<1>. QED  BY <1>6, <1>7

LEMMA ReorderKeeps ==
    ASSUME IInv, Reorder
    PROVE  IInv'
<1>1. /\ TypeOK /\ SyncInv /\ stage = "forward" /\ stage' = "forward"
      /\ start_index <= end_index /\ old_start_index <= old_end_index
      /\ start_index' = start_index + 1
      /\ old_children' = old_children /\ end_index' = end_index
      /\ old_start_index' = old_start_index /\ old_end_index' = old_end_index
      /\ next_sibling' = next_sibling /\ program' = program
  BY DEF IInv, Reorder, BothLeft
<1>2. CASE /\ Found(children[start_index]) = {}
           /\ Sync(start_index, Null, siblings, next_sibling)
           /\ reordered' = reordered
  <2>1. ASSUME NEW j \in Rest, old_children[j].key # NoKey,
               old_children[j].key = children[start_index].key
        PROVE  FALSE
    <3>1. old_start_index \in Nat \ {0} /\ old_end_index \in Nat
      BY <1>1 DEF TypeOK
    <3>2. j \in 1 .. old_end_index /\ old_children[j].key \notin reordered
      BY <3>1 DEF Rest
    <3>3. j \in Found(children[start_index])
      BY <2>1, <3>2 DEF Found
    <3>. QED  BY <1>2, <3>3
  <2>. QED  BY <1>1, <1>2, <2>1, ForwardInserts
<1>3. ASSUME NEW n \in Found(children[start_index]),
             old_children[n].root # next_sibling,
             Sync(start_index, n,
                  Before(Without(siblings, old_children[n].root), old_children[n].root,
                         next_sibling),
                  next_sibling),
             reordered' = reordered \cup {children[start_index].key}
      PROVE  IInv'
  <2>1. /\ n \in Rest
        /\ \A k \in Rest : old_children[k].key = children[start_index].key => k = n
    BY <1>1, FoundIsInRest
  <2>2. /\ children[start_index].key # NoKey
        /\ old_children[n].key = children[start_index].key
    BY DEF Found
  <2>3. /\ old_start_index \in Rest /\ start_index \in 1 .. Len(siblings)
        /\ siblings[start_index] = old_children[old_start_index].root
    BY <1>1, OldStartIsFirst
  <2>4. /\ siblings \in Seq(Nat \ {0}) /\ Differ(siblings)
        /\ Shape(siblings, children, start_index, end_index, old_children, Rest)
        /\ Len(siblings) \in Nat
    BY <1>1 DEF SyncInv, Shape
  <2>5. next_sibling = siblings[start_index] /\ next_sibling \in Nat
    <3>1. next_sibling = At(siblings, start_index)
      BY <1>1 DEF SyncInv, NextSibling
    <3>2. ~(start_index > Len(siblings))
      BY <2>3, <2>4
    <3>. QED  BY <1>1, <3>1, <3>2 DEF At, TypeOK
  <2>6. PICK p \in 1 .. Len(siblings) : start_index < p /\ siblings[p] = old_children[n].root
    <3> DEFINE z == Len(siblings) - (Len(children) - end_index)
    <3>1. Holds(siblings, start_index, z, old_children, Rest)
      BY <2>4, ShapeIs
    <3>2. z \in Int /\ z <= Len(siblings)
      <4>1. Len(children) \in Nat /\ end_index \in Int /\ end_index <= Len(children)
        BY <2>4, PlacesOfShape
      <4>. QED  BY <2>4, <4>1
    <3> HIDE DEF z
    <3>3. PICK p \in start_index .. z : siblings[p] = old_children[n].root
      BY <2>1, <3>1 DEF Holds
    <3>4. p # start_index
      BY <1>3, <2>5, <3>3
    <3>5. p \in 1 .. Len(siblings) /\ start_index < p
      BY <2>3, <2>4, <3>2, <3>3, <3>4
    <3>. QED  BY <3>3, <3>5
  <2> DEFINE list == Before(Without(siblings, siblings[p]), siblings[p], next_sibling)
  <2>7. next_sibling = NextTo(siblings, start_index, p) /\ start_index \in 1 .. p
    <3>1. start_index # p /\ start_index \in 1 .. p
      BY <2>3, <2>6
    <3>. QED  BY <2>5, <3>1 DEF NextTo
  <2>8. Takes(siblings, start_index, p, siblings[p], list)
    <3>1. siblings[p] \in Nat \ {0}
      BY <2>4
    <3>. QED  BY <2>4, <2>7, <3>1, PutsInPlace
  <2>9. Sync(start_index, n, list, next_sibling)
    BY <1>3, <2>6
  <2> HIDE DEF list
  <2>10. Rest' = Rest \ {n}
    BY <1>1, <1>3, <2>1, <2>2 DEF Rest
  <2>11. Places'
    <3>1. old_start_index # n
      BY <1>3, <2>3, <2>5
    <3>2. old_start_index' \in Rest'
      BY <1>1, <2>3, <2>10, <3>1
    <3>3. /\ NoKey \notin reordered' /\ old_start_index <= old_end_index + 1
          /\ old_end_index <= Len(old_children)
      BY <1>1, <1>3, <2>2 DEF SyncInv, Places
    <3>. QED  BY <1>1, <3>2, <3>3 DEF Places
  <2>12. old_start_index' \in Nat \ {0} /\ start_index <= p
    BY <1>1, <2>7 DEF TypeOK
  <2>13. reordered' \subseteq reordered \cup {children[start_index].key}
    BY <1>3
  <2>. QED  BY <1>1, <2>1, <2>2, <2>5, <2>6, <2>7, <2>8, <2>9, <2>10, <2>11, <2>12, <2>13,
               ForwardTakes
<1>. QED  BY <1>2, <1>3 DEF Reorder

LEMMA InsertKeeps ==
    ASSUME IInv, Insert
    PROVE  IInv'
<1>1. /\ TypeOK /\ SyncInv /\ stage = "forward" /\ stage' = "forward"
      /\ start_index <= end_index /\ old_start_index > old_end_index
      /\ start_index' = start_index + 1
      /\ old_children' = old_children /\ end_index' = end_index
      /\ old_start_index' = old_start_index /\ old_end_index' = old_end_index
      /\ next_sibling' = next_sibling /\ program' = program /\ reordered' = reordered
      /\ Sync(start_index, Null, siblings, next_sibling)
  BY DEF IInv, Insert
<1>2. Rest = {}
  <2>1. old_start_index \in Nat /\ old_end_index \in Nat
    BY <1>1 DEF TypeOK
  <2>. QED  BY <1>1, <2>1 DEF Rest
<1>. QED  BY <1>1, <1>2, ForwardInserts

LEMMA RemovalsKeep ==
    ASSUME IInv, Removals
    PROVE  IInv'
<1> DEFINE k == old_start_index
<1>1. /\ TypeOK /\ SyncInv /\ stage = "forward" /\ stage' = "forward"
      /\ start_index > end_index /\ old_start_index <= old_end_index
      /\ siblings' = Without(siblings, old_children[k].root)
      /\ old_start_index' = AdvanceOldStart(reordered)
      /\ children' = children /\ old_children' = old_children
      /\ start_index' = start_index /\ end_index' = end_index
      /\ old_end_index' = old_end_index /\ next_sibling' = next_sibling
      /\ reordered' = reordered /\ program' = program
  BY DEF IInv, Removals
<1>2. /\ k \in Rest /\ start_index \in 1 .. Len(siblings)
      /\ start_index <= Len(siblings) - (Len(children) - end_index)
      /\ siblings[start_index] = old_children[k].root
  BY <1>1, OldStartIsFirst
<1>3. /\ Shape(siblings, children, start_index, end_index, old_children, Rest)
      /\ Slots(siblings, children, start_index, end_index)
      /\ siblings \in Seq(Nat \ {0}) /\ Differ(siblings)
  BY <1>1 DEF SyncInv, Shape
<1>4. siblings' \in Seq(Nat \ {0}) /\ Removes(siblings, start_index, siblings')
  <2>1. siblings' = Without(siblings, siblings[start_index])
    BY <1>1, <1>2
  <2>. QED  BY <1>2, <1>3, <2>1, WithoutRemoves
<1>5. Rest' = Rest \ {k} /\ Places' /\ old_start_index' \in Nat \ {0}
  BY <1>1, AdvanceKeepsPlaces
<1>6. Shape(siblings', children, start_index, end_index, old_children, Rest \ {k})
  BY <1>2, <1>3, <1>4, RemoveKeepsShape
<1>7. Slots(siblings', children, start_index, end_index)
  BY <1>2, <1>3, <1>4, RemoveKeepsSlots
<1>8. TypeOK'
  BY <1>1, <1>4, <1>5 DEF TypeOK
<1>9. ~(start_index <= end_index)
  <2>1. start_index \in Nat /\ end_index \in Nat
    BY <1>1 DEF TypeOK
  <2>. QED  BY <1>1, <2>1
<1>10. Synced' = Synced
  BY <1>1 DEF Synced
<1>11. NextSibling' /\ KeysAreKnown' /\ Reused' /\ Ended'
  <2>1. NextSibling' /\ Ended'
    BY <1>1, <1>9 DEF NextSibling, Ended
  <2>2. KeysAreKnown'
    BY <1>1, <1>9, <1>10 DEF KeysAreKnown, SyncInv
  <2>3. Reused'
    BY <1>1, <1>10 DEF Reused, SyncInv
  <2>. QED  BY <2>1, <2>2, <2>3
<1>12. SyncInv'
  BY <1>1, <1>5, <1>6, <1>7, <1>11 DEF SyncInv
<1>. QED  BY <1>8, <1>12 DEF IInv

LEMMA EndSyncKeeps ==
    ASSUME IInv, EndSync
    PROVE  IInv'
<1>1. /\ TypeOK /\ SyncInv /\ stage = "forward" /\ stage' = "idle"
      /\ start_index > end_index /\ old_start_index > old_end_index
      /\ UNCHANGED <<children, siblings, old_children, indices, program>>
  BY DEF IInv, EndSync
<1>2. /\ start_index' = start_index /\ end_index' = end_index /\ next_sibling' = next_sibling
      /\ old_start_index' = old_start_index /\ old_end_index' = old_end_index
      /\ reordered' = reordered /\ children' = children /\ siblings' = siblings
      /\ old_children' = old_children /\ program' = program
  BY <1>1 DEF indices
<1>3. TypeOK'
  BY <1>1, <1>2 DEF TypeOK
<1>4. Rest = {} /\ Rest' = Rest /\ Synced' = Synced
  <2>1. old_start_index \in Nat /\ old_end_index \in Nat
    BY <1>1 DEF TypeOK
  <2>. QED  BY <1>1, <1>2, <2>1 DEF Rest, Synced
<1>5. start_index = end_index + 1
  <2>1. start_index \in Int /\ end_index \in Int /\ start_index <= end_index + 1
    BY <1>1, PlacesOfShape DEF SyncInv
  <2>. QED  BY <1>1, <2>1
<1>6. NextSibling' /\ Ended'
  BY <1>1, <1>2, <1>4, <1>5 DEF NextSibling, Ended
<1>7. Places' /\ KeysAreKnown' /\ Reused'
  <2>1. Places /\ KeysAreKnown /\ Reused
    BY <1>1 DEF SyncInv
  <2>2. Places'
    BY <1>2, <1>4, <2>1 DEF Places
  <2>3. KeysAreKnown'
    BY <1>2, <1>4, <2>1 DEF KeysAreKnown
  <2>4. Reused'
    BY <1>2, <1>4, <2>1 DEF Reused
  <2>. QED  BY <2>2, <2>3, <2>4
<1>8. SyncInv'
  BY <1>1, <1>2, <1>4, <1>6, <1>7 DEF SyncInv
<1>. QED  BY <1>3, <1>8 DEF IInv

LEMMA TurnAroundKeeps ==
    ASSUME IInv, TurnAround
    PROVE  IInv'
<1>1. /\ TypeOK /\ SyncInv /\ stage = "backward" /\ stage' = "forward"
      /\ next_sibling' = IF siblings = <<>> THEN Null ELSE Head(siblings)
      /\ start_index' = start_index /\ end_index' = end_index
      /\ old_start_index' = old_start_index /\ old_end_index' = old_end_index
      /\ reordered' = reordered /\ children' = children /\ siblings' = siblings
      /\ old_children' = old_children /\ program' = program
  BY DEF IInv, TurnAround
<1>2. siblings \in Seq(Nat \ {0}) /\ start_index = 1
  BY <1>1 DEF TypeOK, SyncInv, NextSibling
<1>3. next_sibling' = At(siblings, start_index) /\ next_sibling' \in Nat
  <2>1. CASE siblings = <<>>
    BY <1>1, <1>2, <2>1 DEF At, Null
  <2>2. CASE siblings # <<>>
    <3>1. Len(siblings) >= 1 /\ Len(siblings) \in Nat /\ Head(siblings) = siblings[1]
      BY <1>2, <2>2
    <3>2. siblings[1] \in Nat
      BY <1>2, <3>1
    <3>. QED  BY <1>1, <1>2, <2>2, <3>1, <3>2 DEF At
  <2>. QED  BY <2>1, <2>2
<1>4. TypeOK'
  BY <1>1, <1>3 DEF TypeOK
<1>5. Rest' = Rest /\ Synced' = Synced
  BY <1>1 DEF Rest, Synced
<1>6. NextSibling' /\ Ended'
  BY <1>1, <1>3 DEF NextSibling, Ended
<1>7. Places' /\ KeysAreKnown' /\ Reused'
  <2>1. Places /\ KeysAreKnown /\ Reused
    BY <1>1 DEF SyncInv
  <2>2. Places'
    BY <1>1, <1>5, <2>1 DEF Places
  <2>3. KeysAreKnown'
    BY <1>1, <1>5, <2>1 DEF KeysAreKnown
  <2>4. Reused'
    BY <1>1, <1>5, <2>1 DEF Reused
  <2>. QED  BY <2>2, <2>3, <2>4
<1>8. SyncInv'
  BY <1>1, <1>5, <1>6, <1>7 DEF SyncInv
<1>. QED  BY <1>4, <1>8 DEF IInv

(* The children of a list of widgets. *)
LEMMA ListsAreTyped ==
    ASSUME NEW list \in Lists
    PROVE  /\ Len(list) \in Nat /\ Len(list) <= MaxChildren /\ DOMAIN list = 1 .. Len(list)
           /\ \A i \in DOMAIN list : list[i] \in Widgets
           /\ \A i, j \in DOMAIN list : list[i].key = list[j].key => i = j \/ list[i].key = NoKey
<1>1. PICK n \in 0 .. MaxChildren : list \in [1 .. n -> Widgets]
  BY DEF Lists
<1>2. Len(list) = n /\ n \in Nat /\ n <= MaxChildren
  BY <1>1
<1>. QED  BY <1>1, <1>2 DEF Lists

LEMMA StartSyncKeeps ==
    ASSUME IInv, NEW list \in Lists, StartSync(list)
    PROVE  IInv'
<1>1. /\ TypeOK /\ SyncInv /\ stage = "idle" /\ stage' = "backward"
      /\ old_children' = children
      /\ children' = [i \in DOMAIN list |->
                         [type |-> list[i].type, key |-> list[i].key,
                          root |-> Null, slot |-> Null]]
      /\ start_index' = 1 /\ end_index' = Len(list)
      /\ old_start_index' = 1 /\ old_end_index' = Len(children)
      /\ next_sibling' = Null /\ reordered' = {}
      /\ siblings' = siblings /\ program' = program
  BY DEF IInv, StartSync
<1>2. /\ Len(list) \in Nat /\ Len(list) <= MaxChildren /\ DOMAIN list = 1 .. Len(list)
      /\ \A i \in DOMAIN list : list[i] \in Widgets
      /\ \A i, j \in DOMAIN list : list[i].key = list[j].key => i = j \/ list[i].key = NoKey
  BY ListsAreTyped
<1>3. /\ children' \in Seq(Nodes) /\ Len(children') = Len(list)
      /\ DOMAIN children' = 1 .. Len(list)
      /\ \A i \in 1 .. Len(list) : children'[i].key = list[i].key
  <2>1. \A i \in 1 .. Len(list) : children'[i] \in Nodes
    BY <1>1, <1>2 DEF Nodes, Types, Keys, Null
  <2>2. children' \in [1 .. Len(list) -> Nodes]
    BY <1>1, <1>2, <2>1
  <2>. QED  BY <1>1, <1>2, <2>2
<1>4. /\ KeysDiffer(children) /\ KeysDiffer(children')
  BY <1>1, <1>2, <1>3 DEF SyncInv, KeysDiffer
<1>5. Rest' = 1 .. Len(children)
  BY <1>1 DEF Rest
<1>6. Shape(siblings', children', 1, Len(children'), children, 1 .. Len(children))
  <2>1. /\ start_index = end_index + 1
        /\ Shape(siblings, children, start_index, end_index, old_children, {})
    BY <1>1 DEF SyncInv, Ended
  <2>2. Shape(siblings, children', 1, Len(children'), children, 1 .. Len(children))
    BY <1>3, <2>1, NewShape
  <2>. QED  BY <1>1, <2>2
<1>7. 1 .. 1 - 1 = {} /\ Len(list) + 1 .. Len(list) = {}
  BY <1>2
<1>8. Slots(siblings', children', 1, Len(children'))
  BY <1>3, <1>7 DEF Slots
<1>9. Synced' = {}
  BY <1>1, <1>3, <1>7 DEF Synced
<1>10. /\ Len(children) \in Nat /\ Len(children) <= MaxChildren /\ children \in Seq(Nodes)
       /\ DOMAIN children = 1 .. Len(children)
  BY <1>1 DEF TypeOK
<1>11. TypeOK'
  BY <1>1, <1>2, <1>3, <1>10 DEF TypeOK, Null
<1>12. NextSibling' /\ Ended'
  BY <1>1, <1>3 DEF NextSibling, Ended
<1>13. Places'
  <2>1. 1 <= Len(children) + 1 /\ (1 <= Len(children) => 1 \in 1 .. Len(children))
    BY <1>10
  <2>2. Len(children) <= Len(children)
    BY <1>10
  <2>. QED  BY <1>1, <1>5, <2>1, <2>2 DEF Places
<1>14. KeysAreKnown' /\ Reused'
  <2>1. KeysAreKnown'
    BY <1>1, <1>5, <1>10 DEF KeysAreKnown
  <2>2. Reused'
    BY <1>9 DEF Reused
  <2>. QED  BY <2>1, <2>2
<1>15. SyncInv'
  BY <1>1, <1>3, <1>4, <1>5, <1>6, <1>8, <1>12, <1>13, <1>14 DEF SyncInv
<1>. QED  BY <1>11, <1>15 DEF IInv

LEMMA FailKeeps ==
    ASSUME IInv, Fail
    PROVE  IInv'
<1>1. /\ stage' = "failed" /\ TypeOK
      /\ UNCHANGED <<children, siblings, old_children, indices>>
  BY DEF IInv, Fail
<1>2. TypeOK'
  BY <1>1 DEF TypeOK, indices
<1>. QED  BY <1>1, <1>2 DEF IInv

LEMMA RebuildKeeps ==
    ASSUME IInv, NEW at \in DOMAIN children, Rebuild(at)
    PROVE  IInv'
<1> DEFINE o == NewObject
           slot == children[at].slot
           left == Without(siblings, children[at].root)
<1>1. TypeOK /\ SyncInv /\ stage = "idle" /\ RebuildsAlone \in program
  BY DEF IInv, Rebuild
<1>2. /\ start_index = end_index + 1 /\ Rest = {}
      /\ Shape(siblings, children, start_index, end_index, old_children, {})
      /\ Slots(siblings, children, start_index, end_index)
      /\ siblings \in Seq(Nat \ {0}) /\ Differ(siblings)
  BY <1>1 DEF SyncInv, Ended, Shape
<1>3. /\ Len(siblings) = Len(children)
      /\ \A i \in 1 .. Len(children) : siblings[i] = children[i].root
  BY <1>2, EndedShape, Zenon
<1>4. /\ Len(siblings) \in Nat /\ start_index \in Int /\ end_index \in Int
      /\ 1 <= start_index /\ end_index <= Len(children)
      /\ DOMAIN children = 1 .. Len(children) /\ children \in Seq(Nodes)
      /\ at \in 1 .. Len(siblings) /\ at \in 1 .. Len(children)
  <2>1. /\ Len(siblings) \in Nat /\ start_index \in Int /\ end_index \in Int
        /\ 1 <= start_index /\ end_index <= Len(children)
        /\ DOMAIN children = 1 .. Len(children)
    BY <1>2, PlacesOfShape
  <2>. QED  BY <1>1, <1>3, <2>1 DEF TypeOK
<1>5. o \in Nat \ {0} /\ IsNew(o, siblings, children)
  BY <1>1, <1>2, NewObjectIsNew
<1> HIDE DEF o
<1>6. CASE slot = Null \/ Contains(left, slot)
  <2>1. /\ siblings' = Before(left, o, slot)
        /\ children' = [children EXCEPT ![at].root = o]
        /\ UNCHANGED <<old_children, indices, stage, program>>
    BY <1>6 DEF Rebuild, o
  <2>2. /\ start_index' = start_index /\ end_index' = end_index /\ next_sibling' = next_sibling
        /\ old_start_index' = old_start_index /\ old_end_index' = old_end_index
        /\ reordered' = reordered /\ old_children' = old_children
        /\ program' = program /\ stage' = "idle"
    BY <1>1, <2>1 DEF indices
  <2>3. siblings[at] = children[at].root
    BY <1>3, <1>4
  <2>4. SlotIs(siblings, slot, at + 1)
    <3>1. at \in 1 .. start_index - 1
          \/ (at \in end_index + 1 .. Len(children)
                  /\ Len(siblings) - Len(children) + at + 1 = at + 1)
      BY <1>2, <1>3, <1>4
    <3>. QED  BY <1>2, <3>1 DEF Slots
  <2>5. slot = NextTo(siblings, at, at)
    <3>1. CASE slot = Null
      BY <2>4, <3>1 DEF SlotIs, NextTo, At
    <3>2. CASE slot # Null /\ Contains(left, slot)
      <4>1. left \in Seq(Nat \ {0}) /\ Removes(siblings, at, left)
        BY <1>2, <1>4, <2>3, WithoutRemoves
      <4>2. PICK i \in 1 .. Len(left) : left[i] = slot
        BY <3>2, <4>1 DEF Contains
      <4>3. \E j \in 1 .. Len(siblings) : j # at /\ siblings[j] = slot
        <5>1. /\ Len(left) = Len(siblings) - 1
              /\ left[i] = IF i < at THEN siblings[i] ELSE siblings[i + 1]
          BY <4>1, <4>2 DEF Removes
        <5>2. CASE i < at
          BY <1>4, <4>2, <5>1, <5>2
        <5>3. CASE ~(i < at)
          <6>1. i + 1 \in 1 .. Len(siblings) /\ i + 1 # at
            BY <1>4, <4>2, <5>1, <5>3
          <6>. QED  BY <4>2, <5>1, <5>3, <6>1
        <5>. QED  BY <5>2, <5>3
      <4>4. at + 1 \in 1 .. Len(siblings) /\ siblings[at + 1] = slot
        BY <2>4, <4>3 DEF SlotIs
      <4>5. ~(at + 1 > Len(siblings))
        BY <1>4, <4>4
      <4>. QED  BY <4>4, <4>5 DEF NextTo, At
    <3>. QED  BY <1>6, <3>1, <3>2
  <2>6. Takes(siblings, at, at, o, siblings')
    <3>1. at \in 1 .. at
      BY <1>4
    <3>2. Takes(siblings, at, at, o, Before(Without(siblings, siblings[at]), o,
                                            NextTo(siblings, at, at)))
      BY <1>2, <1>4, <1>5, <3>1, PutsInPlace
    <3>. QED  BY <2>1, <2>3, <2>5, <3>2
  <2>7. /\ children' \in Seq(Nodes) /\ Len(children') = Len(children)
        /\ DOMAIN children' = 1 .. Len(children)
        /\ \A i \in 1 .. Len(children) :
               /\ children'[i].key = children[i].key /\ children'[i].type = children[i].type
               /\ children'[i].slot = children[i].slot
               /\ children'[i].root = IF i = at THEN o ELSE children[i].root
    <3>1. \A i \in 1 .. Len(children) : children[i] \in Nodes
      BY <1>4
    <3>2. ASSUME NEW i \in 1 .. Len(children)
          PROVE  /\ children'[i] \in Nodes
                 /\ children'[i].key = children[i].key /\ children'[i].type = children[i].type
                 /\ children'[i].slot = children[i].slot
                 /\ children'[i].root = IF i = at THEN o ELSE children[i].root
      <4>1. CASE i = at
        <5>1. children'[i] = [children[i] EXCEPT !.root = o]
          BY <1>4, <2>1, <4>1
        <5>. QED  BY <1>5, <3>1, <4>1, <5>1 DEF Nodes
      <4>2. CASE i # at
        <5>1. children'[i] = children[i]
          BY <1>4, <2>1, <4>2
        <5>. QED  BY <3>1, <4>2, <5>1
      <4>. QED  BY <4>1, <4>2
    <3>3. DOMAIN children' = 1 .. Len(children)
      BY <1>4, <2>1
    <3>4. children' \in [1 .. Len(children) -> Nodes]
      BY <1>4, <2>1, <3>2
    <3>5. Len(children) \in Nat
      BY <1>3, <1>4
    <3>. QED  BY <3>2, <3>3, <3>4, <3>5
  <2>8. NewRoot(children, at, o, children')
    BY <1>4, <2>7 DEF NewRoot
  <2>9. \A i \in 1 .. Len(siblings) : siblings[i] # o
    BY <1>5 DEF IsNew
  <2>10. Shape(siblings', children', start_index, end_index, old_children, {})
    BY <1>2, <1>4, <2>6, <2>8, <2>9, ReplaceKeepsShape
  <2>11. Slots(siblings', children', start_index, end_index)
    BY <1>2, <1>3, <1>4, <1>5, <2>6, <2>7, ReplaceKeepsSlots
  <2>12. Rest' = Rest /\ Synced' = Synced
    BY <2>2, <2>7 DEF Rest, Synced
  <2>13. TypeOK'
    <3>1. siblings' \in Seq(Nat \ {0})
      BY <2>10 DEF Shape
    <3>. QED  BY <1>1, <2>2, <2>7, <3>1 DEF TypeOK
  <2>14. NextSibling' /\ Places' /\ Ended'
    <3>1. Places /\ Ended
      BY <1>1 DEF SyncInv
    <3>2. Places'
      BY <2>2, <2>12, <3>1 DEF Places
    <3>. QED  BY <1>2, <2>2, <2>12, <3>2 DEF NextSibling, Ended
  <2>15. KeysDiffer(children')
    BY <1>1, <1>4, <2>7 DEF SyncInv, KeysDiffer
  <2>16. KeysAreKnown'
    <3>1. ~(start_index <= end_index)
      BY <1>2, <1>4
    <3>2. Synced \subseteq 1 .. Len(children)
      BY <1>2, <1>4, SyncedAreChildren
    <3>3. ASSUME NEW key \in reordered PROVE \E i \in Synced : children'[i].key = key
      <4>1. PICK i \in Synced : children[i].key = key
        BY <1>1 DEF SyncInv, KeysAreKnown
      <4>. QED  BY <2>7, <3>2, <4>1
    <3>. QED  BY <2>2, <2>12, <3>1, <3>3 DEF KeysAreKnown
  <2>17. Reused'
    <3>1. ~(program \subseteq {KeysChangeType})
      BY <1>1 DEF RebuildsAlone, KeysChangeType
    <3>. QED  BY <2>2, <3>1 DEF Reused
  <2>18. SyncInv'
    BY <1>1, <1>2, <2>2, <2>10, <2>11, <2>12, <2>14, <2>15, <2>16, <2>17 DEF SyncInv
  <2>. QED  BY <2>13, <2>18 DEF IInv
<1>7. CASE ~(slot = Null \/ Contains(left, slot))
  <2>1. Fail
    BY <1>7 DEF Rebuild
  <2>. QED  BY <2>1, FailKeeps
<1>. QED  BY <1>6, <1>7

LEMMA StutterKeeps ==
    ASSUME IInv, UNCHANGED vars
    PROVE  IInv'
<1>1. /\ start_index' = start_index /\ end_index' = end_index /\ next_sibling' = next_sibling
      /\ old_start_index' = old_start_index /\ old_end_index' = old_end_index
      /\ reordered' = reordered /\ children' = children /\ siblings' = siblings
      /\ old_children' = old_children /\ program' = program /\ stage' = stage
  BY DEF vars, indices
<1>2. TypeOK /\ (stage # "failed" => SyncInv)
  BY DEF IInv
<1>3. TypeOK'
  BY <1>1, <1>2 DEF TypeOK
<1>4. Rest' = Rest /\ Synced' = Synced
  BY <1>1 DEF Rest, Synced
<1>5. ASSUME stage # "failed" PROVE SyncInv'
  <2>1. /\ NextSibling /\ Places /\ KeysAreKnown /\ Reused /\ Ended
        /\ KeysDiffer(children) /\ KeysDiffer(old_children)
        /\ Shape(siblings, children, start_index, end_index, old_children, Rest)
        /\ Slots(siblings, children, start_index, end_index)
    BY <1>2, <1>5 DEF SyncInv
  <2>2. NextSibling' /\ Ended'
    BY <1>1, <1>4, <2>1 DEF NextSibling, Ended
  <2>3. Places'
    BY <1>1, <1>4, <2>1 DEF Places
  <2>4. KeysAreKnown'
    BY <1>1, <1>4, <2>1 DEF KeysAreKnown
  <2>5. Reused'
    BY <1>1, <1>4, <2>1 DEF Reused
  <2>. QED  BY <1>1, <1>4, <2>1, <2>2, <2>3, <2>4, <2>5 DEF SyncInv
<1>. QED  BY <1>1, <1>3, <1>5 DEF IInv

LEMMA InitEstablishes == Init => IInv
<1> SUFFICES ASSUME Init PROVE IInv
  OBVIOUS
<1>1. /\ children = <<>> /\ siblings = <<>> /\ old_children = <<>>
      /\ start_index = 1 /\ end_index = 0 /\ old_start_index = 1 /\ old_end_index = 0
      /\ next_sibling = Null /\ reordered = {} /\ stage = "idle"
  BY DEF Init
<1>2. TypeOK
  BY <1>1 DEF TypeOK, Null
<1>3. Rest = {} /\ Synced = {}
  BY <1>1 DEF Rest, Synced
<1>4. /\ KeysDiffer(children) /\ KeysDiffer(old_children) /\ RootsDiffer(old_children)
      /\ Differ(siblings)
  BY <1>1 DEF KeysDiffer, RootsDiffer, Differ
<1>5. 1 .. 1 - 1 = {} /\ 0 + 1 .. 0 = {} /\ 1 .. 0 - (0 - 0) = {}
  OBVIOUS
<1>6. Len(siblings) = 0 /\ Len(children) = 0
  BY <1>1
<1>7. Ends(siblings, children, start_index, end_index)
  BY <1>1, <1>5, <1>6 DEF Ends
<1>8. Holds(siblings, start_index, Len(siblings) - (Len(children) - end_index), old_children, {})
  BY <1>1, <1>5, <1>6 DEF Holds
<1>9. Shape(siblings, children, start_index, end_index, old_children, Rest)
  BY <1>1, <1>2, <1>3, <1>4, <1>7, <1>8 DEF Shape, TypeOK
<1>10. Slots(siblings, children, start_index, end_index)
  BY <1>1, <1>5, <1>6 DEF Slots
<1>11. NextSibling /\ Places /\ Ended
  BY <1>1, <1>3 DEF NextSibling, Places, Ended
<1>12. KeysAreKnown /\ Reused
  BY <1>1, <1>3 DEF KeysAreKnown, Reused
<1>. QED  BY <1>2, <1>4, <1>9, <1>10, <1>11, <1>12 DEF IInv, SyncInv

LEMMA StepPreserves == IInv /\ [Next]_vars => IInv'
<1> SUFFICES ASSUME IInv, [Next]_vars PROVE IInv'
  OBVIOUS
<1>1. ASSUME NEW list \in Lists, StartSync(list) PROVE IInv'
  BY <1>1, StartSyncKeeps
<1>2. CASE ScanBackward
  BY <1>2, ScanBackwardKeeps
<1>3. CASE TurnAround
  BY <1>3, TurnAroundKeeps
<1>4. CASE ScanForward
  BY <1>4, ScanForwardKeeps
<1>5. CASE Reorder
  BY <1>5, ReorderKeeps
<1>6. CASE MoveFails
  BY <1>6, FailKeeps DEF MoveFails
<1>7. CASE Insert
  BY <1>7, InsertKeeps
<1>8. CASE Removals
  BY <1>8, RemovalsKeep
<1>9. CASE EndSync
  BY <1>9, EndSyncKeeps
<1>10. ASSUME NEW at \in DOMAIN children, Rebuild(at) PROVE IInv'
  BY <1>10, RebuildKeeps
<1>11. CASE UNCHANGED vars
  BY <1>11, StutterKeeps
<1>. QED  BY <1>1, <1>2, <1>3, <1>4, <1>5, <1>6, <1>7, <1>8, <1>9, <1>10, <1>11 DEF Next

-----------------------------------------------------------------------------

(***************************************************************************)
(* However often the widget is synced, whatever lists it gets and whatever *)
(* liberties the program takes, when syncRenderObject has ended the render *)
(* objects are those of the children, in their order.                      *)
(***************************************************************************)
THEOREM SyncOrdersChildren == Spec => []ChildrenInOrder
<1>1. ASSUME IInv PROVE ChildrenInOrder
  <2> SUFFICES ASSUME stage = "idle"
               PROVE  siblings = [i \in DOMAIN children |-> children[i].root]
    BY DEF ChildrenInOrder
  <2>1. /\ start_index = end_index + 1 /\ siblings \in Seq(Nat \ {0})
        /\ Shape(siblings, children, start_index, end_index, old_children, {})
    BY <1>1 DEF IInv, SyncInv, Ended, TypeOK
  <2>2. /\ Len(siblings) = Len(children)
        /\ \A i \in 1 .. Len(children) : siblings[i] = children[i].root
    BY <2>1, EndedShape, Zenon
  <2>3. DOMAIN children = 1 .. Len(children) /\ DOMAIN siblings = 1 .. Len(siblings)
    BY <2>1, PlacesOfShape
  <2>4. siblings = [i \in DOMAIN siblings |-> siblings[i]]
    BY <2>1
  <2>. QED  BY <2>2, <2>3, <2>4
<1>. QED  BY <1>1, InitEstablishes, StepPreserves, PTL DEF Spec

(***************************************************************************)
(* A child that keeps its key and its type keeps its render object,        *)
(* however far it moved in the list ("Keys are used to find matches"),     *)
(* unless a component replaces its root by itself.                         *)
(***************************************************************************)
THEOREM KeysKeepNodes == Spec => []NodesAreReused
<1>1. ASSUME IInv PROVE NodesAreReused
  <2> SUFFICES ASSUME stage = "idle", program \subseteq {KeysChangeType},
                      NEW i \in DOMAIN children, NEW j \in DOMAIN old_children,
                      children[i].key = old_children[j].key,
                      children[i].type = old_children[j].type,
                      children[i].key # NoKey
               PROVE  children[i].root = old_children[j].root
    BY DEF NodesAreReused
  <2>1. /\ start_index = end_index + 1 /\ Reused
        /\ Shape(siblings, children, start_index, end_index, old_children, Rest)
    BY <1>1 DEF IInv, SyncInv, Ended
  <2>2. /\ DOMAIN children = 1 .. Len(children) /\ Len(children) \in Nat
        /\ start_index \in Int /\ end_index \in Int
    BY <2>1, PlacesOfShape
  <2>3. i \in Synced
    BY <2>1, <2>2 DEF Synced
  <2>. QED  BY <2>1, <2>3 DEF Reused
<1>. QED  BY <1>1, InitEstablishes, StepPreserves, PTL DEF Spec
=============================================================================
