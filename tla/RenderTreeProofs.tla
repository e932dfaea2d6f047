--------------------------- MODULE RenderTreeProofs ---------------------------
(***************************************************************************)
(* Type correctness, and marks that stop at a boundary, for every tree of  *)
(* render objects.  A clean node without a parent was either the view or   *)
(* a boundary when it was dropped, since a drop dirties what it cleans.    *)
(* A layout can only make a dirty node clean while the node is in the      *)
(* tree: the nodes being laid out are ancestors of one another, and a      *)
(* layout callback changes the tree below the last of them.                *)
(*                                                                         *)
(* Then, unless a layout throws: boundaries are above the nodes laid out   *)
(* for them, because nodes disagree about their boundary only below a      *)
(* layout that has not come to them yet; and a parent is dirty with the    *)
(* child it measured, because what a layout has laid out stays clean       *)
(* until the layout ends.                                                  *)
(*                                                                         *)
(* At last, for programs whose layouts do not throw and that put no        *)
(* subtree back which a frame has passed over: what is dirty is on the way *)
(* to a node that a flush comes to, what is not in the picture is painted  *)
(* on a display list that is marked or will be, and whoever put a node     *)
(* into a list asked for a frame.  So nothing in the tree is left behind.  *)
(***************************************************************************)
EXTENDS RenderTree, SequenceTheorems, FiniteSetTheorems, TLAPS

(* What nodes have above them: their parent, and what that has above it. *)
Forest ==
    /\ \A n \in Nodes : n \in above[n]
    /\ \A k \in Nodes : \A m \in above[k] : above[m] \subseteq above[k]
    /\ \A k, m \in Nodes : m \in above[k] /\ k \in above[m] => m = k
    /\ \A k \in Nodes : \A m, q \in above[k] : m \in above[q] \/ q \in above[m]
    /\ \A c \in Nodes : parent[c] = None => above[c] = {c}
    /\ \A c \in Nodes : parent[c] # None => /\ above[c] = {c} \cup above[parent[c]]
                                            /\ c \notin above[parent[c]]

(* The view is on top of what is attached, and its own boundary. *)
ViewOnTop ==
    /\ parent[Root] = None
    /\ relayout_root[Root] = Root
    /\ \A n \in attached : parent[n] = None => n = Root

(* The nodes being laid out are in a tree, each above the next. *)
LayingOK ==
    /\ laying # <<>> => in_frame
    /\ \A i \in 1..Len(laying) :
           /\ parent[laying[i].node] = None => laying[i].node = Root
           /\ \A j \in i..Len(laying) : laying[i].node \in above[laying[j].node]

MarksInv == TypeOK /\ Forest /\ ViewOnTop /\ LayingOK /\ MarksStopAtBoundary

-----------------------------------------------------------------------------
(* Types *)

LEMMA ClimbType ==
    ASSUME TypeOK, NEW n \in Nodes, NEW Stop
    PROVE  Climb(n, Stop) \subseteq Nodes
BY DEF Climb, TypeOK

(* What markNeedsLayout does to the variables it changes. *)
LEMMA LayoutMarked ==
    ASSUME TypeOK, NEW n \in Nodes, NEW dirty \in SUBSET Nodes, MarkNeedsLayoutWith(n, dirty)
    PROVE  /\ needs_layout' \subseteq Nodes
           /\ dirty \subseteq needs_layout'
           /\ nodes_needing_layout' \subseteq Nodes
           /\ frame_scheduled' \in BOOLEAN
<1> DEFINE marked == Climb(n, dirty \cup Boundaries) \ dirty
<1>1. /\ needs_layout' = dirty \cup marked
      /\ nodes_needing_layout' = nodes_needing_layout \cup (marked \cap Boundaries)
      /\ frame_scheduled' = (frame_scheduled \/ marked \cap Boundaries # {})
  BY DEF MarkNeedsLayoutWith
<1>2. marked \subseteq Nodes
  BY ClimbType
<1>3. frame_scheduled' \in BOOLEAN
  BY <1>1, Zenon
<1>. QED  BY <1>1, <1>2, <1>3 DEF TypeOK

LEMMA PaintMarked ==
    ASSUME TypeOK, NEW n \in Nodes, NEW scheduled, MarkNeedsPaint(n, scheduled)
    PROVE  /\ needs_paint' \subseteq Nodes
           /\ nodes_needing_paint' \subseteq DisplayLists
           /\ frame_scheduled' \in BOOLEAN
<1> DEFINE reached == IF n \in attached THEN Climb(n, needs_paint \cup DisplayLists) ELSE {}
           marked == (reached \cap DisplayLists) \ needs_paint
<1>1. /\ needs_paint' = needs_paint \cup marked
      /\ nodes_needing_paint' = nodes_needing_paint \cup marked
      /\ frame_scheduled' = (scheduled \/ marked # {})
  BY DEF MarkNeedsPaint
<1>2. reached \subseteq Nodes
  BY ClimbType
<1>3. frame_scheduled' \in BOOLEAN
  BY <1>1, Zenon
<1>. QED  BY <1>1, <1>2, <1>3 DEF TypeOK

LEMMA TypeInit == Init => TypeOK
<1> SUFFICES ASSUME Init PROVE TypeOK
  OBVIOUS
<1>1. frame_scheduled \in BOOLEAN /\ in_frame \in BOOLEAN
  BY DEF Init
<1>2. laying \in Seq([node : Nodes, laid_out : SUBSET Nodes])
  BY DEF Init
<1>. QED  BY <1>1, <1>2, TreeAssumption, ProgramAssumption DEF Init, TypeOK

Layouts == [node : Nodes, laid_out : SUBSET Nodes]

LEMMA TopType ==
    ASSUME TypeOK, laying # <<>>
    PROVE  /\ Len(laying) \in Nat
           /\ Len(laying) \in 1..Len(laying)
           /\ Top \in Layouts
           /\ Top = laying[Len(laying)]
<1>1. laying \in Seq(Layouts)
  BY DEF TypeOK, Layouts
<1>2. Len(laying) \in Nat \ {0}
  BY <1>1, EmptySeq
<1>3. Len(laying) \in 1..Len(laying)
  BY <1>2
<1>. QED  BY <1>1, <1>2, <1>3, ElementOfSeq DEF Top

(* A node begins to be laid out. *)
LEMMA PushedNodes ==
    ASSUME NEW s \in Seq(Layouts), NEW n \in Nodes,
           NEW pushed, pushed = Append(s, [node |-> n, laid_out |-> {}])
    PROVE  /\ pushed \in Seq(Layouts)
           /\ Len(pushed) = Len(s) + 1
           /\ \A i \in 1..Len(s) : pushed[i] = s[i]
           /\ pushed[Len(s) + 1].node = n
<1> DEFINE e == [node |-> n, laid_out |-> {}]
<1>1. e \in Layouts /\ e.node = n
  BY DEF Layouts
<1> HIDE DEF e
<1>2. pushed = Append(s, e)
  BY DEF e
<1>. QED  BY <1>1, <1>2, AppendProperties

(* A child is laid out: the nodes that wait for it stay as they are. *)
LEMMA VisitedNodes ==
    ASSUME TypeOK, laying # <<>>, NEW c \in Nodes,
           NEW visited, visited = [laying EXCEPT ![Len(laying)].laid_out = @ \cup {c}]
    PROVE  /\ visited \in Seq(Layouts)
           /\ Len(visited) = Len(laying)
           /\ \A i \in 1..Len(laying) : visited[i].node = laying[i].node
<1>1. laying \in Seq(Layouts) /\ Len(laying) \in 1..Len(laying) /\ Top \in Layouts
        /\ Top = laying[Len(laying)]
  BY TopType DEF TypeOK, Layouts
<1> DEFINE e == [Top EXCEPT !.laid_out = @ \cup {c}]
<1>2. e \in Layouts /\ e.node = Top.node
  BY <1>1 DEF Layouts
<1>3. visited = [laying EXCEPT ![Len(laying)] = e]
  BY <1>1
<1>4. /\ [laying EXCEPT ![Len(laying)] = e] \in Seq(Layouts)
      /\ Len([laying EXCEPT ![Len(laying)] = e]) = Len(laying)
      /\ \A i \in 1..Len(laying) :
             [laying EXCEPT ![Len(laying)] = e][i] = IF i = Len(laying) THEN e ELSE laying[i]
  BY <1>1, <1>2, ExceptSeq
<1>5. \A i \in 1..Len(laying) : visited[i] = IF i = Len(laying) THEN e ELSE laying[i]
  BY <1>3, <1>4
<1>6. \A i \in 1..Len(laying) : visited[i].node = laying[i].node
  BY <1>1, <1>2, <1>5
<1>. QED  BY <1>3, <1>4, <1>6

LEMMA TypeAdoptChild ==
    ASSUME TypeOK, NEW n \in Nodes, NEW child \in Nodes, AdoptChild(n, child)
    PROVE  TypeOK'
<1>1. /\ needs_layout' \subseteq Nodes
      /\ nodes_needing_layout' \subseteq Nodes
      /\ frame_scheduled' \in BOOLEAN
  BY LayoutMarked DEF AdoptChild, TypeOK
<1>2. /\ parent' = [parent EXCEPT ![child] = n]
      /\ attached' = IF n \in attached THEN attached \cup Subtree(child) ELSE attached
      /\ above' = [m \in Nodes |-> IF m \in Subtree(child) THEN above[m] \cup above[n] ELSE above[m]]
      /\ UNCHANGED <<relayout_root, measured, needs_paint, nodes_needing_paint, in_frame,
                     dirty_nodes, laying, unseen, passed_over, liberties>>
  BY DEF AdoptChild, layout, history
<1>. QED  BY <1>1, <1>2 DEF TypeOK, Subtree

LEMMA CleanedType == ASSUME NEW c PROVE Cleaned(c) \subseteq Nodes
BY DEF Cleaned, Subtree

LEMMA TypeDropChild ==
    ASSUME TypeOK, NEW n \in Nodes, NEW child \in Nodes, DropChild(n, child)
    PROVE  TypeOK'
<1>1. /\ needs_layout' \subseteq Nodes
      /\ nodes_needing_layout' \subseteq Nodes
      /\ frame_scheduled' \in BOOLEAN
  <2>1. needs_layout \cup Cleaned(child) \in SUBSET Nodes
    BY CleanedType DEF TypeOK
  <2>2. MarkNeedsLayoutWith(n, needs_layout \cup Cleaned(child))
    BY DEF DropChild
  <2>. QED  BY <2>1, <2>2, LayoutMarked
<1>2. /\ relayout_root' = [m \in Nodes |-> IF m \in Cleaned(child) THEN None ELSE relayout_root[m]]
      /\ measured' = measured \ {child}
      /\ parent' = [parent EXCEPT ![child] = None]
      /\ attached' = attached \ Subtree(child)
      /\ above' = [m \in Nodes |-> IF m \in Subtree(child) THEN above[m] \ above[n] ELSE above[m]]
      /\ UNCHANGED <<needs_paint, nodes_needing_paint, in_frame, dirty_nodes, laying, unseen,
                     passed_over, liberties>>
  BY DEF DropChild, history
<1>. QED  BY <1>1, <1>2 DEF TypeOK

LEMMA TypeLayout ==
    ASSUME TypeOK, NEW c \in Nodes, NEW is_boundary \in BOOLEAN, NEW same_constraints \in BOOLEAN,
           Layout(c, is_boundary, same_constraints)
    PROVE  TypeOK'
<1> DEFINE root == IF is_boundary THEN c ELSE relayout_root[Top.node]
           visited == [laying EXCEPT ![Len(laying)].laid_out = @ \cup {c}]
<1>1. laying # <<>> /\ UNCHANGED <<tree, marks, in_frame, dirty_nodes, unseen, history>>
  BY DEF Layout
<1>2. Top.node \in Nodes
  BY <1>1, TopType DEF Layouts
<1>3. root \in Nodes \cup {None}
  BY <1>2 DEF TypeOK
<1>4. visited \in Seq(Layouts)
  BY <1>1, VisitedNodes
<1>5. \/ laying' = visited /\ relayout_root' = relayout_root
      \/ /\ laying' = Append(visited, [node |-> c, laid_out |-> {}])
         /\ relayout_root' = [relayout_root EXCEPT ![c] = root]
  BY DEF Layout
<1>6. laying' \in Seq([node : Nodes, laid_out : SUBSET Nodes])
  <2>. HIDE DEF visited
  <2>1. laying' \in Seq(Layouts)
    BY <1>4, <1>5, PushedNodes
  <2>. QED  BY <2>1 DEF Layouts
<1>7. relayout_root' \in [Nodes -> Nodes \cup {None}]
  BY <1>3, <1>5 DEF TypeOK
<1>8. measured' \subseteq Nodes
  BY DEF Layout, TypeOK
<1>. QED  BY <1>1, <1>6, <1>7, <1>8 DEF TypeOK, tree, marks, history

LEMMA PoppedNodes ==
    ASSUME TypeOK, laying # <<>>, NEW popped, popped = SubSeq(laying, 1, Len(laying) - 1)
    PROVE  /\ popped \in Seq(Layouts)
           /\ Len(popped) = Len(laying) - 1
           /\ \A i \in 1..Len(popped) : popped[i] = laying[i]
<1>1. laying \in Seq(Layouts) /\ Len(laying) \in Nat /\ Len(laying) \in 1..Len(laying)
  BY TopType DEF TypeOK, Layouts
<1> DEFINE n == Len(laying) - 1
<1>2. n \in Nat /\ Len(laying) = n + 1 /\ popped = SubSeq(laying, 1, n)
  BY <1>1
<1>3. \A i \in 1..n : laying[i] \in Layouts
  BY <1>1, <1>2, ElementOfSeq
<1> HIDE DEF n
<1>4. /\ SubSeq(laying, 1, n) \in Seq(Layouts)
      /\ Len(SubSeq(laying, 1, n)) = IF 1 <= n THEN n - 1 + 1 ELSE 0
      /\ \A i \in 1 .. n - 1 + 1 : SubSeq(laying, 1, n)[i] = laying[1 + i - 1]
  <2>1. 1 \in Int /\ n \in Int
    BY <1>2
  <2>. QED  BY <1>3, <2>1, SubSeqProperties
<1>5. Len(popped) = n /\ popped \in Seq(Layouts)
  BY <1>2, <1>4
<1>6. \A i \in 1..n : popped[i] = laying[i]
  BY <1>2, <1>4
<1>. QED  BY <1>2, <1>5, <1>6

LEMMA TypeFinishLayout == TypeOK /\ FinishLayout => TypeOK'
<1> SUFFICES ASSUME TypeOK, FinishLayout PROVE TypeOK'
  OBVIOUS
<1>1. /\ laying # <<>>
      /\ laying' = SubSeq(laying, 1, Len(laying) - 1)
      /\ needs_layout' = needs_layout \ {Top.node}
      /\ unseen' = unseen \cup {Top.node}
      /\ MarkNeedsPaint(Top.node, frame_scheduled)
      /\ UNCHANGED <<tree, layout, nodes_needing_layout, in_frame, dirty_nodes, history>>
  BY DEF FinishLayout
<1>2. Top.node \in Nodes
  BY <1>1, TopType DEF Layouts
<1>3. laying' \in Seq([node : Nodes, laid_out : SUBSET Nodes])
  BY <1>1, PoppedNodes DEF Layouts
<1>4. /\ needs_paint' \subseteq Nodes
      /\ nodes_needing_paint' \subseteq DisplayLists
      /\ frame_scheduled' \in BOOLEAN
  BY <1>1, <1>2, PaintMarked
<1>. QED  BY <1>1, <1>2, <1>3, <1>4 DEF TypeOK, tree, layout, history

LEMMA TypeNext == TypeOK /\ [Next]_vars => TypeOK'
<1> SUFFICES ASSUME TypeOK, [Next]_vars PROVE TypeOK'
  OBVIOUS
<1>1. ASSUME BeginFrame PROVE TypeOK'
  BY <1>1 DEF BeginFrame, TypeOK, tree, layout, history
<1>2. ASSUME NEW n \in Nodes, LayoutWithoutResize(n) PROVE TypeOK'
  <2>1. laying' \in Seq([node : Nodes, laid_out : SUBSET Nodes])
    <3>1. laying \in Seq(Layouts)
      BY DEF Layouts, TypeOK
    <3>2. laying' = Append(laying, [node |-> n, laid_out |-> {}]) \/ laying' = laying
      BY <1>2 DEF LayoutWithoutResize, PerformLayout
    <3>3. laying' \in Seq(Layouts)
      BY <3>1, <3>2, PushedNodes
    <3>. QED  BY <3>3 DEF Layouts
  <2>. QED  BY <1>2, <2>1 DEF LayoutWithoutResize, TypeOK, tree, layout, marks
<1>3. ASSUME NEW c \in Nodes, NEW is_boundary \in BOOLEAN, NEW same_constraints \in BOOLEAN,
             Layout(c, is_boundary, same_constraints)
      PROVE  TypeOK'
  BY <1>3, TypeLayout
<1>4. ASSUME FinishLayout PROVE TypeOK'
  BY <1>4, TypeFinishLayout
<1>5. ASSUME ThrowInLayout PROVE TypeOK'
  <2>1. laying' \in Seq([node : Nodes, laid_out : SUBSET Nodes])
    BY <1>5 DEF ThrowInLayout
  <2>. QED  BY <1>5, <2>1 DEF ThrowInLayout, TypeOK, tree, layout, marks, history
<1>6. ASSUME FlushPaint PROVE TypeOK'
  <2>1. needs_paint' \subseteq needs_paint /\ unseen' \subseteq unseen
    BY <1>6 DEF FlushPaint
  <2>2. passed_over' \subseteq Nodes
    BY <1>6, TreeAssumption DEF FlushPaint, TypeOK
  <2>. QED  BY <1>6, <2>1, <2>2 DEF FlushPaint, TypeOK, tree, layout
<1>7. ASSUME NEW n \in Nodes, NEW c \in Nodes, AdoptChild(n, c) PROVE TypeOK'
  BY <1>7, TypeAdoptChild
<1>8. ASSUME NEW n \in Nodes, NEW c \in Nodes, DropChild(n, c) PROVE TypeOK'
  BY <1>8, TypeDropChild
<1>9. ASSUME NEW n \in Nodes, ChangeLayout(n) PROVE TypeOK'
  <2>1. /\ needs_layout' \subseteq Nodes
        /\ nodes_needing_layout' \subseteq Nodes
        /\ frame_scheduled' \in BOOLEAN
    BY <1>9, LayoutMarked DEF ChangeLayout, TypeOK
  <2>. QED  BY <1>9, <2>1 DEF ChangeLayout, TypeOK, tree, layout, history
<1>10. ASSUME NEW n \in Nodes, ChangeLooks(n) PROVE TypeOK'
  <2>1. /\ needs_paint' \subseteq Nodes
        /\ nodes_needing_paint' \subseteq DisplayLists
        /\ frame_scheduled' \in BOOLEAN
    BY <1>10, PaintMarked DEF ChangeLooks
  <2>. QED  BY <1>10, <2>1 DEF ChangeLooks, TypeOK, tree, layout, history
<1>11. CASE UNCHANGED vars
  BY <1>11 DEF vars, tree, layout, marks, history, TypeOK
<1>. QED
  BY <1>1, <1>2, <1>3, <1>4, <1>5, <1>6, <1>7, <1>8, <1>9, <1>10, <1>11 DEF Next, Frame

(***************************************************************************)
(* Every variable keeps its type, whatever a program does to its tree; in  *)
(* particular, only nodes with a display list wait to be painted.          *)
(***************************************************************************)
THEOREM TypeCorrect == Spec => []TypeOK
BY TypeInit, TypeNext, PTL DEF Spec

-----------------------------------------------------------------------------
(* The tree *)

(* A child that has no parent is put below a node that is not below it. *)
LEMMA ForestAdopt ==
    ASSUME TypeOK, Forest, NEW n \in Nodes, NEW child \in Nodes,
           parent[child] = None, n \notin Subtree(child),
           parent' = [parent EXCEPT ![child] = n],
           above' = [m \in Nodes |-> IF m \in Subtree(child) THEN above[m] \cup above[n]
                                     ELSE above[m]]
    PROVE  Forest'
<1>1. child \notin above[n] /\ above[child] = {child} /\ n # None
  BY TreeAssumption DEF Forest, Subtree
<1>2. \A m \in Nodes : above'[m] = IF child \in above[m] THEN above[m] \cup above[n] ELSE above[m]
  BY DEF Subtree
<1>3. \A m \in Nodes : above[m] \subseteq Nodes
  BY DEF TypeOK
<1>4. \A m \in above[n] : child \notin above[m] /\ above[m] \subseteq above[n] /\ above'[m] = above[m]
  BY <1>1, <1>2, <1>3 DEF Forest
<1>5. \A m \in Nodes : m \in above'[m]
  BY <1>2 DEF Forest
<1>6. ASSUME NEW k \in Nodes, NEW m \in above'[k] PROVE above'[m] \subseteq above'[k]
  <2>1. CASE m \in above[k]
    <3>1. above[m] \subseteq above[k]
      BY <2>1 DEF Forest
    <3>. QED  BY <1>2, <1>3, <2>1, <3>1
  <2>2. CASE m \notin above[k]
    <3>1. child \in above[k] /\ m \in above[n]
      BY <1>2, <1>6, <2>2
    <3>. QED  BY <1>2, <1>4, <3>1
  <2>. QED  BY <2>1, <2>2
<1>7. ASSUME NEW k \in Nodes, NEW m \in Nodes, m \in above'[k], k \in above'[m] PROVE m = k
  <2>1. CASE m \in above[k] /\ k \in above[m]
    BY <2>1 DEF Forest
  <2>2. CASE m \notin above[k]
    <3>1. child \in above[k] /\ m \in above[n]
      BY <1>2, <1>7, <2>2
    <3>2. k \in above[n]
      BY <1>4, <1>7, <3>1
    <3>. QED  BY <1>4, <3>1, <3>2
  <2>3. CASE k \notin above[m]
    <3>1. child \in above[m] /\ k \in above[n]
      BY <1>2, <1>7, <2>3
    <3>2. m \in above[n]
      BY <1>4, <1>7, <3>1
    <3>. QED  BY <1>4, <3>1, <3>2
  <2>. QED  BY <2>1, <2>2, <2>3
<1>8. ASSUME NEW k \in Nodes, NEW m \in above'[k], NEW q \in above'[k]
      PROVE  m \in above'[q] \/ q \in above'[m]
  <2>1. CASE m \in above[k] /\ q \in above[k]
    <3>1. m \in above[q] \/ q \in above[m]
      BY <2>1 DEF Forest
    <3>. QED  BY <1>2, <1>3, <2>1, <3>1
  <2>2. CASE m \notin above[k] /\ q \notin above[k]
    <3>1. m \in above[n] /\ q \in above[n]
      BY <1>2, <1>8, <2>2
    <3>2. m \in above[q] \/ q \in above[m]
      BY <3>1 DEF Forest
    <3>. QED  BY <1>2, <1>3, <3>1, <3>2
  <2>3. ASSUME NEW r \in above[k], NEW t \in above[n], child \in above[k]
        PROVE  t \in above'[r]
    <3>1. r \in above[child] \/ child \in above[r]
      BY <2>3 DEF Forest
    <3>2. child \in above[r]
      BY <1>1, <3>1 DEF Forest
    <3>. QED  BY <1>2, <1>3, <2>3, <3>2
  <2>4. CASE m \in above[k] /\ q \notin above[k]
    BY <1>2, <1>8, <2>3, <2>4
  <2>5. CASE m \notin above[k] /\ q \in above[k]
    BY <1>2, <1>8, <2>3, <2>5
  <2>. QED  BY <2>1, <2>2, <2>4, <2>5
<1>9. ASSUME NEW c \in Nodes, parent'[c] = None PROVE above'[c] = {c}
  <2>1. c # child /\ parent[c] = None
    BY <1>1, <1>9 DEF TypeOK
  <2>2. above[c] = {c}
    BY <2>1 DEF Forest
  <2>. QED  BY <1>2, <2>1, <2>2
<1>10. ASSUME NEW c \in Nodes, parent'[c] # None
       PROVE  above'[c] = {c} \cup above'[parent'[c]] /\ c \notin above'[parent'[c]]
  <2>1. CASE c = child
    <3>1. parent'[c] = n /\ above'[n] = above[n] /\ above'[c] = {child} \cup above[n]
      BY <1>1, <1>2, <2>1 DEF TypeOK
    <3>. QED  BY <1>1, <2>1, <3>1
  <2>2. CASE c # child
    <3> DEFINE p == parent[c]
    <3>1. parent'[c] = p /\ p \in Nodes
      BY <1>10, <2>2 DEF TypeOK
    <3>2. above[c] = {c} \cup above[p] /\ c \notin above[p]
      BY <1>10, <3>1 DEF Forest
    <3>3. child \in above[c] <=> child \in above[p]
      BY <2>2, <3>2
    <3>4. child \in above[p] => c \notin above[n]
      <4>1. c \in above[n] => above[c] \subseteq above[n]
        BY <1>4
      <4>. QED  BY <1>1, <3>2, <4>1
    <3>5. above'[c] = {c} \cup above'[p]
      BY <1>2, <3>1, <3>2, <3>3
    <3>6. c \notin above'[p]
      BY <1>2, <3>1, <3>2, <3>4
    <3>. QED  BY <3>1, <3>5, <3>6
  <2>. QED  BY <2>1, <2>2
<1>. QED  BY <1>5, <1>6, <1>7, <1>8, <1>9, <1>10 DEF Forest

(* A child is taken from its parent. *)
LEMMA ForestDrop ==
    ASSUME TypeOK, Forest, NEW n \in Nodes, NEW child \in Nodes,
           parent[child] = n,
           parent' = [parent EXCEPT ![child] = None],
           above' = [m \in Nodes |-> IF m \in Subtree(child) THEN above[m] \ above[n]
                                     ELSE above[m]]
    PROVE  Forest'
<1>1. child \notin above[n] /\ above[child] = {child} \cup above[n] /\ n # None
  BY TreeAssumption DEF Forest
<1>2. \A m \in Nodes : above'[m] = IF child \in above[m] THEN above[m] \ above[n] ELSE above[m]
  BY DEF Subtree
<1>3. \A m \in Nodes : above[m] \subseteq Nodes
  BY DEF TypeOK
<1>4. \A m \in above[n] : child \notin above[m]
  BY <1>1, <1>3 DEF Forest
<1>5. \A m \in Nodes : m \in above'[m]
  BY <1>2, <1>4 DEF Forest
<1>6. ASSUME NEW k \in Nodes, NEW m \in above'[k] PROVE above'[m] \subseteq above'[k]
  <2>1. m \in above[k] /\ m \in Nodes /\ above[m] \subseteq above[k]
    BY <1>2, <1>3, <1>6 DEF Forest
  <2>2. CASE child \in above[k]
    <3>1. m \notin above[n]
      BY <1>2, <1>6, <2>2
    <3>2. m \in above[child] \/ child \in above[m]
      BY <2>1, <2>2 DEF Forest
    <3>3. child \in above[m]
      BY <1>1, <2>1, <3>1, <3>2
    <3>. QED  BY <1>2, <2>1, <2>2, <3>3
  <2>3. CASE child \notin above[k]
    BY <1>2, <2>1, <2>3
  <2>. QED  BY <2>2, <2>3
<1>7. ASSUME NEW k \in Nodes, NEW m \in Nodes, m \in above'[k], k \in above'[m] PROVE m = k
  <2>1. m \in above[k] /\ k \in above[m]
    BY <1>2, <1>7
  <2>. QED  BY <2>1 DEF Forest
<1>8. ASSUME NEW k \in Nodes, NEW m \in above'[k], NEW q \in above'[k]
      PROVE  m \in above'[q] \/ q \in above'[m]
  <2>1. m \in above[k] /\ q \in above[k] /\ (m \in above[q] \/ q \in above[m])
    BY <1>2, <1>8 DEF Forest
  <2>2. child \notin above[k] => child \notin above[m] /\ child \notin above[q]
    BY <2>1 DEF Forest
  <2>3. child \in above[k] => m \notin above[n] /\ q \notin above[n]
    BY <1>2, <1>8
  <2>. QED  BY <1>2, <1>3, <2>1, <2>2, <2>3
<1>9. ASSUME NEW c \in Nodes, parent'[c] = None PROVE above'[c] = {c}
  <2>1. CASE c = child
    BY <1>1, <1>2, <2>1
  <2>2. CASE c # child
    <3>1. parent[c] = None
      BY <1>9, <2>2 DEF TypeOK
    <3>2. above[c] = {c}
      BY <3>1 DEF Forest
    <3>. QED  BY <1>2, <2>2, <3>2
  <2>. QED  BY <2>1, <2>2
<1>10. ASSUME NEW c \in Nodes, parent'[c] # None
       PROVE  above'[c] = {c} \cup above'[parent'[c]] /\ c \notin above'[parent'[c]]
  <2> DEFINE p == parent[c]
  <2>1. c # child /\ parent'[c] = p /\ p \in Nodes
    BY <1>10 DEF TypeOK
  <2>2. above[c] = {c} \cup above[p] /\ c \notin above[p]
    BY <1>10, <2>1 DEF Forest
  <2>3. child \in above[c] <=> child \in above[p]
    BY <2>1, <2>2
  <2>4. child \in above[p] => c \notin above[n]
    BY <1>4, <2>3
  <2>5. above'[c] = {c} \cup above'[p]
    BY <1>2, <2>1, <2>2, <2>3, <2>4
  <2>6. c \notin above'[p]
    BY <1>2, <2>1, <2>2
  <2>. QED  BY <2>1, <2>5, <2>6
<1>. QED  BY <1>5, <1>6, <1>7, <1>8, <1>9, <1>10 DEF Forest

-----------------------------------------------------------------------------
(* Marks stop at a boundary *)

LEMMA LayingNodes ==
    ASSUME TypeOK, NEW i \in 1..Len(laying)
    PROVE  laying[i].node \in Nodes
<1>1. laying \in Seq(Layouts)
  BY DEF TypeOK, Layouts
<1>2. laying[i] \in Layouts
  BY <1>1, ElementOfSeq
<1>. QED  BY <1>2 DEF Layouts

(* A layout callback drops nothing that is being laid out. *)
LEMMA DropsBelow ==
    ASSUME TypeOK, Forest, LayingOK, NEW n \in Nodes, NEW child \in Nodes,
           CanMutate(n), parent[child] = n, NEW i \in 1..Len(laying)
    PROVE  child \notin above[laying[i].node]
<1>1. laying # <<>>
  <2>1. laying \in Seq(Layouts)
    BY DEF TypeOK, Layouts
  <2>. QED  BY <2>1, EmptySeq
<1>2. n \in Subtree(Top.node)
  BY <1>1 DEF CanMutate, LayingOK
<1>3. Len(laying) \in 1..Len(laying) /\ Top = laying[Len(laying)] /\ Len(laying) \in Nat
  BY <1>1, TopType
<1>4. laying[i].node \in above[Top.node]
  BY <1>3 DEF LayingOK
<1>5. Top.node \in above[n] /\ Top.node \in Nodes /\ laying[i].node \in Nodes
  BY <1>2, <1>3, LayingNodes DEF Subtree
<1>6. above[laying[i].node] \subseteq above[n]
  BY <1>4, <1>5 DEF Forest
<1>7. child \notin above[n]
  BY TreeAssumption DEF Forest
<1>. QED  BY <1>6, <1>7

LEMMA MarksInit == Init => MarksInv
<1> SUFFICES ASSUME Init PROVE MarksInv
  OBVIOUS
<1>1. TypeOK
  BY TypeInit
<1>2. Forest
  BY DEF Init, Forest
<1>3. ViewOnTop
  BY TreeAssumption DEF Init, ViewOnTop
<1>4. LayingOK
  <2>1. laying = <<>> /\ Len(laying) = 0
    BY EmptySeq DEF Init
  <2>. QED  BY <2>1 DEF LayingOK
<1>5. MarksStopAtBoundary
  BY DEF Init, MarksStopAtBoundary
<1>. QED  BY <1>1, <1>2, <1>3, <1>4, <1>5 DEF MarksInv

LEMMA MarksAdoptChild ==
    ASSUME MarksInv, NEW n \in Nodes, NEW child \in Nodes, AdoptChild(n, child)
    PROVE  Forest' /\ ViewOnTop' /\ LayingOK' /\ MarksStopAtBoundary'
<1>0. TypeOK /\ Forest /\ ViewOnTop /\ LayingOK /\ MarksStopAtBoundary
  BY DEF MarksInv
<1>1. /\ parent[child] = None /\ child # Root /\ n \notin Subtree(child)
      /\ parent' = [parent EXCEPT ![child] = n]
      /\ attached' = IF n \in attached THEN attached \cup Subtree(child) ELSE attached
      /\ above' = [m \in Nodes |-> IF m \in Subtree(child) THEN above[m] \cup above[n] ELSE above[m]]
      /\ UNCHANGED <<relayout_root, laying, in_frame>>
  BY DEF AdoptChild, layout
<1>2. needs_layout \subseteq needs_layout'
  BY <1>0, LayoutMarked DEF AdoptChild, TypeOK
<1>3. \A m \in Nodes : parent'[m] = IF m = child THEN n ELSE parent[m]
  BY <1>0, <1>1 DEF TypeOK
<1>4. n # None /\ Root \in Nodes
  BY TreeAssumption
<1>5. Forest'
  BY <1>0, <1>1, ForestAdopt
<1>6. ViewOnTop'
  <2>1. ASSUME NEW m \in attached', parent'[m] = None PROVE m = Root
    <3>1. m \in Nodes /\ m # child /\ parent[m] = None
      BY <1>0, <1>1, <1>3, <1>4, <2>1 DEF TypeOK, Subtree
    <3>2. above[m] = {m}
      BY <1>0, <3>1 DEF Forest
    <3>3. m \in attached
      BY <1>1, <2>1, <3>1, <3>2 DEF Subtree
    <3>. QED  BY <1>0, <3>1, <3>3 DEF ViewOnTop
  <2>. QED  BY <1>0, <1>1, <1>3, <1>4, <2>1 DEF ViewOnTop
<1>7. LayingOK'
  <2>1. \A i \in 1..Len(laying) : laying[i].node \in Nodes
    BY <1>0, LayingNodes
  <2>2. \A m \in Nodes : above[m] \subseteq above'[m]
    BY <1>1
  <2>3. \A i \in 1..Len(laying) : parent'[laying[i].node] = None => laying[i].node = Root
    BY <1>0, <1>3, <1>4, <2>1 DEF LayingOK
  <2>4. \A i \in 1..Len(laying) : \A j \in i..Len(laying) :
            laying[j].node \in Nodes /\ laying[i].node \in above[laying[j].node]
    <3>1. laying \in Seq(Layouts)
      BY <1>0 DEF TypeOK, Layouts
    <3>2. Len(laying) \in Nat
      BY <3>1, LenProperties
    <3>. QED  BY <1>0, <2>1, <3>2 DEF LayingOK
  <2>5. \A i \in 1..Len(laying) : \A j \in i..Len(laying) :
            laying[i].node \in above'[laying[j].node]
    BY <2>2, <2>4
  <2>. QED  BY <1>0, <1>1, <2>3, <2>5 DEF LayingOK
<1>8. MarksStopAtBoundary'
  BY <1>0, <1>1, <1>2, <1>3, <1>4 DEF MarksStopAtBoundary
<1>. QED  BY <1>5, <1>6, <1>7, <1>8

LEMMA MarksDropChild ==
    ASSUME MarksInv, NEW n \in Nodes, NEW child \in Nodes, DropChild(n, child)
    PROVE  Forest' /\ ViewOnTop' /\ LayingOK' /\ MarksStopAtBoundary'
<1>0. TypeOK /\ Forest /\ ViewOnTop /\ LayingOK /\ MarksStopAtBoundary
  BY DEF MarksInv
<1>1. /\ CanMutate(n) /\ parent[child] = n
      /\ relayout_root' = [m \in Nodes |-> IF m \in Cleaned(child) THEN None ELSE relayout_root[m]]
      /\ parent' = [parent EXCEPT ![child] = None]
      /\ attached' = attached \ Subtree(child)
      /\ above' = [m \in Nodes |-> IF m \in Subtree(child) THEN above[m] \ above[n] ELSE above[m]]
      /\ UNCHANGED <<laying, in_frame>>
  BY DEF DropChild
<1>2. needs_layout \cup Cleaned(child) \subseteq needs_layout'
  <2>1. needs_layout \cup Cleaned(child) \in SUBSET Nodes
    BY <1>0, CleanedType DEF TypeOK
  <2>2. MarkNeedsLayoutWith(n, needs_layout \cup Cleaned(child))
    BY DEF DropChild
  <2>. QED  BY <1>0, <2>1, <2>2, LayoutMarked
<1>3. \A m \in Nodes : parent'[m] = IF m = child THEN None ELSE parent[m]
  BY <1>0, <1>1 DEF TypeOK
<1>4. n # None /\ Root \in Nodes
  BY TreeAssumption
<1>5. Forest'
  BY <1>0, <1>1, ForestDrop
<1>6. ViewOnTop'
  <2>1. above[Root] = {Root} /\ child # Root
    BY <1>0, <1>1, <1>4 DEF Forest, ViewOnTop
  <2>2. Root \notin Cleaned(child)
    BY <2>1 DEF Cleaned, Subtree
  <2>3. relayout_root'[Root] = Root /\ parent'[Root] = None
    BY <1>0, <1>1, <1>3, <1>4, <2>1, <2>2 DEF ViewOnTop
  <2>4. child \in Subtree(child)
    BY <1>0 DEF Forest, Subtree
  <2>5. \A m \in attached' : parent'[m] = None => m = Root
    BY <1>0, <1>1, <1>3, <2>4 DEF ViewOnTop, TypeOK
  <2>. QED  BY <2>3, <2>5 DEF ViewOnTop
<1>7. LayingOK'
  <2>1. \A i \in 1..Len(laying) : laying[i].node \in Nodes /\ child \notin above[laying[i].node]
    BY <1>0, <1>1, LayingNodes, DropsBelow
  <2>2. \A i \in 1..Len(laying) : /\ above'[laying[i].node] = above[laying[i].node]
                                  /\ parent'[laying[i].node] = parent[laying[i].node]
    <3>1. \A m \in Nodes : child \notin above[m] => above'[m] = above[m] /\ parent'[m] = parent[m]
      BY <1>0, <1>1, <1>3 DEF Forest, Subtree
    <3>. QED  BY <2>1, <3>1
  <2>3. Len(laying) \in Nat
    <3>1. laying \in Seq(Layouts)
      BY <1>0 DEF TypeOK, Layouts
    <3>. QED  BY <3>1, LenProperties
  <2>4. \A i \in 1..Len(laying) : \A j \in i..Len(laying) :
            laying[i].node \in above'[laying[j].node]
    BY <1>0, <2>2, <2>3 DEF LayingOK
  <2>. QED  BY <1>0, <1>1, <2>2, <2>4 DEF LayingOK
<1>8. MarksStopAtBoundary'
  <2>1. ASSUME child \notin Cleaned(child) PROVE relayout_root[child] = child
    <3>1. PICK m \in Nodes : m \in above[child] \cap Subtree(child) \cap Boundaries
      BY <1>0, <2>1 DEF Cleaned, Subtree, Forest
    <3>2. m \in above[child] /\ child \in above[m] /\ relayout_root[m] = m
      BY <3>1 DEF Subtree, Boundaries
    <3>. QED  BY <1>0, <3>2 DEF Forest
  <2>2. ASSUME NEW m \in Nodes \ needs_layout', parent'[m] = None
        PROVE  relayout_root'[m] = m
    <3>1. m \notin needs_layout /\ m \notin Cleaned(child)
      BY <1>2, <2>2
    <3>2. relayout_root'[m] = relayout_root[m]
      BY <1>1, <3>1
    <3>3. m = child \/ parent[m] = None
      BY <1>3, <2>2
    <3>. QED  BY <1>0, <2>1, <3>1, <3>2, <3>3 DEF MarksStopAtBoundary
  <2>. QED  BY <2>2 DEF MarksStopAtBoundary
<1>. QED  BY <1>5, <1>6, <1>7, <1>8

LEMMA MarksLayout ==
    ASSUME MarksInv, NEW c \in Nodes, NEW is_boundary \in BOOLEAN, NEW same_constraints \in BOOLEAN,
           Layout(c, is_boundary, same_constraints)
    PROVE  Forest' /\ ViewOnTop' /\ LayingOK' /\ MarksStopAtBoundary'
<1>0. TypeOK /\ Forest /\ ViewOnTop /\ LayingOK /\ MarksStopAtBoundary
  BY DEF MarksInv
<1> DEFINE root == IF is_boundary THEN c ELSE relayout_root[Top.node]
           visited == [laying EXCEPT ![Len(laying)].laid_out = @ \cup {c}]
<1>1. /\ laying # <<>> /\ parent[c] = Top.node
      /\ \/ laying' = visited /\ relayout_root' = relayout_root
         \/ /\ laying' = Append(visited, [node |-> c, laid_out |-> {}])
            /\ relayout_root' = [relayout_root EXCEPT ![c] = root]
      /\ parent' = parent /\ above' = above /\ attached' = attached
      /\ needs_layout' = needs_layout /\ in_frame' = in_frame
  BY DEF Layout, tree, marks
<1>2. /\ visited \in Seq(Layouts)
      /\ Len(visited) = Len(laying)
      /\ \A i \in 1..Len(laying) : visited[i].node = laying[i].node
  BY <1>0, <1>1, VisitedNodes
<1>3. /\ Top.node \in Nodes /\ Top = laying[Len(laying)]
      /\ Len(laying) \in Nat /\ Len(laying) \in 1..Len(laying)
  BY <1>0, <1>1, TopType DEF Layouts
<1>4. Top.node # None
  BY <1>3, TreeAssumption
<1>5. \A m \in Nodes : m # c => relayout_root'[m] = relayout_root[m]
  BY <1>0, <1>1 DEF TypeOK
<1>6. Forest'
  BY <1>0, <1>1 DEF Forest
<1>7. ViewOnTop'
  BY <1>0, <1>1, <1>4, <1>5, TreeAssumption DEF ViewOnTop
<1>8. MarksStopAtBoundary'
  BY <1>0, <1>1, <1>4, <1>5 DEF MarksStopAtBoundary
<1> HIDE DEF visited
<1>9. LayingOK'
  <2>1. CASE laying' = visited
    <3>1. \A i \in 1..Len(laying) : laying'[i].node = laying[i].node
      BY <1>2, <2>1
    <3>2. Len(laying') = Len(laying)
      BY <1>2, <2>1
    <3>3. \A i \in 1..Len(laying) : \A j \in i..Len(laying) :
              laying'[i].node \in above'[laying'[j].node]
      BY <1>0, <1>1, <1>3, <3>1 DEF LayingOK
    <3>. QED  BY <1>0, <1>1, <3>1, <3>2, <3>3 DEF LayingOK
  <2>2. CASE laying' = Append(visited, [node |-> c, laid_out |-> {}])
    <3> DEFINE k == Len(laying)
    <3>1. /\ Len(laying') = k + 1
          /\ \A i \in 1..k : laying'[i].node = laying[i].node
          /\ laying'[k + 1].node = c
      BY <1>2, <2>2, PushedNodes
    <3>2. k \in Nat
      BY <1>3
    <3>3. \A i \in 1..k : laying[i].node \in above[c]
      <4>1. \A i \in 1..k : laying[i].node \in above[Top.node]
        BY <1>0, <1>3 DEF LayingOK
      <4>2. above[c] = {c} \cup above[Top.node]
        BY <1>0, <1>1, <1>4 DEF Forest
      <4>. QED  BY <4>1, <4>2
    <3>4. c \in above[c]
      BY <1>0 DEF Forest
    <3>5. \A i \in 1..k : \A j \in i..k : laying[i].node \in above[laying[j].node]
      BY <1>0 DEF LayingOK
    <3>6. \A i \in 1..k : parent[laying[i].node] = None => laying[i].node = Root
      BY <1>0 DEF LayingOK
    <3> HIDE DEF k
    <3>7. ASSUME NEW i \in 1..(k + 1), NEW j \in i..(k + 1)
          PROVE  laying'[i].node \in above[laying'[j].node]
      <4>1. CASE j = k + 1 /\ i = k + 1
        BY <3>1, <3>4, <4>1
      <4>2. CASE j = k + 1 /\ i # k + 1
        <5>1. i \in 1..k
          BY <3>2, <4>2
        <5>. QED  BY <3>1, <3>3, <4>2, <5>1
      <4>3. CASE j # k + 1
        <5>1. i \in 1..k /\ j \in i..k /\ j \in 1..k
          BY <3>2, <4>3
        <5>. QED  BY <3>1, <3>5, <5>1
      <4>. QED  BY <4>1, <4>2, <4>3
    <3>8. ASSUME NEW i \in 1..(k + 1), parent[laying'[i].node] = None PROVE laying'[i].node = Root
      <4>1. CASE i = k + 1
        BY <1>1, <1>4, <3>1, <3>8, <4>1
      <4>2. CASE i # k + 1
        <5>1. i \in 1..k
          BY <3>2, <4>2
        <5>. QED  BY <3>1, <3>6, <3>8, <5>1
      <4>. QED  BY <4>1, <4>2
    <3>9. in_frame'
      BY <1>0, <1>1 DEF LayingOK
    <3>. QED  BY <1>1, <3>1, <3>7, <3>8, <3>9 DEF LayingOK
  <2>. QED  BY <1>1, <2>1, <2>2
<1>. QED  BY <1>6, <1>7, <1>8, <1>9

LEMMA MarksFinishLayout ==
    ASSUME MarksInv, FinishLayout
    PROVE  Forest' /\ ViewOnTop' /\ LayingOK' /\ MarksStopAtBoundary'
<1>0. TypeOK /\ Forest /\ ViewOnTop /\ LayingOK /\ MarksStopAtBoundary
  BY DEF MarksInv
<1>1. /\ laying # <<>>
      /\ laying' = SubSeq(laying, 1, Len(laying) - 1)
      /\ needs_layout' = needs_layout \ {Top.node}
      /\ parent' = parent /\ above' = above /\ attached' = attached
      /\ relayout_root' = relayout_root /\ in_frame' = in_frame
  BY DEF FinishLayout, tree, layout
<1>2. /\ Len(laying') = Len(laying) - 1
      /\ \A i \in 1..Len(laying') : laying'[i] = laying[i]
  BY <1>0, <1>1, PoppedNodes
<1>3. /\ Top = laying[Len(laying)]
      /\ Len(laying) \in Nat /\ Len(laying) \in 1..Len(laying)
  BY <1>0, <1>1, TopType
<1>4. parent[Top.node] = None => relayout_root[Top.node] = Top.node
  BY <1>0, <1>3 DEF LayingOK, ViewOnTop
<1>5. Forest' /\ ViewOnTop'
  BY <1>0, <1>1 DEF Forest, ViewOnTop
<1>6. MarksStopAtBoundary'
  BY <1>0, <1>1, <1>4 DEF MarksStopAtBoundary
<1>7. LayingOK'
  <2>1. in_frame'
    BY <1>0, <1>1 DEF LayingOK
  <2>2. ASSUME NEW i \in 1..Len(laying')
        PROVE  /\ parent[laying'[i].node] = None => laying'[i].node = Root
               /\ \A j \in i..Len(laying') : laying'[i].node \in above[laying'[j].node]
    <3>1. i \in 1..Len(laying) /\ laying'[i] = laying[i]
      BY <1>2, <1>3
    <3>2. \A j \in i..Len(laying') : j \in i..Len(laying) /\ laying'[j] = laying[j]
      BY <1>2, <1>3
    <3>. QED  BY <1>0, <3>1, <3>2 DEF LayingOK
  <2>. QED  BY <1>1, <2>1, <2>2 DEF LayingOK
<1>. QED  BY <1>5, <1>6, <1>7

LEMMA MarksNext == MarksInv /\ [Next]_vars => MarksInv'
<1> SUFFICES ASSUME MarksInv, [Next]_vars PROVE MarksInv'
  OBVIOUS
<1>0. TypeOK /\ Forest /\ ViewOnTop /\ LayingOK /\ MarksStopAtBoundary /\ TypeOK'
  BY TypeNext DEF MarksInv
<1> DEFINE Goal == Forest' /\ ViewOnTop' /\ LayingOK' /\ MarksStopAtBoundary'
(* Most steps leave the tree, its boundaries and what is being laid out alone. *)
<1>1. ASSUME UNCHANGED <<parent, attached, above, relayout_root, laying>>,
             needs_layout \subseteq needs_layout', laying # <<>> => in_frame'
      PROVE  Goal
  BY <1>0, <1>1 DEF Forest, ViewOnTop, LayingOK, MarksStopAtBoundary
<1>2. ASSUME BeginFrame PROVE Goal
  BY <1>1, <1>2 DEF BeginFrame, tree, layout
<1>3. ASSUME NEW n \in Nodes, LayoutWithoutResize(n) PROVE Goal
  <2>1. /\ laying = <<>> /\ in_frame' /\ needs_layout' = needs_layout
        /\ UNCHANGED <<parent, attached, above, relayout_root>>
    BY <1>3 DEF LayoutWithoutResize, tree, layout, marks
  <2>2. CASE laying' = laying
    BY <1>1, <2>1, <2>2
  <2>3. CASE n \in attached /\ laying' = Append(laying, [node |-> n, laid_out |-> {}])
    <3>1. laying \in Seq(Layouts) /\ Len(laying) = 0
      BY <1>0, <2>1, EmptySeq DEF TypeOK, Layouts
    <3>2. Len(laying') = 0 + 1 /\ laying'[0 + 1].node = n
      BY <2>3, <3>1, PushedNodes
    <3>3. Len(laying') = 1 /\ laying'[1].node = n
      BY <3>2
    <3>4. n \in above[n] /\ (parent[n] = None => n = Root)
      BY <1>0, <2>3 DEF Forest, ViewOnTop
    <3>5. LayingOK'
      BY <2>1, <3>3, <3>4 DEF LayingOK
    <3>. QED  BY <1>0, <2>1, <3>5 DEF Forest, ViewOnTop, MarksStopAtBoundary
  <2>. QED  BY <1>3, <2>2, <2>3 DEF LayoutWithoutResize, PerformLayout
<1>4. ASSUME NEW c \in Nodes, NEW is_boundary \in BOOLEAN, NEW same_constraints \in BOOLEAN,
             Layout(c, is_boundary, same_constraints)
      PROVE  Goal
  BY <1>4, MarksLayout
<1>5. ASSUME FinishLayout PROVE Goal
  BY <1>5, MarksFinishLayout
<1>6. ASSUME ThrowInLayout PROVE Goal
  <2>1. laying' = <<>> /\ needs_layout' = needs_layout
          /\ UNCHANGED <<parent, attached, above, relayout_root>>
    BY <1>6 DEF ThrowInLayout, tree, layout, marks
  <2>2. Len(laying') = 0
    BY <2>1, EmptySeq
  <2>3. LayingOK'
    BY <2>1, <2>2 DEF LayingOK
  <2>. QED  BY <1>0, <2>1, <2>3 DEF Forest, ViewOnTop, MarksStopAtBoundary
<1>7. ASSUME FlushPaint PROVE Goal
  <2>1. /\ laying = <<>> /\ needs_layout' = needs_layout
        /\ UNCHANGED <<parent, attached, above, relayout_root, laying>>
    BY <1>7 DEF FlushPaint, tree, layout
  <2>. QED  BY <1>1, <2>1
<1>8. ASSUME NEW n \in Nodes, NEW c \in Nodes, AdoptChild(n, c) PROVE Goal
  BY <1>8, MarksAdoptChild
<1>9. ASSUME NEW n \in Nodes, NEW c \in Nodes, DropChild(n, c) PROVE Goal
  BY <1>9, MarksDropChild
<1>10. ASSUME NEW n \in Nodes, ChangeLayout(n) PROVE Goal
  <2>1. needs_layout \subseteq needs_layout'
    BY <1>0, <1>10, LayoutMarked DEF ChangeLayout, TypeOK
  <2>2. UNCHANGED <<parent, attached, above, relayout_root, laying, in_frame>>
    BY <1>10 DEF ChangeLayout, tree, layout
  <2>. QED  BY <1>0, <1>1, <2>1, <2>2 DEF LayingOK
<1>11. ASSUME NEW n \in Nodes, ChangeLooks(n) PROVE Goal
  <2>1. UNCHANGED <<parent, attached, above, relayout_root, laying, in_frame, needs_layout>>
    BY <1>11 DEF ChangeLooks, tree, layout
  <2>. QED  BY <1>0, <1>1, <2>1 DEF LayingOK
<1>12. ASSUME UNCHANGED vars PROVE Goal
  <2>1. UNCHANGED <<parent, attached, above, relayout_root, laying, in_frame, needs_layout>>
    BY <1>12 DEF vars, tree, layout, marks
  <2>. QED  BY <1>0, <1>1, <2>1 DEF LayingOK
<1>13. Goal
  <2>. HIDE DEF Goal
  <2>. QED  BY <1>2, <1>3, <1>4, <1>5, <1>6, <1>7, <1>8, <1>9, <1>10, <1>11, <1>12 DEF Next, Frame
<1>. QED  BY <1>0, <1>13 DEF MarksInv

(***************************************************************************)
(* In a tree of any size, a clean node without a parent is its own         *)
(* boundary: markNeedsLayout never runs off the top of a tree, whatever    *)
(* was dropped, thrown or called back (object.dart, markNeedsLayout and    *)
(* _cleanRelayoutSubtreeRoot).                                             *)
(***************************************************************************)
THEOREM MarksStop == Spec => []MarksStopAtBoundary
<1>1. MarksInv => MarksStopAtBoundary
  BY DEF MarksInv
<1>. QED  BY <1>1, MarksInit, MarksNext, PTL DEF Spec
-----------------------------------------------------------------------------
(* Boundaries are above the nodes that are laid out for them *)

(* Each node above another has the next one on the way down as a child. *)
Paths == \A m \in Nodes : \A c \in above[m] \ {m} : \E z \in above[m] : parent[z] = c

(* Children that a layout which is running has not come to yet. *)
Awaited == {z \in Nodes : \E i \in 1..Len(laying) : /\ parent[z] = laying[i].node
                                                    /\ z \notin laying[i].laid_out}

(* A layout on the way from c down to m is about to lay out m's part of the subtree. *)
Stale(c, m) == \E z \in above[m] \cap Awaited : c \in above[parent[z]]

(* What is below a node has the node's root or one that is below it, too. *)
RootsAgree == \A m \in Nodes : \A c \in above[m] :
                  \/ relayout_root[m] \in {None, relayout_root[c]} \cup Subtree(c)
                  \/ Stale(c, m)

RootsAbove == \A m \in Nodes : relayout_root[m] \in above[m] \cup {None}

RootsInv == /\ MarksInv
            /\ Paths
            /\ Throws \notin liberties => RootsAgree /\ RootsAbove

LEMMA PathsAdopt ==
    ASSUME TypeOK, Forest, Paths, NEW n \in Nodes, NEW child \in Nodes,
           parent[child] = None, n \notin Subtree(child),
           parent' = [parent EXCEPT ![child] = n],
           above' = [m \in Nodes |-> IF m \in Subtree(child) THEN above[m] \cup above[n]
                                     ELSE above[m]]
    PROVE  Paths'
<1> SUFFICES ASSUME NEW m \in Nodes, NEW c \in above'[m], c # m
             PROVE  \E z \in above'[m] : parent'[z] = c
  BY DEF Paths
<1>1. above[m] \subseteq above'[m] /\ \A z \in Nodes : above[z] \subseteq Nodes
  BY DEF TypeOK
<1>2. \A z \in Nodes : parent'[z] = IF z = child THEN n ELSE parent[z]
  BY DEF TypeOK
<1>3. None \notin Nodes
  BY TreeAssumption
<1>4. ASSUME NEW k \in Nodes, c \in above[k], c # k, above[k] \subseteq above'[m]
      PROVE  \E z \in above'[m] : parent'[z] = c
  <2>1. PICK z \in above[k] : parent[z] = c
    BY <1>4 DEF Paths
  <2>2. z \in Nodes /\ z # child
    BY <1>1, <1>3, <1>4, <2>1
  <2>. QED  BY <1>2, <1>4, <2>1, <2>2
<1>5. CASE c \in above[m]
  BY <1>1, <1>4, <1>5
<1>6. CASE c \notin above[m]
  <2>1. child \in above[m] /\ c \in above[n] /\ above'[m] = above[m] \cup above[n]
    BY <1>6 DEF Subtree
  <2>2. CASE c = n
    BY <1>2, <2>1, <2>2
  <2>3. CASE c # n
    BY <1>4, <2>1, <2>3
  <2>. QED  BY <2>2, <2>3
<1>. QED  BY <1>5, <1>6

LEMMA PathsDrop ==
    ASSUME TypeOK, Forest, Paths, NEW n \in Nodes, NEW child \in Nodes,
           parent[child] = n,
           parent' = [parent EXCEPT ![child] = None],
           above' = [m \in Nodes |-> IF m \in Subtree(child) THEN above[m] \ above[n]
                                     ELSE above[m]]
    PROVE  Paths'
<1> SUFFICES ASSUME NEW m \in Nodes, NEW c \in above'[m], c # m
             PROVE  \E z \in above'[m] : parent'[z] = c
  BY DEF Paths
<1>1. c \in above[m] /\ above[m] \subseteq Nodes
  BY DEF TypeOK
<1>2. PICK z \in above[m] : parent[z] = c
  BY <1>1 DEF Paths
<1>3. c \in Nodes /\ z \in Nodes /\ c # None
  BY <1>1, <1>2, TreeAssumption
<1>4. c \in above[z]
  BY <1>2, <1>3 DEF Forest
<1>5. CASE child \in above[m]
  <2>1. c \notin above[n]
    BY <1>5 DEF Subtree
  <2>2. z \notin above[n]
    BY <1>3, <1>4, <2>1 DEF Forest
  <2>3. z # child
    <3>1. n \in above[n]
      BY DEF Forest
    <3>. QED  BY <1>2, <2>1, <3>1
  <2>. QED  BY <1>2, <1>3, <1>5, <2>2, <2>3 DEF Subtree, TypeOK
<1>6. CASE child \notin above[m]
  <2>1. z # child /\ above'[m] = above[m]
    BY <1>2, <1>6 DEF Subtree
  <2>. QED  BY <1>2, <1>3, <2>1 DEF TypeOK
<1>. QED  BY <1>5, <1>6

(* Nobody waits for what has no parent, and a layout callback changes what is below the last. *)
LEMMA AwaitedBelow ==
    ASSUME TypeOK, LayingOK, NEW z \in Awaited
    PROVE  /\ laying # <<>>
           /\ z \in Nodes /\ parent[z] \in Nodes
           /\ \E i \in 1..Len(laying) : parent[z] = laying[i].node
           /\ parent[z] \in above[Top.node]
<1>1. PICK i \in 1..Len(laying) : parent[z] = laying[i].node
  BY DEF Awaited
<1>2. parent[z] \in Nodes /\ z \in Nodes
  BY <1>1, LayingNodes DEF Awaited
<1>3. laying # <<>>
  <2>1. laying \in Seq(Layouts)
    BY DEF TypeOK, Layouts
  <2>. QED  BY <1>1, <2>1, EmptySeq
<1>4. Len(laying) \in i..Len(laying) /\ Top = laying[Len(laying)]
  <2>1. Len(laying) \in 1..Len(laying) /\ Len(laying) \in Nat /\ Top = laying[Len(laying)]
    BY <1>3, TopType
  <2>. QED  BY <1>1, <2>1
<1>5. parent[z] \in above[Top.node]
  BY <1>1, <1>4 DEF LayingOK
<1>. QED  BY <1>1, <1>2, <1>3, <1>5

(* Steps that leave the tree and its roots alone, and forget no child that is awaited. *)
LEMMA RootsStay ==
    ASSUME RootsInv, MarksInv', UNCHANGED <<parent, above, relayout_root, liberties>>,
           Throws \notin liberties => Awaited \subseteq Awaited'
    PROVE  RootsInv'
<1>1. Paths'
  BY DEF RootsInv, Paths
<1>2. ASSUME Throws \notin liberties PROVE RootsAgree'
  <2> SUFFICES ASSUME NEW m \in Nodes, NEW c \in above[m]
               PROVE  \/ relayout_root[m] \in {None, relayout_root[c]} \cup Subtree(c)
                      \/ Stale(c, m)'
    BY DEF RootsAgree, Subtree
  <2>1. Stale(c, m) => Stale(c, m)'
    BY <1>2 DEF Stale
  <2>. QED  BY <1>2, <2>1 DEF RootsInv, RootsAgree
<1>3. ASSUME Throws \notin liberties PROVE RootsAbove'
  BY <1>3 DEF RootsInv, RootsAbove
<1>. QED  BY <1>1, <1>2, <1>3 DEF RootsInv
LEMMA RootsAdoptChild ==
    ASSUME RootsInv, MarksInv', NEW n \in Nodes, NEW child \in Nodes, AdoptChild(n, child)
    PROVE  RootsInv'
<1>0. TypeOK /\ Forest /\ LayingOK /\ Paths
  BY DEF RootsInv, MarksInv
<1>1. /\ parent[child] = None /\ n \notin Subtree(child)
      /\ parent' = [parent EXCEPT ![child] = n]
      /\ above' = [m \in Nodes |-> IF m \in Subtree(child) THEN above[m] \cup above[n] ELSE above[m]]
      /\ UNCHANGED <<relayout_root, laying, liberties>>
  BY DEF AdoptChild, layout, history
<1>2. Paths'
  BY <1>0, <1>1, PathsAdopt
<1>3. /\ None \notin Nodes
      /\ \A m \in Nodes : above[m] \subseteq above'[m]
      /\ \A m \in Nodes : above'[m] = IF m \in Subtree(child) THEN above[m] \cup above[n] ELSE above[m]
      /\ \A m \in Nodes : parent'[m] = IF m = child THEN n ELSE parent[m]
  BY <1>0, <1>1, TreeAssumption DEF TypeOK
<1>4. ASSUME Throws \notin liberties PROVE RootsAbove'
  BY <1>1, <1>3, <1>4 DEF RootsInv, RootsAbove
<1>5. ASSUME Throws \notin liberties PROVE RootsAgree'
  <2>1. \A z \in Awaited : z \in Awaited' /\ parent'[z] = parent[z] /\ parent[z] \in Nodes
    <3> SUFFICES ASSUME NEW z \in Awaited
                 PROVE  z \in Awaited' /\ parent'[z] = parent[z] /\ parent[z] \in Nodes
      OBVIOUS
    <3>1. z \in Nodes /\ parent[z] \in Nodes
      BY <1>0, AwaitedBelow
    <3>2. parent'[z] = parent[z]
      BY <1>1, <1>3, <3>1
    <3>. QED  BY <1>1, <3>1, <3>2 DEF Awaited
  <2> SUFFICES ASSUME NEW m \in Nodes, NEW c \in above'[m]
               PROVE  \/ relayout_root[m] \in {None, relayout_root[c]} \cup Subtree(c)'
                      \/ Stale(c, m)'
    BY <1>1 DEF RootsAgree
  <2>2. above[m] \subseteq Nodes /\ above[n] \subseteq Nodes /\ c \in Nodes
    BY <1>0, <1>3 DEF TypeOK
  <2>3. CASE c \in above[m]
    <3>1. Subtree(c) \subseteq Subtree(c)'
      BY <1>3 DEF Subtree
    <3>2. Stale(c, m) => Stale(c, m)'
      BY <1>3, <2>1 DEF Stale
    <3>. QED  BY <1>5, <2>3, <3>1, <3>2 DEF RootsInv, RootsAgree
  <2>4. CASE c \notin above[m]
    <3>1. child \in above[m] /\ c \in above[n]
      BY <1>3, <2>4 DEF Subtree
    <3>2. above[child] = {child}
      BY <1>0, <1>1 DEF Forest
    <3>3. \A q \in above[m] : child \in above[q]
      BY <1>0, <3>1, <3>2 DEF Forest
    <3>4. relayout_root[m] \in above[m] \cup {None}
      BY <1>5 DEF RootsInv, RootsAbove
    <3>5. ASSUME relayout_root[m] \in above[m] PROVE relayout_root[m] \in Subtree(c)'
      BY <1>3, <2>2, <3>1, <3>3, <3>5 DEF Subtree
    <3>. QED  BY <3>4, <3>5
  <2>. QED  BY <2>3, <2>4
<1>. QED  BY <1>1, <1>2, <1>4, <1>5 DEF RootsInv

LEMMA RootsDropChild ==
    ASSUME RootsInv, MarksInv', NEW n \in Nodes, NEW child \in Nodes, DropChild(n, child)
    PROVE  RootsInv'
<1>0. TypeOK /\ Forest /\ LayingOK /\ Paths
  BY DEF RootsInv, MarksInv
<1>1. /\ CanMutate(n) /\ parent[child] = n
      /\ relayout_root' = [m \in Nodes |-> IF m \in Cleaned(child) THEN None ELSE relayout_root[m]]
      /\ parent' = [parent EXCEPT ![child] = None]
      /\ above' = [m \in Nodes |-> IF m \in Subtree(child) THEN above[m] \ above[n] ELSE above[m]]
      /\ UNCHANGED <<laying, liberties>>
  BY DEF DropChild, history
<1>2. Paths'
  BY <1>0, <1>1, PathsDrop
<1>3. /\ None \notin Nodes
      /\ \A m \in Nodes : above'[m] = IF child \in above[m] THEN above[m] \ above[n] ELSE above[m]
      /\ \A m \in Nodes : parent'[m] = IF m = child THEN None ELSE parent[m]
      /\ \A m \in Nodes : relayout_root'[m] = IF m \in Cleaned(child) THEN None ELSE relayout_root[m]
      /\ \A m \in Nodes : above[m] \subseteq Nodes
  BY <1>0, <1>1, TreeAssumption DEF TypeOK, Subtree
<1>4. child \notin above[n] /\ above[child] = {child} \cup above[n]
  BY <1>0, <1>1, <1>3 DEF Forest
(* Nothing that is being laid out is dropped. *)
<1>5. \A z \in Awaited : child \notin above[parent[z]] /\ parent[z] \in Nodes /\ z \in Nodes
  <2> SUFFICES ASSUME NEW z \in Awaited
               PROVE  child \notin above[parent[z]] /\ parent[z] \in Nodes /\ z \in Nodes
    OBVIOUS
  <2>1. PICK i \in 1..Len(laying) : parent[z] = laying[i].node
    BY <1>0, AwaitedBelow
  <2>2. child \notin above[laying[i].node]
    BY <1>0, <1>1, DropsBelow
  <2>. QED  BY <1>0, <2>1, <2>2, AwaitedBelow
(* A boundary of the dropped subtree keeps what is below it to itself. *)
<1>6. ASSUME Throws \notin liberties,
             NEW m \in Nodes, NEW k \in above[m], child \in above[k], relayout_root[k] = k
      PROVE  relayout_root[m] \in {None} \cup Subtree(k)
  <2>1. ~Stale(k, m)
    <3> SUFFICES ASSUME NEW z \in above[m] \cap Awaited, k \in above[parent[z]] PROVE FALSE
      BY DEF Stale
    <3>1. above[k] \subseteq above[parent[z]]
      BY <1>0, <1>5 DEF Forest
    <3>. QED  BY <1>5, <1>6, <3>1
  <2>2. k \in Subtree(k)
    BY <1>0, <1>3, <1>6 DEF Forest, Subtree
  <2>. QED  BY <1>6, <2>1, <2>2 DEF RootsInv, RootsAgree
<1>7. ASSUME NEW m \in Nodes, child \in above[m], m \notin Cleaned(child)
      PROVE  \E k \in above[m] : child \in above[k] /\ relayout_root[k] = k
  BY <1>7 DEF Cleaned, Subtree, Boundaries
<1>8. ASSUME Throws \notin liberties PROVE RootsAbove'
  <2> SUFFICES ASSUME NEW m \in Nodes PROVE relayout_root'[m] \in above'[m] \cup {None}
    BY DEF RootsAbove
  <2>1. relayout_root[m] \in above[m] \cup {None}
    BY <1>8 DEF RootsInv, RootsAbove
  <2>2. CASE m \in Cleaned(child)
    BY <1>3, <2>2
  <2>3. CASE child \notin above[m]
    BY <1>3, <2>1, <2>3 DEF Cleaned, Subtree
  <2>4. CASE child \in above[m] /\ m \notin Cleaned(child)
    <3>1. PICK k \in above[m] : child \in above[k] /\ relayout_root[k] = k
      BY <1>7, <2>4
    <3>2. relayout_root[m] \in {None} \cup Subtree(k)
      BY <1>6, <1>8, <3>1
    <3>3. ASSUME relayout_root[m] \in Subtree(k) PROVE relayout_root[m] \notin above[n]
      <4>1. child \in above[relayout_root[m]]
        BY <1>0, <3>1, <3>3 DEF Forest, Subtree
      <4>2. relayout_root[m] \in above[n] => above[relayout_root[m]] \subseteq above[n]
        BY <1>0 DEF Forest
      <4>. QED  BY <1>4, <4>1, <4>2
    <3>. QED  BY <1>3, <2>1, <2>4, <3>2, <3>3
  <2>. QED  BY <2>2, <2>3, <2>4
<1>9. ASSUME Throws \notin liberties PROVE RootsAgree'
  <2> SUFFICES ASSUME NEW m \in Nodes, NEW c \in above'[m]
               PROVE  \/ relayout_root'[m] \in {None, relayout_root'[c]} \cup Subtree(c)'
                      \/ Stale(c, m)'
    BY DEF RootsAgree
  <2>1. c \in above[m] /\ c \in Nodes /\ above[c] \subseteq above[m]
    <3>1. c \in above[m]
      BY <1>3
    <3>. QED  BY <1>0, <1>3, <3>1 DEF Forest
  <2>2. \/ relayout_root[m] \in {None, relayout_root[c]} \cup Subtree(c)
        \/ Stale(c, m)
    BY <1>9, <2>1 DEF RootsInv, RootsAgree
  <2>3. CASE m \in Cleaned(child)
    BY <1>3, <2>3
  <2>4. CASE child \notin above[m]
    <3>1. child \notin above[c] /\ relayout_root'[c] = relayout_root[c]
            /\ relayout_root'[m] = relayout_root[m]
      BY <1>3, <2>1, <2>4 DEF Cleaned, Subtree
    <3>2. ASSUME relayout_root[m] \in Subtree(c) PROVE relayout_root[m] \in Subtree(c)'
      <4>1. relayout_root[m] \in above[m]
        BY <1>3, <1>9, <3>2 DEF RootsInv, RootsAbove, Subtree
      <4>2. child \notin above[relayout_root[m]]
        BY <1>0, <1>3, <2>4, <4>1 DEF Forest
      <4>. QED  BY <1>3, <3>2, <4>2 DEF Subtree
    <3>3. ASSUME Stale(c, m) PROVE Stale(c, m)'
      <4>1. PICK z \in above[m] \cap Awaited : c \in above[parent[z]]
        BY <3>3 DEF Stale
      <4>2. z # child /\ parent'[z] = parent[z] /\ z \in above'[m]
        BY <1>3, <1>5, <2>4, <4>1
      <4>3. above'[parent[z]] = above[parent[z]]
        BY <1>3, <1>5, <4>1
      <4>4. z \in Awaited'
        BY <1>1, <4>1, <4>2 DEF Awaited
      <4>. QED  BY <4>1, <4>2, <4>3, <4>4 DEF Stale
    <3>. QED  BY <2>2, <3>1, <3>2, <3>3
  <2>5. CASE child \in above[m] /\ m \notin Cleaned(child)
    <3>1. relayout_root'[m] = relayout_root[m]
      BY <1>3, <2>5
    <3>2. c \notin above[n]
      BY <1>3, <2>5
    <3>3. child \in above[c]
      <4>1. c \in above[child] \/ child \in above[c]
        BY <1>0, <2>1, <2>5 DEF Forest
      <4>2. child \in above[child]
        BY <1>4
      <4>. QED  BY <1>4, <3>2, <4>1, <4>2
    <3>4. \A q \in Subtree(c) : q \in Subtree(c)'
      <4> SUFFICES ASSUME NEW q \in Subtree(c) PROVE q \in Subtree(c)'
        OBVIOUS
      <4>. QED  BY <1>3, <3>2 DEF Subtree
    <3>5. ~Stale(c, m)
      <4> SUFFICES ASSUME NEW z \in above[m] \cap Awaited, c \in above[parent[z]] PROVE FALSE
        BY DEF Stale
      <4>1. above[c] \subseteq above[parent[z]]
        BY <1>0, <1>5 DEF Forest
      <4>. QED  BY <1>5, <3>3, <4>1
    <3>6. CASE c \notin Cleaned(child)
      BY <1>3, <2>1, <2>2, <3>1, <3>4, <3>5, <3>6
    <3>7. CASE c \in Cleaned(child)
      <4>1. PICK k \in above[m] : child \in above[k] /\ relayout_root[k] = k
        BY <1>7, <2>5
      <4>2. k \notin above[c]
        BY <1>3, <2>1, <3>7, <4>1 DEF Cleaned, Subtree, Boundaries
      <4>3. c \in above[k] /\ k \in Nodes
        BY <1>0, <1>3, <2>1, <4>1, <4>2 DEF Forest
      <4>4. Subtree(k) \subseteq Subtree(c)
        BY <1>0, <4>3 DEF Forest, Subtree
      <4>5. relayout_root[m] \in {None} \cup Subtree(k)
        BY <1>6, <1>9, <4>1
      <4>. QED  BY <3>1, <3>4, <4>4, <4>5
    <3>. QED  BY <3>6, <3>7
  <2>. QED  BY <2>3, <2>4, <2>5
<1>. QED  BY <1>1, <1>2, <1>8, <1>9 DEF RootsInv

(* What the layout of a child does to the layouts that run. *)
LEMMA LaidOut ==
    ASSUME TypeOK, NEW c \in Nodes, NEW is_boundary \in BOOLEAN, NEW same_constraints \in BOOLEAN,
           Layout(c, is_boundary, same_constraints)
    PROVE  /\ Len(laying) \in Nat /\ Len(laying) \in 1..Len(laying)
           /\ Top.node \in Nodes /\ Top = laying[Len(laying)] /\ parent[c] = Top.node
           /\ c \notin Top.laid_out
           /\ Len(laying') = Len(laying) \/ Len(laying') = Len(laying) + 1
           /\ \A i \in 1..Len(laying) :
                  /\ laying'[i].node = laying[i].node
                  /\ laying'[i].laid_out = IF i = Len(laying) THEN laying[i].laid_out \cup {c}
                                           ELSE laying[i].laid_out
           /\ Len(laying') = Len(laying) + 1 =>
                  laying'[Len(laying) + 1] = [node |-> c, laid_out |-> {}]
           /\ Len(laying') = Len(laying) => c \notin needs_layout
<1> DEFINE visited == [laying EXCEPT ![Len(laying)].laid_out = @ \cup {c}]
           entry == [node |-> c, laid_out |-> {}]
<1>1. /\ laying # <<>> /\ parent[c] = Top.node /\ c \notin Top.laid_out
      /\ \/ laying' = visited /\ c \notin needs_layout
         \/ laying' = Append(visited, entry)
  BY DEF Layout, IsLaidOut
<1>2. /\ Len(laying) \in Nat /\ Len(laying) \in 1..Len(laying)
      /\ Top \in Layouts /\ Top = laying[Len(laying)]
  BY <1>1, TopType
<1>3. /\ visited \in Seq(Layouts)
      /\ Len(visited) = Len(laying)
      /\ \A i \in 1..Len(laying) : visited[i].node = laying[i].node
  BY <1>1, VisitedNodes
<1>4. \A i \in 1..Len(laying) :
          visited[i].laid_out = IF i = Len(laying) THEN laying[i].laid_out \cup {c}
                                ELSE laying[i].laid_out
  <2>1. laying \in Seq(Layouts)
    BY DEF TypeOK, Layouts
  <2> DEFINE e == [Top EXCEPT !.laid_out = @ \cup {c}]
  <2>2. visited = [laying EXCEPT ![Len(laying)] = e]
    BY <1>2
  <2>3. e \in Layouts /\ e.laid_out = Top.laid_out \cup {c}
    BY <1>2 DEF Layouts
  <2> HIDE DEF e, visited
  <2>4. \A i \in 1..Len(laying) : visited[i] = IF i = Len(laying) THEN e ELSE laying[i]
    BY <1>2, <2>1, <2>2, <2>3, ExceptSeq
  <2>. QED  BY <1>2, <2>3, <2>4
<1>5. entry \in Layouts
  BY DEF Layouts
<1> HIDE DEF visited, entry
<1>6. /\ Len(Append(visited, entry)) = Len(laying) + 1
      /\ \A i \in 1..Len(laying) : Append(visited, entry)[i] = visited[i]
      /\ Append(visited, entry)[Len(laying) + 1] = entry
  BY <1>3, <1>5, AppendProperties
<1>7. Top.node \in Nodes
  BY <1>2 DEF Layouts
<1>8. CASE laying' = visited /\ c \notin needs_layout
  <2>1. Len(laying') = Len(laying) /\ Len(laying') # Len(laying) + 1
    BY <1>2, <1>3, <1>8
  <2>2. \A i \in 1..Len(laying) :
            /\ laying'[i].node = laying[i].node
            /\ laying'[i].laid_out = IF i = Len(laying) THEN laying[i].laid_out \cup {c}
                                     ELSE laying[i].laid_out
    BY <1>3, <1>4, <1>8
  <2>. QED  BY <1>1, <1>2, <1>7, <1>8, <2>1, <2>2
<1>9. CASE laying' = Append(visited, entry)
  <2>1. Len(laying') = Len(laying) + 1 /\ Len(laying') # Len(laying)
    BY <1>2, <1>6, <1>9
  <2>2. \A i \in 1..Len(laying) :
            /\ laying'[i].node = laying[i].node
            /\ laying'[i].laid_out = IF i = Len(laying) THEN laying[i].laid_out \cup {c}
                                     ELSE laying[i].laid_out
    BY <1>3, <1>4, <1>6, <1>9
  <2>3. laying'[Len(laying) + 1] = [node |-> c, laid_out |-> {}]
    BY <1>6, <1>9 DEF entry
  <2>. QED  BY <1>1, <1>2, <1>7, <2>1, <2>2, <2>3
<1>. QED  BY <1>1, <1>8, <1>9

LEMMA RootsLayout ==
    ASSUME RootsInv, MarksInv', NEW c0 \in Nodes, NEW is_boundary \in BOOLEAN,
           NEW same_constraints \in BOOLEAN, Layout(c0, is_boundary, same_constraints)
    PROVE  RootsInv'
<1>0. TypeOK /\ Forest /\ LayingOK /\ Paths
  BY DEF RootsInv, MarksInv
<1> DEFINE t == Top.node
           root == IF is_boundary THEN c0 ELSE relayout_root[t]
<1>1. UNCHANGED <<parent, above, liberties>>
  BY DEF Layout, tree, history
<1>2. /\ t \in Nodes /\ parent[c0] = t /\ t # None /\ t \in above[t]
      /\ above[c0] = {c0} \cup above[t] /\ c0 \notin above[t]
      /\ c0 \in above[c0]
      /\ \A m \in Nodes : above[m] \subseteq Nodes
  <2>1. t \in Nodes /\ parent[c0] = t /\ t # None
    BY <1>0, LaidOut, TreeAssumption
  <2>. QED  BY <1>0, <2>1 DEF Forest, TypeOK
(* Either the child was laid out for this root before, or its own layout begins. *)
<1>3. \/ relayout_root' = relayout_root /\ relayout_root[c0] = root
      \/ /\ relayout_root' = [relayout_root EXCEPT ![c0] = root]
         /\ Len(laying') = Len(laying) + 1
  <2>1. CASE IsLaidOut(c0, root, same_constraints)
    BY <2>1 DEF Layout, IsLaidOut
  <2>2. CASE ~IsLaidOut(c0, root, same_constraints)
    <3> DEFINE visited == [laying EXCEPT ![Len(laying)].laid_out = @ \cup {c0}]
    <3>1. /\ laying' = Append(visited, [node |-> c0, laid_out |-> {}])
          /\ relayout_root' = [relayout_root EXCEPT ![c0] = root]
          /\ laying # <<>>
      BY <2>2 DEF Layout
    <3>2. visited \in Seq(Layouts) /\ Len(visited) = Len(laying)
      BY <1>0, <3>1, VisitedNodes
    <3> HIDE DEF visited
    <3>3. Len(laying') = Len(laying) + 1
      BY <3>1, <3>2, PushedNodes
    <3>. QED  BY <3>1, <3>3
  <2>. QED  BY <2>1, <2>2
<1>4. \A m \in Nodes : m # c0 => relayout_root'[m] = relayout_root[m]
  BY <1>0, <1>3 DEF TypeOK
<1>5. relayout_root'[c0] = root
  BY <1>0, <1>3 DEF TypeOK
<1> HIDE DEF root
<1>6. root = c0 \/ root = relayout_root[t]
  BY DEF root
(* The other children that were awaited still are. *)
<1>7. ASSUME NEW z \in Awaited, z # c0 PROVE z \in Awaited'
  <2>1. PICK i \in 1..Len(laying) : parent[z] = laying[i].node /\ z \notin laying[i].laid_out
    BY DEF Awaited
  <2>2. /\ i \in 1..Len(laying')
        /\ laying'[i].node = laying[i].node
        /\ z \notin laying'[i].laid_out
    <3>1. /\ Len(laying) \in Nat
          /\ Len(laying') = Len(laying) \/ Len(laying') = Len(laying) + 1
          /\ laying'[i].node = laying[i].node
          /\ laying'[i].laid_out = IF i = Len(laying) THEN laying[i].laid_out \cup {c0}
                                   ELSE laying[i].laid_out
      BY <1>0, LaidOut
    <3>. QED  BY <1>7, <2>1, <3>1
  <2>3. z \in Nodes
    BY DEF Awaited
  <2>. QED  BY <1>1, <2>1, <2>2, <2>3 DEF Awaited
<1>8. ASSUME NEW z \in Nodes, parent[z] = c0, Len(laying') = Len(laying) + 1 PROVE z \in Awaited'
  <2>1. /\ Len(laying) \in Nat
        /\ laying'[Len(laying) + 1] = [node |-> c0, laid_out |-> {}]
    BY <1>0, <1>8, LaidOut
  <2>2. Len(laying) + 1 \in 1..Len(laying')
    BY <1>8, <2>1
  <2>. QED  BY <1>1, <1>8, <2>1, <2>2 DEF Awaited
<1>9. \A z \in Awaited : parent[z] \in above[t]
  BY <1>0, AwaitedBelow
(* Nothing is awaited below the child. *)
<1>10. \A c, m \in Nodes : c0 \in above[c] => ~Stale(c, m)
  <2> SUFFICES ASSUME NEW c \in Nodes, NEW m \in Nodes, c0 \in above[c],
                      NEW z \in above[m] \cap Awaited, c \in above[parent[z]]
               PROVE  FALSE
    BY DEF Stale
  <2>1. c \in above[t]
    BY <1>0, <1>2, <1>9 DEF Forest
  <2>. QED  BY <1>0, <1>2, <2>1 DEF Forest
<1>11. \A m \in Nodes : \A c \in above[m] : Stale(c, m) /\ c0 \notin above[m] => Stale(c, m)'
  BY <1>1, <1>7 DEF Stale
(* What is above the parent agrees with it. *)
<1>12. ASSUME Throws \notin liberties, NEW c \in above[t], NEW m \in Nodes, c0 \in above[m]
       PROVE  \/ relayout_root[t] \in {None, relayout_root[c]} \cup Subtree(c)
              \/ Stale(c, m)'
  <2>1. \/ relayout_root[t] \in {None, relayout_root[c]} \cup Subtree(c)
        \/ Stale(c, t)
    BY <1>2, <1>12 DEF RootsInv, RootsAgree
  <2>2. ASSUME Stale(c, t) PROVE Stale(c, m)'
    <3>1. PICK z \in above[t] \cap Awaited : c \in above[parent[z]]
      BY <2>2 DEF Stale
    <3>2. z \in Awaited'
      BY <1>2, <1>7, <3>1
    <3>3. z \in above[m]
      <4>1. above[c0] \subseteq above[m]
        BY <1>0, <1>12 DEF Forest
      <4>. QED  BY <1>2, <3>1, <4>1
    <3>. QED  BY <1>1, <3>1, <3>2, <3>3 DEF Stale
  <2>. QED  BY <2>1, <2>2
<1>13. ASSUME Throws \notin liberties PROVE RootsAbove'
  <2>1. relayout_root[t] \in above[t] \cup {None}
    BY <1>2, <1>13 DEF RootsInv, RootsAbove
  <2>2. root \in above[c0] \cup {None}
    BY <1>2, <1>6, <2>1
  <2>3. \A m \in Nodes : m # c0 => relayout_root[m] \in above[m] \cup {None}
    BY <1>13 DEF RootsInv, RootsAbove
  <2>. QED  BY <1>1, <1>4, <1>5, <2>2, <2>3 DEF RootsAbove
<1>14. ASSUME Throws \notin liberties PROVE RootsAgree'
  <2> SUFFICES ASSUME NEW m \in Nodes, NEW c \in above[m]
               PROVE  \/ relayout_root'[m] \in {None, relayout_root'[c]} \cup Subtree(c)
                      \/ Stale(c, m)'
    BY <1>1 DEF RootsAgree, Subtree
  <2>1. \/ relayout_root[m] \in {None, relayout_root[c]} \cup Subtree(c)
        \/ Stale(c, m)
    BY <1>14 DEF RootsInv, RootsAgree
  <2>2. c \in Nodes /\ above[c] \subseteq above[m]
    BY <1>0, <1>2 DEF Forest
  <2>3. CASE c0 \notin above[m]
    <3>1. c # c0 /\ m # c0
      BY <1>2, <2>3
    <3>. QED  BY <1>4, <1>11, <2>1, <2>2, <2>3, <3>1
  (* c is below the child. *)
  <2>4. CASE c0 \in above[c] /\ c # c0
    <3>1. m # c0
      <4>1. c \notin above[c0]
        BY <1>0, <2>2, <2>4 DEF Forest
      <4>. QED  BY <4>1
    <3>. QED  BY <1>4, <1>10, <2>1, <2>2, <2>4, <3>1
  (* The subtree of the child, seen from the child or from above it. *)
  <2>5. CASE c0 \in above[m] /\ c \in above[c0]
    <3>1. c = c0 \/ c \in above[t]
      BY <1>2, <2>5
    <3>2. c0 \in Subtree(c) /\ Subtree(c0) \subseteq Subtree(c)
      BY <1>0, <2>2, <2>5 DEF Forest, Subtree
    <3>3. root \in {None, relayout_root'[c]} \cup Subtree(c) \/ Stale(c, m)'
      <4>1. CASE c = c0
        BY <1>5, <4>1
      <4>2. CASE c # c0 /\ root = c0
        BY <3>2, <4>2
      <4>3. CASE c # c0 /\ root = relayout_root[t]
        <5>1. c \in above[t] /\ relayout_root'[c] = relayout_root[c]
          BY <1>4, <2>2, <3>1, <4>3
        <5>. QED  BY <1>12, <1>14, <2>5, <4>3, <5>1
      <4>. QED  BY <1>6, <4>1, <4>2, <4>3
    <3>4. CASE m = c0
      BY <1>5, <3>3, <3>4
    <3>5. CASE m # c0 /\ Len(laying') = Len(laying) + 1
      <4>1. PICK z \in above[m] : parent[z] = c0
        BY <1>0, <2>5, <3>5 DEF Paths
      <4>2. z \in Awaited'
        BY <1>2, <1>8, <3>5, <4>1
      <4>3. Stale(c, m)'
        BY <1>1, <2>5, <4>1, <4>2 DEF Stale
      <4>. QED  BY <4>3
    <3>6. CASE m # c0 /\ relayout_root[c0] = root
      <4>1. relayout_root[m] \in {None, root} \cup Subtree(c0)
        <5>1. ~Stale(c0, m)
          BY <1>2, <1>10
        <5>. QED  BY <1>14, <2>5, <3>6, <5>1 DEF RootsInv, RootsAgree
      <4>. QED  BY <1>4, <3>2, <3>3, <3>6, <4>1
    <3>. QED  BY <1>3, <3>4, <3>5, <3>6
  <2>6. c0 \in above[m] => c0 \in above[c] \/ c \in above[c0]
    BY <1>0 DEF Forest
  <2>. QED  BY <1>2, <2>3, <2>4, <2>5, <2>6
<1>15. Paths'
  BY <1>0, <1>1 DEF Paths
<1>. QED  BY <1>1, <1>13, <1>14, <1>15 DEF RootsInv

LEMMA RootsNext == RootsInv /\ [Next]_vars => RootsInv'
<1> SUFFICES ASSUME RootsInv, [Next]_vars PROVE RootsInv'
  OBVIOUS
<1>0. MarksInv /\ TypeOK /\ Forest /\ LayingOK /\ MarksInv'
  BY MarksNext DEF RootsInv, MarksInv
<1>1. laying = <<>> => Awaited = {}
  BY <1>0, AwaitedBelow
<1>2. ASSUME BeginFrame PROVE RootsInv'
  <2>1. UNCHANGED <<parent, above, relayout_root, laying, liberties>>
    BY <1>2 DEF BeginFrame, tree, layout, history
  <2>. QED  BY <1>0, <2>1, RootsStay DEF Awaited
<1>3. ASSUME NEW n \in Nodes, LayoutWithoutResize(n) PROVE RootsInv'
  <2>1. laying = <<>> /\ UNCHANGED <<parent, above, relayout_root, liberties>>
    BY <1>3 DEF LayoutWithoutResize, tree, layout, history
  <2>. QED  BY <1>0, <1>1, <2>1, RootsStay
<1>4. ASSUME NEW c \in Nodes, NEW is_boundary \in BOOLEAN, NEW same_constraints \in BOOLEAN,
             Layout(c, is_boundary, same_constraints)
      PROVE  RootsInv'
  BY <1>0, <1>4, RootsLayout
<1>5. ASSUME FinishLayout PROVE RootsInv'
  <2>1. /\ laying # <<>>
        /\ \A c \in Nodes : parent[c] = Top.node => c \in Top.laid_out
        /\ laying' = SubSeq(laying, 1, Len(laying) - 1)
        /\ UNCHANGED <<parent, above, relayout_root, liberties>>
    BY <1>5 DEF FinishLayout, tree, layout, history
  <2>2. /\ Len(laying') = Len(laying) - 1
        /\ \A i \in 1..Len(laying') : laying'[i] = laying[i]
    BY <1>0, <2>1, PoppedNodes
  <2>3. Top = laying[Len(laying)] /\ Len(laying) \in Nat
    BY <1>0, <2>1, TopType
  <2>4. ASSUME NEW z \in Awaited PROVE z \in Awaited'
    <3>1. PICK i \in 1..Len(laying) : parent[z] = laying[i].node /\ z \notin laying[i].laid_out
      BY DEF Awaited
    <3>2. z \in Nodes
      BY DEF Awaited
    <3>3. i # Len(laying)
      BY <2>1, <2>3, <3>1, <3>2
    <3>4. i \in 1..Len(laying') /\ laying'[i] = laying[i]
      BY <2>2, <2>3, <3>3
    <3>. QED  BY <2>1, <3>1, <3>2, <3>4 DEF Awaited
  <2>. QED  BY <1>0, <2>1, <2>4, RootsStay
<1>6. ASSUME ThrowInLayout PROVE RootsInv'
  <2>1. Throws \in liberties /\ UNCHANGED <<parent, above, relayout_root, liberties>>
    BY <1>6 DEF ThrowInLayout, tree, layout, history
  <2>. QED  BY <1>0, <2>1, RootsStay
<1>7. ASSUME FlushPaint PROVE RootsInv'
  <2>1. UNCHANGED <<parent, above, relayout_root, laying, liberties>>
    BY <1>7 DEF FlushPaint, tree, layout
  <2>. QED  BY <1>0, <2>1, RootsStay DEF Awaited
<1>8. ASSUME NEW n \in Nodes, NEW c \in Nodes, AdoptChild(n, c) PROVE RootsInv'
  BY <1>0, <1>8, RootsAdoptChild
<1>9. ASSUME NEW n \in Nodes, NEW c \in Nodes, DropChild(n, c) PROVE RootsInv'
  BY <1>0, <1>9, RootsDropChild
<1>10. ASSUME NEW n \in Nodes, ChangeLayout(n) PROVE RootsInv'
  <2>1. UNCHANGED <<parent, above, relayout_root, laying, liberties>>
    BY <1>10 DEF ChangeLayout, tree, layout, history
  <2>. QED  BY <1>0, <2>1, RootsStay DEF Awaited
<1>11. ASSUME NEW n \in Nodes, ChangeLooks(n) PROVE RootsInv'
  <2>1. UNCHANGED <<parent, above, relayout_root, laying, liberties>>
    BY <1>11 DEF ChangeLooks, tree, layout, history
  <2>. QED  BY <1>0, <2>1, RootsStay DEF Awaited
<1>12. ASSUME UNCHANGED vars PROVE RootsInv'
  <2>1. UNCHANGED <<parent, above, relayout_root, laying, liberties>>
    BY <1>12 DEF vars, tree, layout, history
  <2>. QED  BY <1>0, <2>1, RootsStay DEF Awaited
<1>. QED
  BY <1>2, <1>3, <1>4, <1>5, <1>6, <1>7, <1>8, <1>9, <1>10, <1>11, <1>12 DEF Next, Frame

LEMMA RootsInit == Init => RootsInv
<1> SUFFICES ASSUME Init PROVE RootsInv
  OBVIOUS
<1>1. Paths
  BY DEF Init, Paths
<1>2. RootsAgree /\ RootsAbove
  BY DEF Init, RootsAgree, RootsAbove
<1>. QED  BY <1>1, <1>2, MarksInit DEF RootsInv

LEMMA RootsCorrect == Spec => []RootsInv
BY RootsInit, RootsNext, PTL DEF Spec

(***************************************************************************)
(* In a tree of any size, unless a layout throws, a node is laid out for a *)
(* boundary above it: what a subtree has of roots outside is cleaned when  *)
(* it is dropped, even from a layout callback in the middle of a layout    *)
(* that moves boundaries (object.dart, layout and                          *)
(* _cleanRelayoutSubtreeRoot).                                             *)
(***************************************************************************)
THEOREM RootsStayAbove == Spec => []BoundariesAreAbove
<1>1. RootsInv => BoundariesAreAbove
  BY DEF RootsInv, RootsAbove, BoundariesAreAbove
<1>. QED  BY <1>1, RootsCorrect, PTL

-----------------------------------------------------------------------------
(* Parents follow the children they measured *)

Stack == {laying[i].node : i \in 1..Len(laying)}

(* A layout calls the layout of a child. *)
Nested == \A i \in 1..Len(laying) - 1 : parent[laying[i + 1].node] = laying[i].node

(* A child that was measured is laid out for its parent's boundary. *)
MeasuredOK == measured \cap Boundaries = {}

(* Children stay clean once the layout that runs has laid them out. *)
LaidOutAreClean ==
    \A i \in 1..Len(laying) : \A x \in laying[i].laid_out :
        (/\ parent[x] = laying[i].node
         /\ i < Len(laying) => x # laying[i + 1].node) => x \notin needs_layout

(* In a frame, the layout of the parent may be running. *)
ParentsKnow == \A n \in measured \cap needs_layout : parent[n] \in needs_layout \cup Stack

MeasureInv == /\ RootsInv
              /\ Nested
              /\ \A n \in measured : parent[n] # None
              /\ Throws \notin liberties => MeasuredOK /\ LaidOutAreClean /\ ParentsKnow

(* A mark that reaches a measured child reaches its parent. *)
LEMMA MarksClimb ==
    ASSUME TypeOK, Forest, MeasuredOK, \A m \in measured : parent[m] # None,
           NEW n \in Nodes, NEW dirty \in SUBSET Nodes, MarkNeedsLayoutWith(n, dirty)
    PROVE  /\ needs_layout' \subseteq dirty \cup above[n]
           /\ dirty \subseteq needs_layout'
           /\ \A m \in measured \cap needs_layout' : m \notin dirty => parent[m] \in needs_layout'
<1> DEFINE stop == dirty \cup Boundaries
<1>1. needs_layout' = dirty \cup Climb(n, stop)
  BY DEF MarkNeedsLayoutWith
<1>2. Climb(n, stop) \subseteq above[n] /\ above[n] \subseteq Nodes
  BY DEF Climb, TypeOK
<1>3. ASSUME NEW m \in measured \cap needs_layout', m \notin dirty
      PROVE  parent[m] \in needs_layout'
  <2> DEFINE q == parent[m]
  <2>1. m \in Climb(n, stop) /\ m \in above[n] /\ m \in Nodes
    BY <1>1, <1>2, <1>3
  <2>2. m \notin stop
    BY <1>3 DEF MeasuredOK
  <2>3. q \in Nodes /\ above[m] = {m} \cup above[q] /\ m \notin above[q] /\ q \in above[q]
    BY <1>3, <2>1 DEF Forest, TypeOK
  <2>4. q \in above[n]
    BY <2>1, <2>3 DEF Forest
  <2>5. ASSUME NEW k \in above[n] \cap stop, q \in above[k] PROVE q = k
    <3>1. k \in above[m] \/ m \in above[k]
      BY <2>1, <2>5 DEF Forest
    <3>2. k # m
      BY <2>2, <2>5
    <3>3. m \notin above[k]
      BY <2>1, <2>5, <3>2 DEF Climb
    <3>4. k \in above[q] /\ k \in Nodes
      BY <1>2, <2>3, <2>5, <3>1, <3>2, <3>3
    <3>. QED  BY <2>3, <2>5, <3>4 DEF Forest
  <2>6. q \in Climb(n, stop)
    BY <2>4, <2>5 DEF Climb
  <2>. QED  BY <1>1, <2>6
<1>. QED  BY <1>1, <1>2, <1>3

(* Nodes that are laid out at once are different. *)
LEMMA NestedNodes ==
    ASSUME TypeOK, Forest, LayingOK, Nested, NEW i \in 1..Len(laying), i # Len(laying)
    PROVE  /\ laying # <<>> /\ Top.node \in Nodes
           /\ i + 1 \in 1..Len(laying)
           /\ laying[i].node \in Nodes /\ laying[i + 1].node \in Nodes
           /\ parent[laying[i + 1].node] = laying[i].node
           /\ laying[i + 1].node \in above[Top.node]
           /\ laying[i + 1].node \notin above[laying[i].node]
           /\ laying[i].node # Top.node
<1>1. laying # <<>>
  <2>1. laying \in Seq(Layouts)
    BY DEF TypeOK, Layouts
  <2>. QED  BY <2>1, EmptySeq
<1>2. /\ Len(laying) \in Nat /\ Len(laying) \in 1..Len(laying)
      /\ Top = laying[Len(laying)]
  BY <1>1, TopType
<1>3. i \in 1..Len(laying) - 1 /\ i + 1 \in 1..Len(laying) /\ Len(laying) \in i + 1..Len(laying)
  BY <1>2
<1>4. laying[i].node \in Nodes /\ laying[i + 1].node \in Nodes /\ Top.node \in Nodes
  BY <1>2, <1>3, LayingNodes
<1>5. parent[laying[i + 1].node] = laying[i].node
  BY <1>3 DEF Nested
<1>6. laying[i + 1].node \in above[Top.node]
  BY <1>2, <1>3 DEF LayingOK
<1>7. laying[i + 1].node \notin above[laying[i].node]
  <2>1. parent[laying[i + 1].node] # None
    BY <1>4, <1>5, TreeAssumption
  <2>. QED  BY <1>4, <1>5, <2>1 DEF Forest
<1>. QED  BY <1>1, <1>3, <1>4, <1>5, <1>6, <1>7

(* A change from a layout callback marks no child that is laid out already. *)
LEMMA CallbackMarks ==
    ASSUME TypeOK, Forest, LayingOK, Nested, NEW n \in Nodes, CanMutate(n),
           NEW i \in 1..Len(laying), NEW x \in laying[i].laid_out,
           i < Len(laying) => x # laying[i + 1].node
    PROVE  /\ parent[x] = laying[i].node /\ x \in Nodes => x \notin above[n]
           /\ laying[i].node # n
<1>1. laying # <<>>
  <2>1. laying \in Seq(Layouts)
    BY DEF TypeOK, Layouts
  <2>. QED  BY <2>1, EmptySeq
<1>2. /\ Len(laying) \in Nat /\ Len(laying) \in 1..Len(laying)
      /\ Top = laying[Len(laying)]
  BY <1>1, TopType
<1>3. Top.laid_out = {} /\ Top.node \in above[n]
  BY <1>1 DEF CanMutate, LayingOK, Subtree
<1>4. i # Len(laying) /\ i < Len(laying)
  BY <1>2, <1>3
<1>5. /\ Top.node \in Nodes /\ laying[i].node \in Nodes /\ laying[i + 1].node \in Nodes
      /\ parent[laying[i + 1].node] = laying[i].node
      /\ laying[i + 1].node \in above[Top.node]
      /\ laying[i + 1].node \notin above[laying[i].node]
  BY <1>4, NestedNodes
<1>6. laying[i + 1].node \in above[n]
  BY <1>3, <1>5 DEF Forest
<1>7. ASSUME parent[x] = laying[i].node, x \in Nodes, x \in above[n] PROVE FALSE
  <2> DEFINE y == laying[i + 1].node
             p == laying[i].node
  <2>1. x \in above[y] \/ y \in above[x]
    BY <1>6, <1>7 DEF Forest
  <2>2. p # None
    BY <1>5, TreeAssumption
  <2>3. above[x] = {x} \cup above[p] /\ x \notin above[p]
    BY <1>7, <2>2 DEF Forest
  <2>4. above[y] = {y} \cup above[p] /\ y \notin above[p]
    BY <1>5, <2>2 DEF Forest
  <2>5. x # y
    BY <1>4
  <2>. QED  BY <2>1, <2>3, <2>4, <2>5
<1>. QED  BY <1>5, <1>6, <1>7

LEMMA MeasureAdoptChild ==
    ASSUME MeasureInv, RootsInv', NEW n \in Nodes, NEW child \in Nodes, AdoptChild(n, child)
    PROVE  MeasureInv'
<1>0. TypeOK /\ Forest /\ LayingOK /\ Nested /\ needs_layout \in SUBSET Nodes
  BY DEF MeasureInv, RootsInv, MarksInv, TypeOK
<1>1. /\ CanMutate(n) /\ parent[child] = None
      /\ MarkNeedsLayoutWith(n, needs_layout)
      /\ UNCHANGED <<relayout_root, measured, laying, liberties>>
      /\ parent' = [parent EXCEPT ![child] = n]
  BY DEF AdoptChild, layout, history
<1>2. /\ None \notin Nodes
      /\ measured \subseteq Nodes
      /\ \A m \in Nodes : parent'[m] = IF m = child THEN n ELSE parent[m]
  BY <1>0, <1>1, TreeAssumption DEF TypeOK
<1>3. \A m \in measured : m # child /\ parent'[m] = parent[m]
  BY <1>1, <1>2 DEF MeasureInv
<1>4. Nested'
  <2> SUFFICES ASSUME NEW i \in 1..Len(laying) - 1
               PROVE  parent'[laying[i + 1].node] = laying[i].node
    BY <1>1 DEF Nested
  <2>1. i \in 1..Len(laying) /\ i # Len(laying)
    BY <1>0, NestedNodes, LenProperties DEF TypeOK
  <2>2. laying[i + 1].node \in Nodes /\ parent[laying[i + 1].node] \in Nodes
    BY <1>0, <2>1, NestedNodes
  <2>. QED  BY <1>1, <1>2, <2>2 DEF MeasureInv, Nested
<1>5. ASSUME Throws \notin liberties PROVE MeasuredOK' /\ LaidOutAreClean' /\ ParentsKnow'
  <2>0. MeasuredOK /\ LaidOutAreClean /\ ParentsKnow
    BY <1>5 DEF MeasureInv
  <2>1. /\ needs_layout' \subseteq needs_layout \cup above[n]
        /\ needs_layout \subseteq needs_layout'
        /\ \A m \in measured \cap needs_layout' : m \notin needs_layout => parent[m] \in needs_layout'
    BY <1>0, <1>1, <2>0, MarksClimb DEF MeasureInv
  <2>2. MeasuredOK'
    BY <1>1, <2>0 DEF MeasuredOK, Boundaries
  <2>3. ParentsKnow'
    BY <1>1, <1>3, <2>0, <2>1 DEF ParentsKnow, Stack
  <2>4. LaidOutAreClean'
    <3> SUFFICES ASSUME NEW i \in 1..Len(laying), NEW x \in laying[i].laid_out,
                        parent'[x] = laying[i].node,
                        i < Len(laying) => x # laying[i + 1].node,
                        x \in needs_layout'
                 PROVE  FALSE
      BY <1>1 DEF LaidOutAreClean
    <3>1. x \in Nodes
      BY <1>0, <2>1 DEF TypeOK
    <3>2. x # child
      BY <1>0, <1>1, <1>2, CallbackMarks
    <3>3. x \notin above[n] /\ parent[x] = laying[i].node
      BY <1>0, <1>1, <1>2, <3>1, <3>2, CallbackMarks
    <3>. QED  BY <2>0, <2>1, <3>3 DEF LaidOutAreClean
  <2>. QED  BY <2>2, <2>3, <2>4
<1>. QED  BY <1>1, <1>3, <1>4, <1>5 DEF MeasureInv

LEMMA MeasureDropChild ==
    ASSUME MeasureInv, RootsInv', NEW n \in Nodes, NEW child \in Nodes, DropChild(n, child)
    PROVE  MeasureInv'
<1>0. TypeOK /\ Forest /\ LayingOK /\ Nested /\ needs_layout \in SUBSET Nodes
  BY DEF MeasureInv, RootsInv, MarksInv, TypeOK
<1> DEFINE dirty == needs_layout \cup Cleaned(child)
<1>1. /\ CanMutate(n) /\ parent[child] = n
      /\ MarkNeedsLayoutWith(n, dirty)
      /\ relayout_root' = [m \in Nodes |-> IF m \in Cleaned(child) THEN None ELSE relayout_root[m]]
      /\ measured' = measured \ {child}
      /\ parent' = [parent EXCEPT ![child] = None]
      /\ UNCHANGED <<laying, liberties>>
  BY DEF DropChild, history
<1>2. /\ None \notin Nodes
      /\ measured \subseteq Nodes
      /\ \A m \in Nodes : parent'[m] = IF m = child THEN None ELSE parent[m]
  BY <1>0, <1>1, TreeAssumption DEF TypeOK
<1>3. \A m \in measured' : m \in measured /\ m # child /\ parent'[m] = parent[m]
  BY <1>1, <1>2
<1>4. \A i \in 1..Len(laying) : child \notin above[laying[i].node] /\ laying[i].node # child
                                /\ laying[i].node \in Nodes
  <2> SUFFICES ASSUME NEW i \in 1..Len(laying)
               PROVE  child \notin above[laying[i].node] /\ laying[i].node # child
                      /\ laying[i].node \in Nodes
    OBVIOUS
  <2>1. child \notin above[laying[i].node]
    BY <1>0, <1>1, DropsBelow
  <2>. QED  BY <1>0, <2>1, LayingNodes DEF Forest
<1>5. Nested'
  <2> SUFFICES ASSUME NEW i \in 1..Len(laying) - 1
               PROVE  parent'[laying[i + 1].node] = laying[i].node
    BY <1>1 DEF Nested
  <2>1. i + 1 \in 1..Len(laying)
    BY <1>0, LenProperties DEF TypeOK
  <2>. QED  BY <1>0, <1>2, <1>4, <2>1 DEF Nested
<1>6. ASSUME NEW m \in Subtree(child), m # child, parent[m] # None
      PROVE  parent[m] \in Subtree(child) /\ above[parent[m]] \subseteq above[m]
  <2>1. above[m] = {m} \cup above[parent[m]] /\ parent[m] \in Nodes
    BY <1>0, <1>6 DEF Forest, Subtree, TypeOK
  <2>. QED  BY <1>6, <2>1 DEF Subtree
<1>7. ASSUME Throws \notin liberties PROVE MeasuredOK' /\ LaidOutAreClean' /\ ParentsKnow'
  <2>0. MeasuredOK /\ LaidOutAreClean /\ ParentsKnow
    BY <1>7 DEF MeasureInv
  <2>1. dirty \in SUBSET Nodes
    BY <1>0, CleanedType
  <2>2. /\ needs_layout' \subseteq dirty \cup above[n]
        /\ dirty \subseteq needs_layout'
        /\ \A m \in measured \cap needs_layout' : m \notin dirty => parent[m] \in needs_layout'
    <3> HIDE DEF dirty
    <3>. QED  BY <1>0, <1>1, <2>0, <2>1, MarksClimb DEF MeasureInv
  <2>3. MeasuredOK'
    BY <1>1, <1>2, <1>3, <2>0 DEF MeasuredOK, Boundaries
  <2>4. ParentsKnow'
    <3> SUFFICES ASSUME NEW m \in measured', m \in needs_layout'
                 PROVE  parent[m] \in needs_layout' \cup Stack
      BY <1>1, <1>3 DEF ParentsKnow, Stack
    <3>1. CASE m \in needs_layout
      BY <1>3, <2>0, <2>2, <3>1 DEF ParentsKnow
    <3>2. CASE m \in Cleaned(child)
      <4>1. parent[m] # None
        BY <1>3 DEF MeasureInv
      <4>2. m \in Subtree(child) /\ above[m] \cap Subtree(child) \cap Boundaries = {}
        BY <3>2 DEF Cleaned
      <4>3. parent[m] \in Subtree(child) /\ above[parent[m]] \subseteq above[m]
        BY <1>3, <1>6, <4>1, <4>2
      <4>4. parent[m] \in Cleaned(child)
        BY <4>2, <4>3 DEF Cleaned
      <4>. QED  BY <2>2, <4>4
    <3>3. CASE m \notin dirty
      BY <1>3, <2>2, <3>3
    <3>. QED  BY <3>1, <3>2, <3>3
  <2>5. LaidOutAreClean'
    <3> SUFFICES ASSUME NEW i \in 1..Len(laying), NEW x \in laying[i].laid_out,
                        parent'[x] = laying[i].node,
                        i < Len(laying) => x # laying[i + 1].node,
                        x \in needs_layout'
                 PROVE  FALSE
      BY <1>1 DEF LaidOutAreClean
    <3>1. x \in Nodes /\ laying[i].node \in Nodes
      BY <1>0, <1>4, <2>1, <2>2 DEF TypeOK
    <3>2. x # child /\ parent[x] = laying[i].node
      BY <1>2, <3>1
    <3>3. x \notin above[n]
      BY <1>0, <1>1, <3>1, <3>2, CallbackMarks
    <3>4. x \notin Cleaned(child)
      <4>1. ASSUME x \in Subtree(child) PROVE FALSE
        <5>1. parent[x] \in Subtree(child)
          BY <1>2, <1>6, <3>1, <3>2, <4>1
        <5>. QED  BY <1>4, <3>2, <5>1 DEF Subtree
      <4>. QED  BY <4>1 DEF Cleaned
    <3>5. x \notin needs_layout
      BY <2>0, <3>2 DEF LaidOutAreClean
    <3>. QED  BY <2>2, <3>3, <3>4, <3>5
  <2>. QED  BY <2>3, <2>4, <2>5
<1>. QED  BY <1>1, <1>3, <1>5, <1>7 DEF MeasureInv

LEMMA MeasureLayout ==
    ASSUME MeasureInv, RootsInv', NEW c0 \in Nodes, NEW is_boundary \in BOOLEAN,
           NEW same_constraints \in BOOLEAN, Layout(c0, is_boundary, same_constraints)
    PROVE  MeasureInv'
<1>0. TypeOK /\ Forest /\ LayingOK /\ Nested
  BY DEF MeasureInv, RootsInv, MarksInv
<1> DEFINE t == Top.node
           L == Len(laying)
<1>1. /\ UNCHANGED <<parent, above, needs_layout, liberties>>
      /\ measured' = IF is_boundary THEN measured \ {c0} ELSE measured \cup {c0}
  BY DEF Layout, tree, marks, history
<1>2. /\ L \in Nat /\ L \in 1..L
      /\ t \in Nodes /\ laying[L].node = t /\ parent[c0] = t
      /\ Len(laying') = L \/ Len(laying') = L + 1
      /\ \A i \in 1..L : /\ laying'[i].node = laying[i].node
                         /\ laying'[i].laid_out = IF i = L THEN laying[i].laid_out \cup {c0}
                                                  ELSE laying[i].laid_out
      /\ Len(laying') = L + 1 => laying'[L + 1] = [node |-> c0, laid_out |-> {}]
      /\ Len(laying') = L => c0 \notin needs_layout
  BY <1>0, LaidOut
<1> HIDE DEF t, L
<1>7. /\ L \in Nat /\ L \in 1..L /\ laying[L].node = t /\ parent[c0] = t
      /\ Len(laying') = L \/ Len(laying') = L + 1
      /\ \A i \in 1..L : laying'[i].node = laying[i].node
  BY <1>2
<1>8. Len(laying') = L + 1 => laying'[L + 1].node = c0
  BY <1>2
<1>3. t # None /\ c0 # None /\ c0 \notin above[t]
  <2>1. t # None /\ c0 # None
    BY <1>2, TreeAssumption
  <2>. QED  BY <1>0, <1>2, <2>1 DEF Forest
<1>4. Nested'
  <2> SUFFICES ASSUME NEW i \in 1..Len(laying') - 1
               PROVE  parent[laying'[i + 1].node] = laying'[i].node
    BY <1>1 DEF Nested
  <2>1. CASE i \in 1..L - 1
    <3>1. i \in 1..L /\ i + 1 \in 1..L
      BY <1>2, <2>1
    <3>. QED  BY <1>0, <1>2, <2>1, <3>1 DEF Nested, L
  <2>2. CASE i = L /\ Len(laying') = L + 1
    BY <1>7, <1>8, <2>2
  <2>. QED  BY <1>2, <2>1, <2>2
<1>5. \A m \in measured' : parent'[m] # None
  BY <1>1, <1>2, <1>3 DEF MeasureInv
<1>6. ASSUME Throws \notin liberties PROVE MeasuredOK' /\ LaidOutAreClean' /\ ParentsKnow'
  <2>0. /\ MeasuredOK /\ LaidOutAreClean /\ ParentsKnow
        /\ RootsAbove
    BY <1>6 DEF MeasureInv, RootsInv
  <2>1. MeasuredOK'
    <3> DEFINE root == IF is_boundary THEN c0 ELSE relayout_root[t]
    <3>1. \/ relayout_root' = relayout_root /\ relayout_root[c0] = root
          \/ relayout_root' = [relayout_root EXCEPT ![c0] = root]
      BY DEF Layout, IsLaidOut, t
    <3>2. /\ relayout_root'[c0] = root
          /\ \A m \in Nodes : m # c0 => relayout_root'[m] = relayout_root[m]
      BY <1>0, <3>1 DEF TypeOK
    <3>3. relayout_root[t] # c0
      BY <1>2, <1>3, <2>0 DEF RootsAbove
    <3>. QED  BY <1>1, <2>0, <3>2, <3>3 DEF MeasuredOK, Boundaries
  <2>2. ParentsKnow'
    <3>1. Stack \subseteq Stack' /\ t \in Stack
      <4>1. \A i \in 1..L : i \in 1..Len(laying') /\ laying'[i].node = laying[i].node
        BY <1>7
      <4>2. Stack \subseteq Stack'
        BY <4>1 DEF Stack, L
      <4>3. t \in Stack
        BY <1>2 DEF Stack, L
      <4>. QED  BY <4>2, <4>3
    <3> SUFFICES ASSUME NEW m \in measured' \cap needs_layout
                 PROVE  parent[m] \in needs_layout \cup Stack'
      BY <1>1 DEF ParentsKnow
    <3>2. m \in measured \/ m = c0
      BY <1>1
    <3>. QED  BY <1>2, <2>0, <3>1, <3>2 DEF ParentsKnow
  <2>3. LaidOutAreClean'
    <3> SUFFICES ASSUME NEW i \in 1..Len(laying'), NEW x \in laying'[i].laid_out,
                        parent[x] = laying'[i].node,
                        i < Len(laying') => x # laying'[i + 1].node
                 PROVE  x \notin needs_layout
      BY <1>1 DEF LaidOutAreClean
    <3>1. CASE i \in 1..L - 1
      <4>1. i \in 1..L /\ i # L /\ i + 1 \in 1..L /\ i < L /\ i < Len(laying')
        BY <1>2, <3>1
      <4>2. x # laying[i + 1].node /\ x \in laying[i].laid_out /\ parent[x] = laying[i].node
        BY <1>2, <4>1
      <4>. QED  BY <2>0, <4>1, <4>2 DEF LaidOutAreClean, L
    <3>2. CASE i = L
      <4>1. x \in laying[L].laid_out \/ x = c0
        BY <1>2, <3>2
      <4>2. CASE x \in laying[L].laid_out
        <5>1. ~(L < L) /\ parent[x] = laying[L].node
          BY <1>7, <3>2
        <5>2. \A j \in 1..L : \A y \in laying[j].laid_out :
                  (parent[y] = laying[j].node /\ (j < L => y # laying[j + 1].node))
                      => y \notin needs_layout
          BY <2>0 DEF LaidOutAreClean, L
        <5>. QED  BY <1>2, <4>2, <5>1, <5>2
      <4>3. CASE x = c0
        <5>1. Len(laying') = L
          BY <1>2, <3>2, <4>3
        <5>. QED  BY <1>2, <4>3, <5>1
      <4>. QED  BY <4>1, <4>2, <4>3
    <3>3. CASE i = L + 1 /\ Len(laying') = L + 1
      BY <1>2, <3>3
    <3>. QED  BY <1>2, <3>1, <3>2, <3>3
  <2>. QED  BY <2>1, <2>2, <2>3
<1>. QED  BY <1>1, <1>4, <1>5, <1>6 DEF MeasureInv

LEMMA MeasureFinishLayout ==
    ASSUME MeasureInv, RootsInv', FinishLayout
    PROVE  MeasureInv'
<1>0. TypeOK
  BY DEF MeasureInv, RootsInv, MarksInv
<1> DEFINE t == Top.node
           L == Len(laying)
<1>1. /\ laying # <<>>
      /\ \A c \in Nodes : parent[c] = t => c \in Top.laid_out
      /\ laying' = SubSeq(laying, 1, Len(laying) - 1)
      /\ needs_layout' = needs_layout \ {t}
      /\ UNCHANGED <<parent, relayout_root, measured, liberties>>
  BY DEF FinishLayout, tree, layout, history
<1>2. L \in Nat /\ L \in 1..L /\ Top = laying[L]
  BY <1>0, <1>1, TopType
<1>3. Len(laying') = L - 1 /\ \A i \in 1..L - 1 : laying'[i] = laying[i]
  BY <1>0, <1>1, PoppedNodes
<1> HIDE DEF L
<1>4. Nested'
  <2> SUFFICES ASSUME NEW i \in 1..Len(laying') - 1
               PROVE  parent[laying'[i + 1].node] = laying'[i].node
    BY <1>1 DEF Nested
  <2>1. i \in 1..L - 1 /\ i + 1 \in 1..L - 1
    BY <1>2, <1>3
  <2>. QED  BY <1>3, <2>1 DEF MeasureInv, Nested, L
<1>5. ASSUME Throws \notin liberties PROVE MeasuredOK' /\ LaidOutAreClean' /\ ParentsKnow'
  <2>0. MeasuredOK /\ LaidOutAreClean /\ ParentsKnow
    BY <1>5 DEF MeasureInv
  <2>1. MeasuredOK'
    BY <1>1, <2>0 DEF MeasuredOK, Boundaries
  <2>2. ParentsKnow'
    <3> SUFFICES ASSUME NEW m \in measured \cap needs_layout, m # t
                 PROVE  parent[m] \in needs_layout' \cup Stack'
      BY <1>1 DEF ParentsKnow
    <3>1. parent[m] # t
      <4> SUFFICES ASSUME parent[m] = t PROVE FALSE
        OBVIOUS
      <4>1. m \in laying[L].laid_out /\ parent[m] = laying[L].node
        BY <1>0, <1>1, <1>2 DEF TypeOK
      <4>2. ~(L < L)
        BY <1>2
      <4>. QED  BY <1>2, <2>0, <4>1, <4>2 DEF LaidOutAreClean, L
    <3>2. CASE parent[m] \in needs_layout
      BY <1>1, <3>1, <3>2
    <3>3. CASE parent[m] \in Stack
      <4>1. PICK i \in 1..L : parent[m] = laying[i].node
        BY <3>3 DEF Stack, L
      <4>2. i # L
        BY <1>2, <3>1, <4>1
      <4>3. i \in 1..Len(laying') /\ laying'[i] = laying[i]
        BY <1>2, <1>3, <4>2
      <4>. QED  BY <4>1, <4>3 DEF Stack
    <3>. QED  BY <2>0, <3>2, <3>3 DEF ParentsKnow
  <2>3. LaidOutAreClean'
    <3> SUFFICES ASSUME NEW i \in 1..L - 1, NEW x \in laying[i].laid_out,
                        parent[x] = laying[i].node,
                        i < L - 1 => x # laying'[i + 1].node
                 PROVE  x \notin needs_layout'
      BY <1>1, <1>3 DEF LaidOutAreClean
    <3>1. i \in 1..L /\ i < L
      BY <1>2
    <3>2. CASE x = laying[i + 1].node
      <4>1. ~(i < L - 1)
        <5>1. i < L - 1 => i + 1 \in 1..L - 1
          BY <1>2
        <5>. QED  BY <1>3, <3>2, <5>1
      <4>2. i + 1 = L
        BY <1>2, <4>1
      <4>. QED  BY <1>1, <1>2, <3>2, <4>2
    <3>3. CASE x # laying[i + 1].node
      BY <1>1, <2>0, <3>1, <3>3 DEF LaidOutAreClean, L
    <3>. QED  BY <3>2, <3>3
  <2>. QED  BY <2>1, <2>2, <2>3
<1>. QED  BY <1>1, <1>4, <1>5 DEF MeasureInv

(* Marks of a property that changes, which change neither the tree nor who was measured. *)
LEMMA MeasureChangeLayout ==
    ASSUME MeasureInv, RootsInv', NEW n \in Nodes, ChangeLayout(n)
    PROVE  MeasureInv'
<1>0. TypeOK /\ Forest /\ LayingOK /\ Nested /\ needs_layout \in SUBSET Nodes
  BY DEF MeasureInv, RootsInv, MarksInv, TypeOK
<1>1. /\ CanMutate(n)
      /\ MarkNeedsLayoutWith(n, needs_layout)
      /\ UNCHANGED <<parent, relayout_root, measured, laying, liberties>>
  BY DEF ChangeLayout, tree, layout, history
<1>2. Nested'
  BY <1>0, <1>1 DEF Nested
<1>3. ASSUME Throws \notin liberties PROVE MeasuredOK' /\ LaidOutAreClean' /\ ParentsKnow'
  <2>0. MeasuredOK /\ LaidOutAreClean /\ ParentsKnow
    BY <1>3 DEF MeasureInv
  <2>1. /\ needs_layout' \subseteq needs_layout \cup above[n]
        /\ needs_layout \subseteq needs_layout'
        /\ \A m \in measured \cap needs_layout' : m \notin needs_layout => parent[m] \in needs_layout'
    BY <1>0, <1>1, <2>0, MarksClimb DEF MeasureInv
  <2>2. MeasuredOK' /\ ParentsKnow'
    BY <1>1, <2>0, <2>1 DEF MeasuredOK, Boundaries, ParentsKnow, Stack
  <2>3. LaidOutAreClean'
    <3> SUFFICES ASSUME NEW i \in 1..Len(laying), NEW x \in laying[i].laid_out,
                        parent[x] = laying[i].node,
                        i < Len(laying) => x # laying[i + 1].node,
                        x \in needs_layout'
                 PROVE  FALSE
      BY <1>1 DEF LaidOutAreClean
    <3>1. x \in Nodes
      BY <1>0, <2>1 DEF TypeOK
    <3>2. x \notin above[n]
      BY <1>0, <1>1, <3>1, CallbackMarks
    <3>. QED  BY <2>0, <2>1, <3>2 DEF LaidOutAreClean
  <2>. QED  BY <2>2, <2>3
<1>. QED  BY <1>1, <1>2, <1>3 DEF MeasureInv

(* Steps that leave the tree, its roots, the marks for layout and who was measured alone. *)
LEMMA MeasureStays ==
    ASSUME MeasureInv, RootsInv',
           UNCHANGED <<parent, relayout_root, measured, needs_layout, laying, liberties>>
    PROVE  MeasureInv'
<1>1. Nested' /\ \A m \in measured' : parent'[m] # None
  BY DEF MeasureInv, Nested
<1>2. Throws \notin liberties => MeasuredOK' /\ LaidOutAreClean' /\ ParentsKnow'
  BY DEF MeasureInv, MeasuredOK, Boundaries, LaidOutAreClean, ParentsKnow, Stack
<1>. QED  BY <1>1, <1>2 DEF MeasureInv

LEMMA MeasureVisit ==
    ASSUME MeasureInv, RootsInv', NEW n \in Nodes, LayoutWithoutResize(n)
    PROVE  MeasureInv'
<1>1. /\ laying = <<>>
      /\ laying' = laying \/ laying' = Append(laying, [node |-> n, laid_out |-> {}])
      /\ UNCHANGED <<parent, relayout_root, measured, needs_layout, liberties>>
  BY DEF LayoutWithoutResize, PerformLayout, tree, layout, marks
<1>2. CASE laying' = laying
  BY <1>1, <1>2, MeasureStays
<1>3. CASE laying' = Append(laying, [node |-> n, laid_out |-> {}])
  <2> DEFINE e == [node |-> n, laid_out |-> {}]
  <2>1. laying \in Seq(Layouts) /\ e \in Layouts /\ Len(laying) = 0
    BY <1>1 DEF Layouts
  <2>2. e.laid_out = {}
    OBVIOUS
  <2> HIDE DEF e
  <2>3. Len(Append(laying, e)) = 1 /\ Append(laying, e)[1] = e
    BY <2>1, AppendProperties
  <2>4. Len(laying') = 1 /\ laying'[1].laid_out = {}
    BY <1>3, <2>2, <2>3 DEF e
  <2>5. Nested' /\ LaidOutAreClean'
    BY <2>4 DEF Nested, LaidOutAreClean
  <2>6. Stack = {}
    BY <2>1 DEF Stack
  <2>7. Throws \notin liberties => MeasuredOK' /\ ParentsKnow'
    BY <1>1, <2>6 DEF MeasureInv, MeasuredOK, Boundaries, ParentsKnow
  <2>. QED  BY <1>1, <2>5, <2>7 DEF MeasureInv
<1>. QED  BY <1>1, <1>2, <1>3

LEMMA MeasureNext == MeasureInv /\ [Next]_vars => MeasureInv'
<1> SUFFICES ASSUME MeasureInv, [Next]_vars PROVE MeasureInv'
  OBVIOUS
<1>0. RootsInv'
  BY RootsNext DEF MeasureInv
<1>1. ASSUME BeginFrame PROVE MeasureInv'
  <2>1. UNCHANGED <<parent, relayout_root, measured, needs_layout, laying, liberties>>
    BY <1>1 DEF BeginFrame, tree, layout, history
  <2>. QED  BY <1>0, <2>1, MeasureStays
<1>2. ASSUME NEW n \in Nodes, LayoutWithoutResize(n) PROVE MeasureInv'
  BY <1>0, <1>2, MeasureVisit
<1>3. ASSUME NEW c \in Nodes, NEW is_boundary \in BOOLEAN, NEW same_constraints \in BOOLEAN,
             Layout(c, is_boundary, same_constraints)
      PROVE  MeasureInv'
  BY <1>0, <1>3, MeasureLayout
<1>4. ASSUME FinishLayout PROVE MeasureInv'
  BY <1>0, <1>4, MeasureFinishLayout
<1>5. ASSUME ThrowInLayout PROVE MeasureInv'
  <2>1. /\ Throws \in liberties /\ laying' = <<>>
        /\ UNCHANGED <<parent, relayout_root, measured, needs_layout, liberties>>
    BY <1>5 DEF ThrowInLayout, tree, layout, marks, history
  <2>2. Nested'
    BY <2>1 DEF Nested
  <2>. QED  BY <1>0, <2>1, <2>2 DEF MeasureInv
<1>6. ASSUME FlushPaint PROVE MeasureInv'
  <2>1. UNCHANGED <<parent, relayout_root, measured, needs_layout, laying, liberties>>
    BY <1>6 DEF FlushPaint, tree, layout
  <2>. QED  BY <1>0, <2>1, MeasureStays
<1>7. ASSUME NEW n \in Nodes, NEW c \in Nodes, AdoptChild(n, c) PROVE MeasureInv'
  BY <1>0, <1>7, MeasureAdoptChild
<1>8. ASSUME NEW n \in Nodes, NEW c \in Nodes, DropChild(n, c) PROVE MeasureInv'
  BY <1>0, <1>8, MeasureDropChild
<1>9. ASSUME NEW n \in Nodes, ChangeLayout(n) PROVE MeasureInv'
  BY <1>0, <1>9, MeasureChangeLayout
<1>10. ASSUME NEW n \in Nodes, ChangeLooks(n) PROVE MeasureInv'
  <2>1. UNCHANGED <<parent, relayout_root, measured, needs_layout, laying, liberties>>
    BY <1>10 DEF ChangeLooks, tree, layout, history
  <2>. QED  BY <1>0, <2>1, MeasureStays
<1>11. ASSUME UNCHANGED vars PROVE MeasureInv'
  <2>1. UNCHANGED <<parent, relayout_root, measured, needs_layout, laying, liberties>>
    BY <1>11 DEF vars, tree, layout, marks, history
  <2>. QED  BY <1>0, <2>1, MeasureStays
<1>. QED
  BY <1>1, <1>2, <1>3, <1>4, <1>5, <1>6, <1>7, <1>8, <1>9, <1>10, <1>11 DEF Next, Frame

LEMMA MeasureInit == Init => MeasureInv
<1> SUFFICES ASSUME Init PROVE MeasureInv
  OBVIOUS
<1>1. laying = <<>> /\ measured = {}
  BY DEF Init
<1>2. Nested /\ MeasuredOK /\ LaidOutAreClean /\ ParentsKnow
  BY <1>1 DEF Nested, MeasuredOK, LaidOutAreClean, ParentsKnow
<1>. QED  BY <1>1, <1>2, RootsInit DEF MeasureInv

LEMMA MeasureCorrect == Spec => []MeasureInv
BY MeasureInit, MeasureNext, PTL DEF Spec

(***************************************************************************)
(* In a tree of any size, unless a layout throws, the parent that read the *)
(* size of a child is marked whenever the child is when no frame runs: a   *)
(* mark climbs over a measured child because that is no boundary, and a    *)
(* parent is laid out to its end only with its children clean              *)
(* (object.dart, markNeedsLayout and layout).                              *)
(***************************************************************************)
THEOREM ParentsFollowChildren == Spec => []ParentsFollow
<1>1. MeasureInv => ParentsFollow
  <2> SUFFICES ASSUME MeasureInv, Throws \notin liberties, ~in_frame
               PROVE  \A n \in measured \cap needs_layout : parent[n] \in needs_layout
    BY DEF ParentsFollow
  <2>1. laying = <<>> /\ ParentsKnow
    BY DEF MeasureInv, RootsInv, MarksInv, LayingOK
  <2>2. Stack = {}
    BY <2>1 DEF Stack
  <2>. QED  BY <2>1, <2>2 DEF ParentsKnow
<1>. QED  BY <1>1, MeasureCorrect, PTL

-----------------------------------------------------------------------------
(* The way up ends *)

(* What is above a node is finite: nodes are put on top of one another one by one. *)
ClimbsEnd == \A n \in Nodes : IsFiniteSet(above[n])

(* Nodes that each have another one of them above are none. *)
LEMMA NobodyOnTop ==
    ASSUME TypeOK, Forest, ClimbsEnd, NEW T \in SUBSET Nodes,
           \A t \in T : \E s \in T : s \in above[t] /\ s # t
    PROVE  T = {}
<1> SUFFICES ASSUME T # {} PROVE FALSE
  OBVIOUS
<1> DEFINE F == {above[t] : t \in T}
<1>1. F \subseteq FiniteSubsetsOf(Nodes) /\ F # {}
  BY DEF ClimbsEnd, TypeOK, FiniteSubsetsOf
<1>2. PICK X \in F : \A Y \in F : <<Y, X>> \notin StrictSubsetOrdering(Nodes)
  <2> HIDE DEF F
  <2>1. IsWellFoundedOn(StrictSubsetOrdering(Nodes), FiniteSubsetsOf(Nodes))
    BY FS_StrictSubsetOrderingWellFounded
  <2>. QED  BY <1>1, <2>1, WFMin, Zenon
<1>3. PICK t \in T : X = above[t]
  OBVIOUS
<1>4. PICK s \in T : s \in above[t] /\ s # t
  OBVIOUS
<1>5. above[s] \subseteq above[t] /\ t \notin above[s] /\ t \in above[t]
  BY <1>4 DEF Forest
<1>6. <<above[s], above[t]>> \in StrictSubsetOrdering(Nodes)
  BY <1>5 DEF StrictSubsetOrdering, TypeOK
<1>. QED  BY <1>2, <1>3, <1>6

(* On the way up from a node there is a first node of a set, if there is any. *)
LEMMA FirstOnTheWay ==
    ASSUME TypeOK, Forest, ClimbsEnd, NEW n \in Nodes, NEW Stop,
           above[n] \cap Stop # {}
    PROVE  Climb(n, Stop) \cap Stop # {}
<1> DEFINE S == above[n] \cap Stop
           Below(k) == {j \in above[n] : k \in above[j]}
           F == {Below(k) : k \in S}
<1>1. F \subseteq FiniteSubsetsOf(Nodes) /\ F # {}
  <2>1. ASSUME NEW k \in S PROVE Below(k) \subseteq Nodes /\ IsFiniteSet(Below(k))
    <3>1. Below(k) \subseteq above[n] /\ above[n] \subseteq Nodes
      BY DEF TypeOK
    <3> HIDE DEF Below
    <3>. QED  BY <3>1, FS_Subset DEF ClimbsEnd
  <2> HIDE DEF Below
  <2>. QED  BY <2>1 DEF FiniteSubsetsOf
<1>2. PICK X \in F : \A Y \in F : <<Y, X>> \notin StrictSubsetOrdering(Nodes)
  <2> HIDE DEF F
  <2>1. IsWellFoundedOn(StrictSubsetOrdering(Nodes), FiniteSubsetsOf(Nodes))
    BY FS_StrictSubsetOrderingWellFounded
  <2>. QED  BY <1>1, <2>1, WFMin, Zenon
<1>3. PICK k \in S : X = Below(k)
  OBVIOUS
<1>4. ASSUME NEW j \in S, k \in above[j] PROVE k = j
  <2> SUFFICES ASSUME k # j PROVE FALSE
    OBVIOUS
  <2>1. j \in Nodes /\ k \in Nodes /\ above[n] \subseteq Nodes
    BY DEF TypeOK
  <2>2. j \notin above[k] /\ k \in above[k]
    BY <1>4, <2>1 DEF Forest
  <2>3. Below(j) \subseteq Below(k)
    BY <1>4, <2>1 DEF Forest
  <2>4. k \in Below(k) /\ k \notin Below(j) /\ Below(j) \subseteq Nodes /\ Below(k) \subseteq Nodes
    BY <2>1, <2>2
  <2>5. Below(j) \in F
    OBVIOUS
  <2>6. <<Below(j), Below(k)>> \in StrictSubsetOrdering(Nodes)
    <3> HIDE DEF Below
    <3>. QED  BY <2>3, <2>4 DEF StrictSubsetOrdering
  <2> HIDE DEF Below, F
  <2>. QED  BY <1>2, <1>3, <2>5, <2>6
<1>5. k \in Climb(n, Stop)
  BY <1>4 DEF Climb
<1>. QED  BY <1>5

-----------------------------------------------------------------------------
(* The nodes that are laid out at once *)

LEMMA NobodyLays == ASSUME laying = <<>> PROVE Stack = {}
BY DEF Stack

LEMMA TopLays == ASSUME TypeOK, laying # <<>> PROVE Top.node \in Stack /\ Top.node \in Nodes
BY TopType DEF Stack, Layouts

LEMMA LayNode ==
    ASSUME NEW n \in Nodes, laying = <<>>, PerformLayout(n)
    PROVE  Stack' = {n}
<1>1. <<>> \in Seq(Layouts) /\ Len(<<>>) = 0
  OBVIOUS
<1>2. laying' = Append(<<>>, [node |-> n, laid_out |-> {}])
  BY DEF PerformLayout
<1>3. Len(laying') = 1 /\ laying'[1].node = n
  BY <1>1, <1>2, PushedNodes
<1>. QED  BY <1>3 DEF Stack

LEMMA LayChild ==
    ASSUME TypeOK, NEW c0 \in Nodes, NEW is_boundary \in BOOLEAN, NEW same_constraints \in BOOLEAN,
           Layout(c0, is_boundary, same_constraints)
    PROVE  Stack \subseteq Stack' /\ Stack' \subseteq Stack \cup {c0}
<1> DEFINE L == Len(laying)
<1>0. /\ L \in Nat /\ L \in 1..L
      /\ laying[L].node = Top.node /\ parent[c0] = Top.node
      /\ Len(laying') = L \/ Len(laying') = L + 1
      /\ \A i \in 1..L : /\ laying'[i].node = laying[i].node
                         /\ laying'[i].laid_out = IF i = L THEN laying[i].laid_out \cup {c0}
                                                  ELSE laying[i].laid_out
      /\ Len(laying') = L + 1 => laying'[L + 1] = [node |-> c0, laid_out |-> {}]
  BY LaidOut
<1> HIDE DEF L
<1>1. L \in Nat /\ (Len(laying') = L \/ Len(laying') = L + 1)
  BY <1>0
<1>2. \A i \in 1..L : laying'[i].node = laying[i].node
  BY <1>0, Zenon
<1>6. Len(laying') = L + 1 => laying'[L + 1].node = c0
  BY <1>0
<1>3. \A i \in 1..L : i \in 1..Len(laying')
  BY <1>1
<1>4. \A i \in 1..Len(laying') : i \in 1..L \/ (i = L + 1 /\ Len(laying') = L + 1)
  BY <1>1
<1>5. Stack = {laying[i].node : i \in 1..L} /\ Stack' = {laying'[i].node : i \in 1..Len(laying')}
  BY DEF Stack, L
<1>. QED  BY <1>1, <1>2, <1>3, <1>4, <1>5, <1>6

LEMMA LaidTop ==
    ASSUME TypeOK, laying # <<>>, laying' = SubSeq(laying, 1, Len(laying) - 1)
    PROVE  Stack' \subseteq Stack /\ Stack \subseteq Stack' \cup {Top.node}
<1> DEFINE L == Len(laying)
<1>1. /\ L \in Nat /\ Top = laying[L]
      /\ Len(laying') = L - 1 /\ \A i \in 1..L - 1 : laying'[i] = laying[i]
  BY TopType, PoppedNodes
<1> HIDE DEF L
<1>2. \A i \in 1..L : i = L \/ i \in 1..Len(laying')
  BY <1>1
<1>3. \A i \in 1..Len(laying') : i \in 1..L
  BY <1>1
<1>4. Stack = {laying[i].node : i \in 1..L} /\ Stack' = {laying'[i].node : i \in 1..Len(laying')}
  BY DEF Stack, L
<1>. QED  BY <1>1, <1>2, <1>3, <1>4

(* Attached is what has the view above it; only that is laid out, and only in frames. *)
InTree ==
    /\ ClimbsEnd
    /\ \A n \in Nodes : n \in attached <=> Root \in above[n]
    /\ Stack \subseteq attached
    /\ ~in_frame => laying = <<>> /\ dirty_nodes = {}

LEMMA InTreeInit == Init => InTree
<1> SUFFICES ASSUME Init PROVE InTree
  OBVIOUS
<1>1. ClimbsEnd
  BY FS_Singleton DEF Init, ClimbsEnd
<1>2. Stack = {}
  BY NobodyLays DEF Init
<1>. QED  BY <1>1, <1>2, TreeAssumption DEF Init, InTree

LEMMA InTreeAdoptChild ==
    ASSUME MarksInv, InTree, NEW n \in Nodes, NEW child \in Nodes, AdoptChild(n, child)
    PROVE  InTree'
<1>0. TypeOK /\ Forest /\ Root \in Nodes
  BY TreeAssumption DEF MarksInv
<1>1. /\ parent[child] = None /\ child # Root
      /\ attached' = IF n \in attached THEN attached \cup Subtree(child) ELSE attached
      /\ above' = [m \in Nodes |-> IF m \in Subtree(child) THEN above[m] \cup above[n] ELSE above[m]]
      /\ UNCHANGED <<in_frame, dirty_nodes, laying>>
  BY DEF AdoptChild
<1>2. \A m \in Nodes : above'[m] = IF m \in Subtree(child) THEN above[m] \cup above[n] ELSE above[m]
  BY <1>1
<1>3. ClimbsEnd'
  <2> SUFFICES ASSUME NEW m \in Nodes PROVE IsFiniteSet(above'[m])
    BY DEF ClimbsEnd
  <2>1. IsFiniteSet(above[m]) /\ IsFiniteSet(above[n])
    BY DEF InTree, ClimbsEnd
  <2>2. IsFiniteSet(above[m] \cup above[n])
    BY <2>1, FS_Union
  <2>. QED  BY <1>2, <2>1, <2>2
<1>4. ASSUME NEW m \in Nodes PROVE m \in attached' <=> Root \in above'[m]
  BY <1>1, <1>2, <1>4 DEF InTree
<1>5. Stack' \subseteq attached'
  BY <1>1 DEF InTree, Stack
<1>. QED  BY <1>1, <1>3, <1>4, <1>5 DEF InTree

LEMMA InTreeDropChild ==
    ASSUME MarksInv, InTree, NEW n \in Nodes, NEW child \in Nodes, DropChild(n, child)
    PROVE  InTree'
<1>0. TypeOK /\ Forest /\ ViewOnTop /\ LayingOK /\ Root \in Nodes
  BY TreeAssumption DEF MarksInv
<1>1. /\ CanMutate(n) /\ parent[child] = n
      /\ attached' = attached \ Subtree(child)
      /\ above' = [m \in Nodes |-> IF m \in Subtree(child) THEN above[m] \ above[n] ELSE above[m]]
      /\ UNCHANGED <<in_frame, dirty_nodes, laying>>
  BY DEF DropChild
<1>2. \A m \in Nodes : above'[m] = IF m \in Subtree(child) THEN above[m] \ above[n] ELSE above[m]
  BY <1>1
<1>3. ClimbsEnd'
  <2> SUFFICES ASSUME NEW m \in Nodes PROVE IsFiniteSet(above'[m])
    BY DEF ClimbsEnd
  <2>1. IsFiniteSet(above[m]) /\ above'[m] \subseteq above[m]
    BY <1>2 DEF InTree, ClimbsEnd
  <2>. QED  BY <2>1, FS_Subset
<1>4. child # Root /\ above[child] = {child} \cup above[n] /\ above[Root] = {Root}
  BY <1>0, <1>1, TreeAssumption DEF ViewOnTop, Forest
<1>5. ASSUME NEW m \in Nodes PROVE m \in attached' <=> Root \in above'[m]
  <2>1. CASE m \in Subtree(child)
    <3>1. ASSUME Root \in above[m] PROVE Root \in above[n]
      <4>1. Root \in above[child] \/ child \in above[Root]
        BY <1>0, <2>1, <3>1 DEF Forest, Subtree
      <4>. QED  BY <1>4, <4>1
    <3>. QED  BY <1>1, <1>2, <2>1, <3>1
  <2>2. CASE m \notin Subtree(child)
    BY <1>1, <1>2, <2>2 DEF InTree
  <2>. QED  BY <2>1, <2>2
<1>6. Stack' \subseteq attached'
  <2>1. \A i \in 1..Len(laying) : child \notin above[laying[i].node] /\ laying[i].node \in attached
    BY <1>0, <1>1, DropsBelow DEF InTree, Stack
  <2>2. \A i \in 1..Len(laying) : laying[i].node \in attached'
    BY <1>1, <2>1 DEF Subtree
  <2>. QED  BY <1>1, <2>2 DEF Stack
<1>. QED  BY <1>1, <1>3, <1>5, <1>6 DEF InTree

LEMMA InTreeNext == MarksInv /\ InTree /\ [Next]_vars => InTree'
<1> SUFFICES ASSUME MarksInv, InTree, [Next]_vars PROVE InTree'
  OBVIOUS
<1>0. TypeOK /\ Forest
  BY DEF MarksInv
<1>s. ASSUME UNCHANGED <<above, attached>>, Stack' \subseteq attached,
             ~in_frame' => laying' = <<>> /\ dirty_nodes' = {}
      PROVE  InTree'
  BY <1>s DEF InTree, ClimbsEnd
<1>t. laying' = laying => Stack' = Stack
  BY DEF Stack
<1>1. ASSUME BeginFrame PROVE InTree'
  BY <1>1, <1>s, <1>t DEF BeginFrame, tree, InTree
<1>2. ASSUME NEW n \in Nodes, LayoutWithoutResize(n) PROVE InTree'
  <2>1. /\ UNCHANGED <<above, attached, in_frame>> /\ in_frame /\ laying = <<>>
        /\ \/ n \in attached /\ PerformLayout(n)
           \/ laying' = laying
    BY <1>2 DEF LayoutWithoutResize, tree
  <2>2. Stack' \subseteq attached
    BY <1>t, <2>1, LayNode, NobodyLays
  <2>. QED  BY <1>s, <2>1, <2>2
<1>3. ASSUME NEW c \in Nodes, NEW is_boundary \in BOOLEAN, NEW same_constraints \in BOOLEAN,
             Layout(c, is_boundary, same_constraints)
      PROVE  InTree'
  <2>1. /\ laying # <<>> /\ parent[c] = Top.node
        /\ UNCHANGED <<above, attached, in_frame, dirty_nodes>>
    BY <1>3 DEF Layout, tree
  <2>2. Top.node \in attached /\ Top.node \in Nodes
    BY <1>0, <2>1, TopLays DEF InTree
  <2>3. c \in attached
    <3>1. above[c] = {c} \cup above[Top.node]
      BY <1>0, <2>1, <2>2, TreeAssumption DEF Forest
    <3>. QED  BY <2>2, <3>1 DEF InTree
  <2>4. Stack' \subseteq attached
    BY <1>0, <1>3, <2>3, LayChild DEF InTree
  <2>. QED  BY <1>s, <2>1, <2>4 DEF InTree
<1>4. ASSUME FinishLayout PROVE InTree'
  <2>1. /\ laying # <<>> /\ laying' = SubSeq(laying, 1, Len(laying) - 1)
        /\ UNCHANGED <<above, attached, in_frame, dirty_nodes>>
    BY <1>4 DEF FinishLayout, tree
  <2>2. Stack' \subseteq attached
    BY <1>0, <2>1, LaidTop DEF InTree
  <2>. QED  BY <1>s, <2>1, <2>2 DEF InTree
<1>5. ASSUME ThrowInLayout PROVE InTree'
  <2>1. /\ laying # <<>> /\ laying' = <<>> /\ UNCHANGED <<above, attached>>
        /\ in_frame' = in_frame \/ dirty_nodes' = {}
    BY <1>5 DEF ThrowInLayout, tree
  <2>2. Stack' = {}
    BY <2>1 DEF Stack
  <2>. QED  BY <1>s, <2>1, <2>2 DEF InTree
<1>6. ASSUME FlushPaint PROVE InTree'
  BY <1>6, <1>s, <1>t DEF FlushPaint, tree, InTree
<1>7. ASSUME NEW n \in Nodes, NEW c \in Nodes, AdoptChild(n, c) PROVE InTree'
  BY <1>7, InTreeAdoptChild
<1>8. ASSUME NEW n \in Nodes, NEW c \in Nodes, DropChild(n, c) PROVE InTree'
  BY <1>8, InTreeDropChild
<1>9. ASSUME NEW n \in Nodes, ChangeLayout(n) PROVE InTree'
  BY <1>9, <1>s, <1>t DEF ChangeLayout, tree, InTree
<1>10. ASSUME NEW n \in Nodes, ChangeLooks(n) PROVE InTree'
  BY <1>10, <1>s, <1>t DEF ChangeLooks, tree, InTree
<1>11. CASE UNCHANGED vars
  BY <1>11, <1>s, <1>t DEF vars, tree, InTree
<1>. QED
  BY <1>1, <1>2, <1>3, <1>4, <1>5, <1>6, <1>7, <1>8, <1>9, <1>10, <1>11 DEF Next, Frame

-----------------------------------------------------------------------------
(* What waits to be laid out *)

(* The programs whose layouts do not throw and that keep no subtree a frame has seen. *)
Orderly == liberties \subseteq {BuildsInLayout, ChangesOutside}

(* The nodes that a flush visits, runs, or has visited in vain. *)
OnList == nodes_needing_layout \cup dirty_nodes \cup passed_over \cup Stack

(* The way up from a dirty node is dirty, to one of those or to the top of a loose subtree. *)
LayoutAwaited ==
    \A m \in needs_layout : \/ m \in OnList
                            \/ parent[m] = None /\ m # Root
                            \/ parent[m] \in needs_layout

(* Whoever puts a node into a list has asked for a frame. *)
FrameAsked ==
    /\ nodes_needing_layout # {} => frame_scheduled
    /\ nodes_needing_paint # {} => frame_scheduled \/ in_frame

NeverBack == attached \cap passed_over = {}

OnePass == BuildsInLayout \notin liberties /\ in_frame => nodes_needing_layout = {}

LayoutWaits == Orderly => LayoutAwaited /\ FrameAsked /\ NeverBack /\ OnePass

(* A mark leads to a list, and whoever writes into it asks for a frame. *)
LEMMA MarkAwaits ==
    ASSUME TypeOK, Forest, MarksStopAtBoundary, NEW n \in Nodes, NEW dirty \in SUBSET Nodes,
           needs_layout \subseteq dirty, MarkNeedsLayoutWith(n, dirty)
    PROVE  /\ dirty \cup {n} \subseteq needs_layout'
           /\ needs_layout' \subseteq dirty \cup above[n]
           /\ nodes_needing_layout \subseteq nodes_needing_layout'
           /\ \A m \in needs_layout' \ dirty :
                  m \in nodes_needing_layout' \/ parent[m] \in needs_layout' \cap above[n]
           /\ frame_scheduled => frame_scheduled'
           /\ nodes_needing_layout' # nodes_needing_layout => frame_scheduled'
<1> DEFINE stop == dirty \cup Boundaries
           marked == Climb(n, stop) \ dirty
<1>1. /\ needs_layout' = dirty \cup marked
      /\ nodes_needing_layout' = nodes_needing_layout \cup (marked \cap Boundaries)
      /\ frame_scheduled' = (frame_scheduled \/ marked \cap Boundaries # {})
  BY DEF MarkNeedsLayoutWith
<1>2. Climb(n, stop) \subseteq above[n] /\ above[n] \subseteq Nodes
  BY DEF Climb, TypeOK
<1>3. n \in Climb(n, stop)
  BY <1>2 DEF Climb, Forest
<1>4. ASSUME NEW m \in marked, m \notin Boundaries
      PROVE  parent[m] \in needs_layout' \cap above[n]
  <2> DEFINE q == parent[m]
  <2>1. m \in above[n] /\ m \in Nodes /\ m \notin stop
    BY <1>2, <1>4
  <2>2. q # None
    BY <1>4, <2>1 DEF MarksStopAtBoundary, Boundaries
  <2>3. q \in Nodes /\ above[m] = {m} \cup above[q] /\ m \notin above[q] /\ q \in above[q]
    BY <2>1, <2>2 DEF Forest, TypeOK
  <2>4. q \in above[n]
    BY <2>1, <2>3 DEF Forest
  <2>5. ASSUME NEW k \in above[n] \cap stop, q \in above[k] PROVE q = k
    <3>1. k \in above[m] \/ m \in above[k]
      BY <2>1, <2>5 DEF Forest
    <3>2. k # m
      BY <2>1, <2>5
    <3>3. m \notin above[k]
      BY <1>4, <2>1, <2>5, <3>2 DEF Climb
    <3>4. k \in above[q] /\ k \in Nodes
      BY <1>2, <2>3, <2>5, <3>1, <3>2, <3>3
    <3>. QED  BY <2>3, <2>5, <3>4 DEF Forest
  <2>6. q \in Climb(n, stop)
    BY <2>4, <2>5 DEF Climb
  <2>. QED  BY <1>1, <2>4, <2>6
<1>5. /\ frame_scheduled => frame_scheduled'
      /\ nodes_needing_layout' # nodes_needing_layout => frame_scheduled'
  <2> HIDE DEF marked
  <2>1. nodes_needing_layout' # nodes_needing_layout => marked \cap Boundaries # {}
    BY <1>1
  <2>. QED  BY <1>1, <2>1, Zenon
<1>6. /\ dirty \cup {n} \subseteq needs_layout'
      /\ needs_layout' \subseteq dirty \cup above[n]
      /\ nodes_needing_layout \subseteq nodes_needing_layout'
  BY <1>1, <1>2, <1>3
<1>7. \A m \in needs_layout' \ dirty :
          m \in nodes_needing_layout' \/ parent[m] \in needs_layout' \cap above[n]
  BY <1>1, <1>4
<1>. QED  BY <1>5, <1>6, <1>7

LEMMA MarksAskFrame ==
    ASSUME TypeOK, Forest, MarksStopAtBoundary, NEW n \in Nodes, NEW dirty \in SUBSET Nodes,
           needs_layout \subseteq dirty, MarkNeedsLayoutWith(n, dirty),
           FrameAsked, UNCHANGED <<nodes_needing_paint, in_frame>>
    PROVE  FrameAsked'
<1>1. /\ frame_scheduled => frame_scheduled'
      /\ nodes_needing_layout' # nodes_needing_layout => frame_scheduled'
  BY MarkAwaits
<1>. QED  BY <1>1 DEF FrameAsked

(* The tree changes between frames, or from a layout callback. *)
LEMMA OnePassStays ==
    ASSUME OnePass, NEW n, CanMutate(n), UNCHANGED <<in_frame, liberties>>
    PROVE  OnePass'
BY DEF OnePass, CanMutate

LEMMA WaitsAdoptChild ==
    ASSUME MarksInv, LayoutWaits, NEW n \in Nodes, NEW child \in Nodes, AdoptChild(n, child)
    PROVE  LayoutWaits'
<1>0. TypeOK /\ Forest /\ MarksStopAtBoundary /\ needs_layout \in SUBSET Nodes
  BY DEF MarksInv, TypeOK
<1>1. /\ CanMutate(n)
      /\ parent[child] = None /\ n \notin Subtree(child)
      /\ Subtree(child) \cap passed_over # {} => KeepsSubtrees \in liberties
      /\ MarkNeedsLayoutWith(n, needs_layout)
      /\ parent' = [parent EXCEPT ![child] = n]
      /\ attached' = IF n \in attached THEN attached \cup Subtree(child) ELSE attached
      /\ UNCHANGED <<nodes_needing_paint, in_frame, dirty_nodes, laying, passed_over, liberties>>
  BY DEF AdoptChild, history
<1>2. SUFFICES ASSUME Orderly PROVE LayoutAwaited' /\ FrameAsked' /\ NeverBack' /\ OnePass'
  BY <1>1 DEF LayoutWaits, Orderly
<1>3. LayoutAwaited /\ FrameAsked /\ NeverBack /\ OnePass
  BY <1>2 DEF LayoutWaits
<1>4. FrameAsked' /\ OnePass'
  BY <1>0, <1>1, <1>3, MarksAskFrame, OnePassStays
<1>5. NeverBack'
  BY <1>1, <1>2, <1>3 DEF NeverBack, Orderly, KeepsSubtrees, BuildsInLayout, ChangesOutside
<1>6. LayoutAwaited'
  <2>1. \A m \in Nodes : parent'[m] = IF m = child THEN n ELSE parent[m]
    BY <1>0, <1>1 DEF TypeOK
  <2>2. /\ needs_layout \cup {n} \subseteq needs_layout'
        /\ needs_layout' \subseteq needs_layout \cup above[n]
        /\ nodes_needing_layout \subseteq nodes_needing_layout'
        /\ \A m \in needs_layout' \ needs_layout :
               m \in nodes_needing_layout' \/ parent[m] \in needs_layout' \cap above[n]
    BY <1>0, <1>1, MarkAwaits
  <2>3. OnList \subseteq OnList' /\ nodes_needing_layout' \subseteq OnList'
    BY <1>1, <2>2 DEF OnList, Stack
  <2> SUFFICES ASSUME NEW m \in needs_layout'
               PROVE  m \in OnList' \/ (parent'[m] = None /\ m # Root) \/ parent'[m] \in needs_layout'
    BY DEF LayoutAwaited
  <2>4. m \in Nodes /\ child \notin above[n]
    BY <1>0, <1>1, <2>2 DEF TypeOK, Subtree
  <2>5. CASE m = child
    BY <2>1, <2>2, <2>4, <2>5
  <2>6. CASE m # child /\ m \in needs_layout
    BY <1>3, <2>1, <2>2, <2>3, <2>4, <2>6 DEF LayoutAwaited
  <2>7. CASE m # child /\ m \notin needs_layout
    BY <2>1, <2>2, <2>3, <2>4, <2>7
  <2>. QED  BY <2>5, <2>6, <2>7
<1>. QED  BY <1>4, <1>5, <1>6

LEMMA WaitsDropChild ==
    ASSUME MarksInv, LayoutWaits, NEW n \in Nodes, NEW child \in Nodes, DropChild(n, child)
    PROVE  LayoutWaits'
<1> DEFINE dirty == needs_layout \cup Cleaned(child)
<1>0. /\ TypeOK /\ Forest /\ ViewOnTop /\ MarksStopAtBoundary
      /\ dirty \in SUBSET Nodes /\ needs_layout \subseteq dirty
  BY CleanedType DEF MarksInv, TypeOK
<1>1. /\ CanMutate(n)
      /\ parent[child] = n
      /\ MarkNeedsLayoutWith(n, dirty)
      /\ parent' = [parent EXCEPT ![child] = None]
      /\ attached' = attached \ Subtree(child)
      /\ UNCHANGED <<nodes_needing_paint, in_frame, dirty_nodes, laying, passed_over, liberties>>
  BY DEF DropChild, history
<1>c. Cleaned(child) \subseteq dirty /\ needs_layout \subseteq dirty /\ dirty \subseteq needs_layout \cup Cleaned(child)
  OBVIOUS
<1> HIDE DEF dirty
<1>2. SUFFICES ASSUME Orderly PROVE LayoutAwaited' /\ FrameAsked' /\ NeverBack' /\ OnePass'
  BY <1>1 DEF LayoutWaits, Orderly
<1>3. LayoutAwaited /\ FrameAsked /\ NeverBack /\ OnePass
  BY <1>2 DEF LayoutWaits
<1>4. FrameAsked' /\ OnePass'
  BY <1>0, <1>1, <1>3, MarksAskFrame, OnePassStays
<1>5. NeverBack'
  BY <1>1, <1>3 DEF NeverBack
<1>6. LayoutAwaited'
  <2>1. \A m \in Nodes : parent'[m] = IF m = child THEN None ELSE parent[m]
    BY <1>0, <1>1 DEF TypeOK
  <2>2. /\ dirty \cup {n} \subseteq needs_layout'
        /\ needs_layout' \subseteq dirty \cup above[n]
        /\ nodes_needing_layout \subseteq nodes_needing_layout'
        /\ \A m \in needs_layout' \ dirty :
               m \in nodes_needing_layout' \/ parent[m] \in needs_layout' \cap above[n]
    BY <1>0, <1>1, MarkAwaits
  <2>3. OnList \subseteq OnList' /\ nodes_needing_layout' \subseteq OnList'
    BY <1>1, <2>2 DEF OnList, Stack
  <2>4. child # Root /\ child \notin above[n] /\ n # None
    BY <1>0, <1>1, TreeAssumption DEF ViewOnTop, Forest
  <2> SUFFICES ASSUME NEW m \in needs_layout'
               PROVE  m \in OnList' \/ (parent'[m] = None /\ m # Root) \/ parent'[m] \in needs_layout'
    BY DEF LayoutAwaited
  <2>5. m \in Nodes
    BY <1>0, <2>2 DEF TypeOK
  <2>6. CASE m = child
    BY <2>1, <2>4, <2>5, <2>6
  <2>7. CASE m # child /\ m \in needs_layout
    BY <1>c, <1>3, <2>1, <2>2, <2>3, <2>5, <2>7 DEF LayoutAwaited
  <2>8. CASE m # child /\ m \in Cleaned(child)
    <3>1. m \in Subtree(child) /\ above[m] \cap Subtree(child) \cap Boundaries = {}
      BY <2>8 DEF Cleaned
    <3>2. parent[m] # None
      BY <1>0, <2>5, <2>8, <3>1 DEF Forest, Subtree
    <3>3. above[m] = {m} \cup above[parent[m]] /\ parent[m] \in Nodes
      BY <1>0, <2>5, <3>2 DEF Forest, TypeOK
    <3>4. parent[m] \in Cleaned(child)
      BY <2>8, <3>1, <3>3 DEF Cleaned, Subtree
    <3>. QED  BY <1>c, <2>1, <2>2, <2>5, <2>8, <3>4
  <2>9. CASE m # child /\ m \notin dirty
    BY <2>1, <2>2, <2>3, <2>5, <2>9
  <2>. QED  BY <1>c, <2>6, <2>7, <2>8, <2>9
<1>. QED  BY <1>4, <1>5, <1>6

LEMMA WaitsFinishLayout ==
    ASSUME MeasureInv, LayoutWaits, FinishLayout
    PROVE  LayoutWaits'
<1>0. TypeOK
  BY DEF MeasureInv, RootsInv, MarksInv
<1> DEFINE t == Top.node
<1>1. /\ laying # <<>>
      /\ \A m \in Nodes : parent[m] = t => m \in Top.laid_out
      /\ laying' = SubSeq(laying, 1, Len(laying) - 1)
      /\ needs_layout' = needs_layout \ {t}
      /\ MarkNeedsPaint(t, frame_scheduled)
      /\ UNCHANGED <<parent, attached, nodes_needing_layout, in_frame, dirty_nodes, passed_over,
                     liberties>>
  BY DEF FinishLayout, tree, history
<1>2. SUFFICES ASSUME Orderly PROVE LayoutAwaited' /\ FrameAsked' /\ NeverBack' /\ OnePass'
  BY <1>1 DEF LayoutWaits, Orderly
<1>3. LayoutAwaited /\ FrameAsked /\ NeverBack /\ OnePass
  BY <1>2 DEF LayoutWaits
<1>4. in_frame
  BY <1>1 DEF MeasureInv, RootsInv, MarksInv, LayingOK
<1>5. frame_scheduled => frame_scheduled'
  BY <1>1, Zenon DEF MarkNeedsPaint
<1>6. FrameAsked' /\ OnePass' /\ NeverBack'
  BY <1>1, <1>3, <1>4, <1>5 DEF FrameAsked, OnePass, NeverBack
<1>7. ASSUME NEW m \in needs_layout, parent[m] = t PROVE FALSE
  <2>1. LaidOutAreClean
    BY <1>2 DEF MeasureInv, Orderly, Throws, BuildsInLayout, ChangesOutside
  <2>2. Len(laying) \in Nat /\ Len(laying) \in 1..Len(laying) /\ Top = laying[Len(laying)]
    BY <1>0, <1>1, TopType
  <2>3. m \in Top.laid_out /\ ~(Len(laying) < Len(laying))
    BY <1>0, <1>1, <1>7, <2>2 DEF TypeOK
  <2>. QED  BY <1>7, <2>1, <2>2, <2>3 DEF LaidOutAreClean
<1>8. OnList \subseteq OnList' \cup {t}
  <2>1. Stack \subseteq Stack' \cup {t}
    BY <1>0, <1>1, LaidTop
  <2>. QED  BY <1>1, <2>1 DEF OnList
<1>9. LayoutAwaited'
  BY <1>1, <1>3, <1>7, <1>8 DEF LayoutAwaited
<1>. QED  BY <1>6, <1>9

LEMMA WaitsNext == MeasureInv /\ InTree /\ LayoutWaits /\ [Next]_vars => LayoutWaits'
<1> SUFFICES ASSUME MeasureInv, InTree, LayoutWaits, [Next]_vars PROVE LayoutWaits'
  OBVIOUS
<1>0. MarksInv /\ TypeOK /\ Forest /\ MarksStopAtBoundary /\ needs_layout \in SUBSET Nodes
  BY DEF MeasureInv, RootsInv, MarksInv, TypeOK
<1>s. ASSUME UNCHANGED <<parent, needs_layout, liberties>>, OnList \subseteq OnList' \cup (Nodes \ needs_layout),
             Orderly => FrameAsked' /\ NeverBack' /\ OnePass'
      PROVE  LayoutWaits'
  BY <1>s DEF LayoutWaits, Orderly, LayoutAwaited
<1>t. laying' = laying => Stack' = Stack
  BY DEF Stack
<1>u. Orderly => LayoutAwaited /\ FrameAsked /\ NeverBack /\ OnePass
  BY DEF LayoutWaits
<1>1. ASSUME BeginFrame PROVE LayoutWaits'
  <2>1. /\ ~in_frame /\ in_frame' /\ dirty_nodes' = nodes_needing_layout /\ nodes_needing_layout' = {}
        /\ UNCHANGED <<parent, attached, needs_layout, laying, passed_over, liberties, nodes_needing_paint>>
    BY <1>1 DEF BeginFrame, tree, history
  <2>2. OnList \subseteq OnList'
    BY <1>t, <2>1 DEF OnList, InTree
  <2>3. Orderly => FrameAsked' /\ NeverBack' /\ OnePass'
    BY <1>u, <2>1 DEF FrameAsked, NeverBack, OnePass
  <2>. QED  BY <1>s, <2>1, <2>2, <2>3
<1>2. ASSUME NEW n \in Nodes, LayoutWithoutResize(n) PROVE LayoutWaits'
  <2>1. /\ laying = <<>> /\ dirty_nodes' = dirty_nodes \ {n}
        /\ \/ n \in needs_layout \cap attached /\ PerformLayout(n)
           \/ n \notin needs_layout \cap attached /\ UNCHANGED laying
        /\ passed_over' = passed_over \cup ({n} \cap (needs_layout \ attached))
        /\ UNCHANGED <<parent, attached, needs_layout, nodes_needing_layout, frame_scheduled,
                       nodes_needing_paint, in_frame, liberties>>
    BY <1>2 DEF LayoutWithoutResize, tree, marks
  <2>2. Stack = {} /\ (n \in needs_layout \cap attached => Stack' = {n})
    BY <2>1, NobodyLays, LayNode
  <2>3. OnList \subseteq OnList' \cup (Nodes \ needs_layout)
    BY <2>1, <2>2 DEF OnList
  <2>4. Orderly => FrameAsked' /\ NeverBack' /\ OnePass'
    BY <1>u, <2>1 DEF FrameAsked, NeverBack, OnePass
  <2>. QED  BY <1>s, <2>1, <2>3, <2>4
<1>3. ASSUME NEW c \in Nodes, NEW is_boundary \in BOOLEAN, NEW same_constraints \in BOOLEAN,
             Layout(c, is_boundary, same_constraints)
      PROVE  LayoutWaits'
  <2>1. UNCHANGED <<parent, attached, needs_layout, nodes_needing_layout, frame_scheduled,
                    nodes_needing_paint, in_frame, dirty_nodes, passed_over, liberties>>
    BY <1>3 DEF Layout, tree, marks, history
  <2>2. Stack \subseteq Stack'
    BY <1>0, <1>3, LayChild
  <2>3. OnList \subseteq OnList'
    BY <2>1, <2>2 DEF OnList
  <2>4. Orderly => FrameAsked' /\ NeverBack' /\ OnePass'
    BY <1>u, <2>1 DEF FrameAsked, NeverBack, OnePass
  <2>. QED  BY <1>s, <2>1, <2>3, <2>4
<1>4. ASSUME FinishLayout PROVE LayoutWaits'
  BY <1>4, WaitsFinishLayout
<1>5. ASSUME ThrowInLayout PROVE LayoutWaits'
  BY <1>5 DEF ThrowInLayout, history, LayoutWaits, Orderly, Throws, BuildsInLayout, ChangesOutside
<1>6. ASSUME FlushPaint PROVE LayoutWaits'
  <2>1. /\ in_frame /\ nodes_needing_paint' = {}
        /\ passed_over' = passed_over \cup (nodes_needing_paint \ attached)
        /\ UNCHANGED <<parent, attached, needs_layout, nodes_needing_layout, frame_scheduled,
                       dirty_nodes, laying, liberties>>
        /\ ~in_frame'
    BY <1>6 DEF FlushPaint, tree
  <2>2. OnList \subseteq OnList'
    BY <1>t, <2>1 DEF OnList
  <2>3. Orderly => FrameAsked' /\ NeverBack' /\ OnePass'
    BY <1>u, <2>1 DEF FrameAsked, NeverBack, OnePass
  <2>. QED  BY <1>s, <2>1, <2>2, <2>3
<1>7. ASSUME NEW n \in Nodes, NEW c \in Nodes, AdoptChild(n, c) PROVE LayoutWaits'
  BY <1>0, <1>7, WaitsAdoptChild
<1>8. ASSUME NEW n \in Nodes, NEW c \in Nodes, DropChild(n, c) PROVE LayoutWaits'
  BY <1>0, <1>8, WaitsDropChild
<1>9. ASSUME NEW n \in Nodes, ChangeLayout(n) PROVE LayoutWaits'
  <2>1. /\ CanMutate(n) /\ MarkNeedsLayoutWith(n, needs_layout)
        /\ UNCHANGED <<parent, attached, nodes_needing_paint, in_frame, dirty_nodes, laying,
                       passed_over, liberties>>
    BY <1>9 DEF ChangeLayout, tree, history
  <2>2. SUFFICES ASSUME Orderly PROVE LayoutAwaited' /\ FrameAsked' /\ NeverBack' /\ OnePass'
    BY <2>1 DEF LayoutWaits, Orderly
  <2>3. FrameAsked' /\ OnePass' /\ NeverBack'
    BY <1>0, <1>u, <2>1, <2>2, MarksAskFrame, OnePassStays DEF NeverBack
  <2>4. /\ needs_layout \cup {n} \subseteq needs_layout'
        /\ nodes_needing_layout \subseteq nodes_needing_layout'
        /\ \A m \in needs_layout' \ needs_layout :
               m \in nodes_needing_layout' \/ parent[m] \in needs_layout' \cap above[n]
    BY <1>0, <2>1, MarkAwaits
  <2>5. OnList \subseteq OnList' /\ nodes_needing_layout' \subseteq OnList'
    BY <1>t, <2>1, <2>4 DEF OnList
  <2>6. LayoutAwaited'
    BY <1>u, <2>1, <2>2, <2>4, <2>5 DEF LayoutAwaited
  <2>. QED  BY <2>3, <2>6
<1>10. ASSUME NEW n \in Nodes, ChangeLooks(n) PROVE LayoutWaits'
  <2>1. /\ MarkNeedsPaint(n, frame_scheduled)
        /\ UNCHANGED <<parent, attached, needs_layout, nodes_needing_layout, in_frame, dirty_nodes,
                       laying, passed_over, liberties>>
    BY <1>10 DEF ChangeLooks, tree, history
  <2>2. /\ frame_scheduled => frame_scheduled'
        /\ nodes_needing_paint' # nodes_needing_paint => frame_scheduled'
    <3> DEFINE reached == IF n \in attached THEN Climb(n, needs_paint \cup DisplayLists) ELSE {}
               marked == (reached \cap DisplayLists) \ needs_paint
    <3>1. /\ nodes_needing_paint' = nodes_needing_paint \cup marked
          /\ frame_scheduled' = (frame_scheduled \/ marked # {})
      BY <2>1 DEF MarkNeedsPaint
    <3> HIDE DEF marked
    <3>2. nodes_needing_paint' # nodes_needing_paint => marked # {}
      BY <3>1
    <3>. QED  BY <3>1, <3>2, Zenon
  <2>3. OnList \subseteq OnList'
    BY <1>t, <2>1 DEF OnList
  <2>4. Orderly => FrameAsked' /\ NeverBack' /\ OnePass'
    BY <1>u, <2>1, <2>2 DEF FrameAsked, NeverBack, OnePass
  <2>. QED  BY <1>s, <2>1, <2>3, <2>4
<1>11. CASE UNCHANGED vars
  <2>1. UNCHANGED <<parent, attached, needs_layout, nodes_needing_layout, frame_scheduled,
                    nodes_needing_paint, in_frame, dirty_nodes, laying, passed_over, liberties>>
    BY <1>11 DEF vars, tree, marks, history
  <2>2. OnList \subseteq OnList'
    BY <1>t, <2>1 DEF OnList
  <2>3. Orderly => FrameAsked' /\ NeverBack' /\ OnePass'
    BY <1>u, <2>1 DEF FrameAsked, NeverBack, OnePass
  <2>. QED  BY <1>s, <2>1, <2>2, <2>3
<1>. QED
  BY <1>1, <1>2, <1>3, <1>4, <1>5, <1>6, <1>7, <1>8, <1>9, <1>10, <1>11 DEF Next, Frame

LEMMA WaitsInit == Init => LayoutWaits
<1> SUFFICES ASSUME Init PROVE LayoutWaits
  OBVIOUS
<1>1. LayoutAwaited
  BY DEF Init, LayoutAwaited, OnList
<1>2. FrameAsked /\ OnePass /\ NeverBack
  BY DEF Init, FrameAsked, OnePass, NeverBack
<1>. QED  BY <1>1, <1>2 DEF LayoutWaits

FlushInv == MeasureInv /\ InTree /\ LayoutWaits

LEMMA FlushCorrect == Spec => []FlushInv
<1>1. Init => FlushInv
  BY MeasureInit, InTreeInit, WaitsInit DEF FlushInv
<1>2. FlushInv /\ [Next]_vars => FlushInv'
  BY MeasureNext, InTreeNext, WaitsNext DEF FlushInv, MeasureInv, RootsInv
<1>. QED  BY <1>1, <1>2, PTL DEF Spec

(* What waits on no list is clean. *)
LEMMA NobodyWaits ==
    ASSUME FlushInv, Orderly, nodes_needing_layout = {}, dirty_nodes = {}, laying = <<>>
    PROVE  attached \cap needs_layout = {}
<1>0. TypeOK /\ Forest /\ ViewOnTop /\ ClimbsEnd /\ LayoutAwaited /\ NeverBack
  BY DEF FlushInv, MeasureInv, RootsInv, MarksInv, InTree, LayoutWaits
<1> DEFINE T == attached \cap needs_layout
<1>1. OnList \cap attached = {}
  BY <1>0, NobodyLays DEF OnList, NeverBack
<1>2. ASSUME NEW m \in T PROVE parent[m] \in T /\ parent[m] \in above[m] /\ parent[m] # m
  <2>1. m \in Nodes /\ m \in attached /\ m \notin OnList
    BY <1>0, <1>1 DEF TypeOK
  <2>2. ~(parent[m] = None /\ m # Root)
    BY <1>0, <2>1 DEF ViewOnTop
  <2>3. parent[m] \in needs_layout
    BY <1>0, <2>1, <2>2 DEF LayoutAwaited
  <2>4. parent[m] # None /\ parent[m] \in Nodes
    BY <1>0, <2>3, TreeAssumption DEF TypeOK
  <2>5. above[m] = {m} \cup above[parent[m]] /\ m \notin above[parent[m]] /\ parent[m] \in above[parent[m]]
    BY <1>0, <2>1, <2>4 DEF Forest
  <2>6. Root \in above[m] /\ m # Root
    BY <1>0, <2>1, <2>4 DEF FlushInv, InTree, ViewOnTop
  <2>7. parent[m] \in attached
    BY <2>4, <2>5, <2>6 DEF FlushInv, InTree
  <2>. QED  BY <2>3, <2>5, <2>7
<1>3. T \in SUBSET Nodes
  BY <1>0 DEF TypeOK
<1> HIDE DEF T
<1>4. T = {}
  BY <1>0, <1>2, <1>3, NobodyOnTop
<1>. QED  BY <1>4 DEF T

(***************************************************************************)
(* For every tree: one pass over the list lays out all that is in it, and  *)
(* what is painted is clean (assert(!_needsLayout) in                      *)
(* _updatePaintingCanvas), for programs that change nothing from layout    *)
(* callbacks, throw nothing and put back no subtree that a flush passed    *)
(* over.  The way up from a dirty node is dirty until it comes to a node   *)
(* that was listed.                                                        *)
(***************************************************************************)
THEOREM TreesArePaintedClean == Spec => []PaintsCleanTree
<1>1. FlushInv => PaintsCleanTree
  <2> SUFFICES ASSUME FlushInv, liberties \subseteq {ChangesOutside},
                      in_frame, laying = <<>>, dirty_nodes = {}
               PROVE  attached \cap needs_layout = {}
    BY DEF PaintsCleanTree
  <2>1. Orderly /\ BuildsInLayout \notin liberties
    BY DEF Orderly, BuildsInLayout, ChangesOutside
  <2>2. nodes_needing_layout = {}
    BY <2>1 DEF FlushInv, LayoutWaits, OnePass
  <2>. QED  BY <2>1, <2>2, NobodyWaits
<1>. QED  BY <1>1, FlushCorrect, PTL

-----------------------------------------------------------------------------
(* What waits to be painted *)

(* The way from a node up to the display list that it is painted on. *)
Way(n) == Climb(n, DisplayLists)

WaysUp ==
    \A n \in Nodes :
        /\ n \in Way(n)
        /\ Way(n) \subseteq above[n]
        /\ \A d, e \in Way(n) \cap DisplayLists : d = e
        /\ \A k \in Way(n) : /\ k \in Nodes
                             /\ Way(k) \subseteq Way(n)
                             /\ Way(n) \cap DisplayLists \subseteq Way(k)

LEMMA WaysGoUp == TypeOK /\ Forest => WaysUp
<1> SUFFICES ASSUME TypeOK, Forest, NEW n \in Nodes
             PROVE  /\ n \in Way(n)
                    /\ Way(n) \subseteq above[n]
                    /\ \A d, e \in Way(n) \cap DisplayLists : d = e
                    /\ \A k \in Way(n) : /\ k \in Nodes
                                         /\ Way(k) \subseteq Way(n)
                                         /\ Way(n) \cap DisplayLists \subseteq Way(k)
  BY DEF WaysUp
<1>1. above[n] \subseteq Nodes
  BY DEF TypeOK
<1>2. n \in Way(n) /\ Way(n) \subseteq above[n]
  BY <1>1 DEF Way, Climb, Forest
<1>3. \A d, e \in Way(n) \cap DisplayLists : d = e
  BY <1>1 DEF Way, Climb, Forest
<1>4. ASSUME NEW k \in Way(n)
      PROVE  k \in Nodes /\ Way(k) \subseteq Way(n) /\ Way(n) \cap DisplayLists \subseteq Way(k)
  <2>1. k \in above[n] /\ k \in Nodes /\ above[k] \subseteq above[n] /\ k \in above[k]
    BY <1>1, <1>2 DEF Forest
  <2>2. \A j \in above[n] \cap DisplayLists : k \in above[j] => k = j
    BY DEF Way, Climb
  <2>3. \A j \in above[n] : j \in above[k] \/ k \in above[j]
    BY <2>1 DEF Forest
  <2>4. ASSUME NEW m \in Way(k) PROVE m \in Way(n)
    <3>1. m \in above[k] /\ \A j \in above[k] \cap DisplayLists : m \in above[j] => m = j
      BY DEF Way, Climb
    <3>2. ASSUME NEW j \in above[n] \cap DisplayLists, m \in above[j] PROVE m = j
      BY <2>1, <2>2, <2>3, <3>1, <3>2
    <3>. QED  BY <2>1, <3>1, <3>2 DEF Way, Climb
  <2>5. ASSUME NEW d \in Way(n) \cap DisplayLists PROVE d \in Way(k)
    <3>1. d \in above[n] /\ \A j \in above[n] \cap DisplayLists : d \in above[j] => d = j
      BY DEF Way, Climb
    <3>2. d \in above[k]
      BY <2>1, <2>2, <2>3, <3>1
    <3>. QED  BY <2>1, <3>1, <3>2 DEF Way, Climb
  <2>. QED  BY <2>1, <2>4, <2>5
<1>. QED  BY <1>2, <1>3, <1>4

LEMMA WaysGoUpNext == TypeOK' /\ Forest' => WaysUp'
BY WaysGoUp, PTL

(* A display list on the way is marked, or a layout will mark it that nothing stops. *)
Tells(k) == \/ k \in DisplayLists \cap needs_paint
            \/ k \in needs_layout /\ Way(k) \cap needs_paint = {}

Told(n) == \E k \in Way(n) : Tells(k)

Heard(n) == Way(n) \cap DisplayLists # {} => Told(n)

(* What is not in the picture is heard of. *)
LooksAwaited == \A n \in unseen \cup needs_paint : Heard(n)

(* And so is a display list to record, by the one it is part of. *)
PaintAwaited ==
    \A d \in DisplayLists \cap needs_paint :
        \/ d \in nodes_needing_paint \cup passed_over
        \/ parent[d] = None /\ d # Root
        \/ parent[d] # None /\ Heard(parent[d])

(* Of those, the programs that do not change the looks of what is out of the tree. *)
OrderlyInside == liberties \subseteq {BuildsInLayout}

PaintWaits == OrderlyInside => LooksAwaited /\ PaintAwaited

(* Steps after which everything heard of is so still. *)
LEMMA PaintStays ==
    ASSUME PaintWaits, UNCHANGED <<parent, liberties>>,
           \A n \in Nodes : Heard(n) => Heard(n)',
           TypeOK, TypeOK',
           unseen' \subseteq unseen, needs_paint' \subseteq needs_paint,
           nodes_needing_paint \cup passed_over \subseteq nodes_needing_paint' \cup passed_over'
    PROVE  PaintWaits'
<1> SUFFICES ASSUME OrderlyInside PROVE LooksAwaited' /\ PaintAwaited'
  BY DEF PaintWaits, OrderlyInside
<1>1. LooksAwaited /\ PaintAwaited
  BY DEF PaintWaits
<1>2. LooksAwaited'
  BY <1>1 DEF LooksAwaited, TypeOK
<1>3. ASSUME NEW d \in DisplayLists \cap needs_paint'
      PROVE  \/ d \in nodes_needing_paint' \cup passed_over'
             \/ parent'[d] = None /\ d # Root
             \/ parent'[d] # None /\ Heard(parent[d])'
  <2>1. d \in Nodes /\ (parent[d] # None => parent[d] \in Nodes)
    BY TreeAssumption DEF TypeOK
  <2>. QED  BY <1>1, <2>1 DEF PaintAwaited
<1>. QED  BY <1>2, <1>3 DEF PaintAwaited

(* More to lay out, in the same tree. *)
LEMMA MoreDirty ==
    ASSUME UNCHANGED <<above, needs_paint>>, needs_layout \subseteq needs_layout'
    PROVE  \A n \in Nodes : Heard(n) => Heard(n)'
BY DEF Heard, Told, Tells, Way, Climb

LEMMA OnTheWay ==
    ASSUME TypeOK, Forest, InTree, NEW n \in Nodes, n \in attached
    PROVE  Way(n) \cap DisplayLists # {}
<1>1. above[n] \cap DisplayLists # {}
  BY TreeAssumption DEF InTree
<1>. QED  BY <1>1, FirstOnTheWay DEF InTree, Way

(* A mark for painting reaches a display list, or stops where one is told of already. *)
LEMMA MarkTells ==
    ASSUME TypeOK, Forest, InTree, LooksAwaited, NEW n \in Nodes, n \in attached,
           NEW scheduled, MarkNeedsPaint(n, scheduled)
    PROVE  \E k \in Way(n) : \/ k \in DisplayLists \cap needs_paint'
                             \/ k # n /\ Tells(k)
<1> DEFINE Stop == needs_paint \cup DisplayLists
<1>1. WaysUp /\ Way(n) \cap DisplayLists # {}
  BY WaysGoUp, OnTheWay
<1>2. PICK s \in Climb(n, Stop) : s \in Stop
  <2>1. above[n] \cap Stop # {}
    BY <1>1 DEF Way, Climb
  <2>2. Climb(n, Stop) \cap Stop # {}
    <3> HIDE DEF Stop
    <3>. QED  BY <2>1, FirstOnTheWay DEF InTree
  <2>. QED  BY <2>2
<1>3. s \in Way(n)
  BY DEF Climb, Way
<1>4. CASE s \in DisplayLists
  <2>1. s \in needs_paint'
    BY <1>2, <1>4 DEF MarkNeedsPaint
  <2>. QED  BY <1>3, <1>4, <2>1
<1>5. CASE s \notin DisplayLists
  <2>1. s \in needs_paint /\ s \in Nodes /\ Way(s) \subseteq Way(n)
    BY <1>1, <1>2, <1>3, <1>5 DEF WaysUp
  <2>2. Way(s) \cap DisplayLists # {}
    BY <1>1, <1>3 DEF WaysUp
  <2>3. PICK k \in Way(s) : Tells(k)
    BY <2>1, <2>2 DEF LooksAwaited, Heard, Told
  <2>4. k \in Way(n) /\ needs_paint \subseteq needs_paint'
    BY <2>1 DEF MarkNeedsPaint
  <2>5. CASE k \in DisplayLists \cap needs_paint
    BY <2>4, <2>5
  <2>6. CASE k \in needs_layout /\ Way(k) \cap needs_paint = {}
    BY <1>3, <2>1, <2>3, <2>4, <2>6
  <2>. QED  BY <2>3, <2>5, <2>6 DEF Tells
<1>. QED  BY <1>4, <1>5

(* The layout of a node ends, or its looks change: everything heard of is so still. *)
LEMMA PaintMarks ==
    ASSUME TypeOK, TypeOK', Forest, InTree, LooksAwaited, PaintAwaited,
           NEW t \in Nodes, t \in attached, NEW scheduled, MarkNeedsPaint(t, scheduled),
           UNCHANGED <<parent, above, passed_over>>,
           needs_layout \ {t} \subseteq needs_layout', unseen' = unseen \cup {t}
    PROVE  LooksAwaited' /\ PaintAwaited'
<1> DEFINE reached == Climb(t, needs_paint \cup DisplayLists)
           marked == (reached \cap DisplayLists) \ needs_paint
<1>1. /\ needs_paint' = needs_paint \cup marked
      /\ nodes_needing_paint' = nodes_needing_paint \cup marked
      /\ marked \subseteq DisplayLists
  BY DEF MarkNeedsPaint
<1>2. WaysUp /\ WaysUp'
  <2>1. Forest'
    BY DEF Forest
  <2>. QED  BY <2>1, WaysGoUp, WaysGoUpNext
<1>3. \A n : Way(n)' = Way(n)
  BY DEF Way, Climb
<1> HIDE DEF marked
<1>4. ASSUME NEW n \in Nodes, NEW k \in Way(n), Tells(k), k # t
      PROVE  \E j \in Way(n) : Tells(j)'
  <2>1. k \in Nodes /\ Way(k) \subseteq Way(n)
    BY <1>2 DEF WaysUp
  <2>2. CASE k \in DisplayLists \cap needs_paint
    BY <1>1, <2>2 DEF Tells
  <2>3. CASE k \in needs_layout /\ Way(k) \cap needs_paint = {}
    <3>1. CASE Way(k) \cap marked = {}
      BY <1>1, <1>3, <1>4, <2>3, <3>1 DEF Tells
    <3>2. CASE Way(k) \cap marked # {}
      BY <1>1, <2>1, <3>2 DEF Tells
    <3>. QED  BY <3>1, <3>2
  <2>. QED  BY <1>4, <2>2, <2>3 DEF Tells
<1>5. \E j \in Way(t) : Tells(j)'
  <2>1. PICK k \in Way(t) : \/ k \in DisplayLists \cap needs_paint'
                            \/ k # t /\ Tells(k)
    BY MarkTells
  <2>2. CASE k \in DisplayLists \cap needs_paint'
    BY <2>2 DEF Tells
  <2>3. CASE k # t /\ Tells(k)
    BY <1>4, <2>3
  <2>. QED  BY <2>1, <2>2, <2>3
<1>6. ASSUME NEW n \in Nodes, Heard(n) PROVE Heard(n)'
  <2> SUFFICES ASSUME Way(n) \cap DisplayLists # {}
               PROVE  \E j \in Way(n) : Tells(j)'
    BY <1>3 DEF Heard, Told
  <2>1. PICK k \in Way(n) : Tells(k)
    BY <1>6 DEF Heard, Told
  <2>2. CASE k = t
    <3>1. Way(t) \subseteq Way(n)
      BY <1>2, <2>2 DEF WaysUp
    <3>. QED  BY <1>5, <3>1
  <2>. QED  BY <1>4, <2>1, <2>2
<1>7. LooksAwaited'
  <2> SUFFICES ASSUME NEW n \in unseen' \cup needs_paint' PROVE Heard(n)'
    BY DEF LooksAwaited
  <2>1. n \in Nodes
    BY DEF TypeOK
  <2>2. CASE n \in unseen \cup needs_paint
    BY <1>6, <2>1, <2>2 DEF LooksAwaited
  <2>3. CASE n = t
    BY <1>3, <1>5, <2>3 DEF Heard, Told
  <2>4. CASE n \in marked
    <3>1. n \in Way(n)
      BY <1>2, <2>1 DEF WaysUp
    <3>. QED  BY <1>1, <1>3, <2>4, <3>1 DEF Heard, Told, Tells
  <2>. QED  BY <1>1, <2>2, <2>3, <2>4
<1>8. PaintAwaited'
  <2> SUFFICES ASSUME NEW d \in DisplayLists \cap needs_paint'
               PROVE  \/ d \in nodes_needing_paint' \cup passed_over'
                      \/ parent'[d] = None /\ d # Root
                      \/ parent'[d] # None /\ Heard(parent[d])'
    BY DEF PaintAwaited
  <2>1. d \in Nodes /\ (parent[d] # None => parent[d] \in Nodes)
    BY TreeAssumption DEF TypeOK
  <2>. QED  BY <1>1, <1>6, <2>1 DEF PaintAwaited
<1>. QED  BY <1>7, <1>8

LEMMA PaintAdoptChild ==
    ASSUME MarksInv, MarksInv', InTree, PaintWaits, NEW n \in Nodes, NEW child \in Nodes,
           AdoptChild(n, child)
    PROVE  PaintWaits'
<1>0. TypeOK /\ Forest /\ WaysUp /\ TypeOK' /\ Forest' /\ WaysUp' /\ MarksStopAtBoundary
  BY WaysGoUp, WaysGoUpNext DEF MarksInv
<1>1. /\ parent[child] = None /\ n \notin Subtree(child)
      /\ MarkNeedsLayoutWith(n, needs_layout)
      /\ parent' = [parent EXCEPT ![child] = n]
      /\ above' = [m \in Nodes |-> IF m \in Subtree(child) THEN above[m] \cup above[n] ELSE above[m]]
      /\ UNCHANGED <<needs_paint, nodes_needing_paint, unseen, passed_over, liberties>>
  BY DEF AdoptChild, history
<1>2. SUFFICES ASSUME OrderlyInside PROVE LooksAwaited' /\ PaintAwaited'
  BY <1>1 DEF PaintWaits, OrderlyInside
<1>3. LooksAwaited /\ PaintAwaited
  BY <1>2 DEF PaintWaits
<1>4. needs_layout \cup {n} \subseteq needs_layout'
  <2>1. needs_layout \in SUBSET Nodes
    BY <1>0 DEF TypeOK
  <2>. QED  BY <1>0, <1>1, <2>1, MarkAwaits
<1>5. \A m \in Nodes : above'[m] = IF child \in above[m] THEN above[m] \cup above[n] ELSE above[m]
  BY <1>1 DEF Subtree
<1>6. \A m \in Nodes : above[m] \subseteq Nodes
  BY <1>0 DEF TypeOK
<1>7. ASSUME NEW x \in Nodes, child \notin above[x]
      PROVE  Way(x)' = Way(x) /\ \A k \in above[x] : child \notin above[k]
  <2>1. \A k \in above[x] : child \notin above[k]
    BY <1>0, <1>7 DEF Forest
  <2>2. above'[x] = above[x] /\ \A k \in above[x] : above'[k] = above[k]
    BY <1>5, <1>6, <1>7, <2>1
  <2>. QED  BY <2>1, <2>2 DEF Way, Climb
<1>8. ASSUME NEW x \in Nodes, child \notin above[x], NEW k \in Way(x), Tells(k) PROVE Tells(k)'
  <2>1. k \in Nodes /\ k \in above[x]
    BY <1>0 DEF WaysUp
  <2>2. Way(k)' = Way(k)
    BY <1>7, <1>8, <2>1
  <2>. QED  BY <1>1, <1>4, <1>8, <2>2 DEF Tells
<1>n. child \notin above[n] /\ Way(n)' = Way(n)
  BY <1>1, <1>7 DEF Subtree
(* Above the node that is marked, somebody tells. *)
<1>9. ASSUME Way(n) \cap DisplayLists # {} PROVE \E k \in Way(n) : Tells(k)'
  <2>1. CASE Way(n) \cap needs_paint = {}
    <3>1. n \in Way(n) /\ Tells(n)'
      BY <1>0, <1>1, <1>4, <1>n, <2>1 DEF WaysUp, Tells
    <3>. QED  BY <3>1
  <2>2. CASE Way(n) \cap needs_paint # {}
    <3>1. PICK s \in Way(n) : s \in needs_paint
      BY <2>2
    <3>2. s \in Nodes /\ Way(s) \subseteq Way(n) /\ Way(s) \cap DisplayLists # {}
      BY <1>0, <1>9 DEF WaysUp
    <3>3. PICK k \in Way(s) : Tells(k)
      BY <1>3, <3>1, <3>2 DEF LooksAwaited, Heard, Told
    <3>. QED  BY <1>8, <1>n, <3>2, <3>3
  <2>. QED  BY <2>1, <2>2
<1>10. Heard(n)'
  BY <1>9, <1>n DEF Heard, Told
(* The subtree that comes has nothing above it in common with its new parent. *)
<1>s. ASSUME NEW x \in Nodes, child \in above[x]
      PROVE  /\ above'[x] = above[x] \cup above[n]
             /\ \A k \in above[x] : child \in above[k] /\ k \notin above[n]
  <2>1. \A k \in above[x] : k \in above[child] \/ child \in above[k]
    BY <1>0, <1>s DEF Forest
  <2>2. above[child] = {child} /\ child \in above[child]
    BY <1>0, <1>1 DEF Forest
  <2>3. \A k \in above[n] : child \notin above[k]
    BY <1>0, <1>n DEF Forest
  <2>. QED  BY <1>5, <1>s, <2>1, <2>2, <2>3
<1>w. ASSUME NEW x \in Nodes, child \in above[x], Way(x) \cap DisplayLists # {}
      PROVE  Way(x)' = Way(x)
  <2>0. above'[x] = above[x] \cup above[n] /\ \A k \in above[x] : child \in above[k] /\ k \notin above[n]
    BY <1>s, <1>w
  <2>1. \A j \in above[x] : above'[j] = above[j] \cup above[n]
    BY <1>5, <1>6, <2>0
  <2>2. \A j \in above[n] : above'[j] = above[j] /\ above[j] \subseteq above[n]
    BY <1>0, <1>5, <1>6, <1>n DEF Forest
  <2>3. PICK d \in Way(x) : d \in DisplayLists
    BY <1>w
  <2>4. d \in above[x]
    BY <1>0 DEF WaysUp
  <2>5. ASSUME NEW m \in Way(x) PROVE m \in Way(x)'
    <3>1. m \in above[x] /\ \A j \in above[x] \cap DisplayLists : m \in above[j] => m = j
      BY DEF Way, Climb
    <3>2. ASSUME NEW j \in above'[x] \cap DisplayLists, m \in above'[j] PROVE m = j
      BY <2>0, <2>1, <2>2, <3>1, <3>2
    <3>. QED  BY <2>0, <3>1, <3>2 DEF Way, Climb
  <2>6. ASSUME NEW m, m \in Way(x)' PROVE m \in Way(x)
    <3>1. m \in above'[x] /\ \A j \in above'[x] \cap DisplayLists : m \in above'[j] => m = j
      BY <2>6 DEF Way, Climb
    <3>2. m \in above[x]
      BY <2>0, <2>1, <2>3, <2>4, <3>1
    <3>3. \A j \in above[x] \cap DisplayLists : m \in above[j] => m = j
      BY <2>0, <2>1, <3>1
    <3>. QED  BY <3>2, <3>3 DEF Way, Climb
  <2>. QED  BY <2>5, <2>6
<1>11. ASSUME NEW x \in Nodes, Heard(x) PROVE Heard(x)'
  <2> SUFFICES ASSUME Way(x)' \cap DisplayLists # {} PROVE Told(x)'
    BY DEF Heard
  <2>1. CASE child \notin above[x]
    <3>1. Way(x)' = Way(x)
      BY <1>7, <2>1
    <3>2. PICK k \in Way(x) : Tells(k)
      BY <1>11, <3>1 DEF Heard, Told
    <3>3. Tells(k)'
      BY <1>8, <2>1, <3>2
    <3>. QED  BY <3>1, <3>3 DEF Told
  <2>2. CASE child \in above[x] /\ Way(x) \cap DisplayLists # {}
    <3>1. Way(x)' = Way(x)
      BY <1>w, <2>2
    <3>2. PICK k \in Way(x) : Tells(k)
      BY <1>11, <2>2 DEF Heard, Told
    <3>3. k \in Nodes /\ k \in above[x] /\ Way(k) \cap DisplayLists # {}
      BY <1>0, <2>2 DEF WaysUp
    <3>4. child \in above[k]
      BY <1>s, <2>2, <3>3
    <3>5. Way(k)' = Way(k)
      BY <1>w, <3>3, <3>4
    <3>6. Tells(k)'
      BY <1>1, <1>4, <3>2, <3>5 DEF Tells
    <3>. QED  BY <3>1, <3>6 DEF Told
  <2>3. CASE child \in above[x] /\ Way(x) \cap DisplayLists = {}
    <3>1. above[x] \cap DisplayLists = {}
      BY <1>0, <2>3, FirstOnTheWay DEF InTree, Way
    <3>2. above'[x] = above[x] \cup above[n]
      BY <1>s, <2>3
    <3>3. \A j \in above[n] : above'[j] = above[j]
      BY <1>0, <1>5, <1>6, <1>n DEF Forest
    <3>4. ASSUME NEW m \in Way(n) PROVE m \in Way(x)'
      <4>1. m \in above[n] /\ \A j \in above[n] \cap DisplayLists : m \in above[j] => m = j
        BY DEF Way, Climb
      <4>. QED  BY <3>1, <3>2, <3>3, <4>1 DEF Way, Climb
    <3>5. above[n] \cap DisplayLists # {}
      BY <3>1, <3>2 DEF Way, Climb
    <3>6. Way(n) \cap DisplayLists # {}
      BY <1>0, <3>5, FirstOnTheWay DEF InTree, Way
    <3>7. PICK k \in Way(n) : Tells(k)'
      BY <1>9, <3>6
    <3>. QED  BY <3>4, <3>7 DEF Told
  <2>. QED  BY <2>1, <2>2, <2>3
<1>12. LooksAwaited'
  BY <1>0, <1>1, <1>3, <1>11 DEF LooksAwaited, TypeOK
<1>13. PaintAwaited'
  <2> SUFFICES ASSUME NEW d \in DisplayLists \cap needs_paint
               PROVE  \/ d \in nodes_needing_paint' \cup passed_over'
                      \/ parent'[d] = None /\ d # Root
                      \/ parent'[d] # None /\ Heard(parent[d])'
    BY <1>1 DEF PaintAwaited
  <2>1. d \in Nodes /\ n # None /\ \A m \in Nodes : parent'[m] = IF m = child THEN n ELSE parent[m]
    BY <1>0, <1>1, TreeAssumption DEF TypeOK
  <2>2. CASE d = child
    <3>1. parent'[d] = n
      BY <2>1, <2>2
    <3>. QED  BY <1>10, <2>1, <3>1
  <2>3. CASE d # child
    <3>1. parent'[d] = parent[d] /\ (parent[d] # None => parent[d] \in Nodes)
      BY <1>0, <2>1, <2>3 DEF TypeOK
    <3>2. Heard(parent[d]) /\ parent[d] # None => Heard(parent[d])'
      BY <1>11, <3>1
    <3>. QED  BY <1>1, <1>3, <3>1, <3>2 DEF PaintAwaited
  <2>. QED  BY <2>2, <2>3
<1>. QED  BY <1>12, <1>13

LEMMA PaintDropChild ==
    ASSUME MarksInv, MarksInv', PaintWaits, NEW n \in Nodes, NEW child \in Nodes,
           DropChild(n, child)
    PROVE  PaintWaits'
<1>0. TypeOK /\ Forest /\ WaysUp /\ TypeOK' /\ Forest' /\ WaysUp' /\ MarksStopAtBoundary /\ ViewOnTop
  BY WaysGoUp, WaysGoUpNext DEF MarksInv
<1>1. /\ parent[child] = n
      /\ MarkNeedsLayoutWith(n, needs_layout \cup Cleaned(child))
      /\ parent' = [parent EXCEPT ![child] = None]
      /\ above' = [m \in Nodes |-> IF m \in Subtree(child) THEN above[m] \ above[n] ELSE above[m]]
      /\ UNCHANGED <<needs_paint, nodes_needing_paint, unseen, passed_over, liberties>>
  BY DEF DropChild, history
<1>2. SUFFICES ASSUME OrderlyInside PROVE LooksAwaited' /\ PaintAwaited'
  BY <1>1 DEF PaintWaits, OrderlyInside
<1>3. LooksAwaited /\ PaintAwaited
  BY <1>2 DEF PaintWaits
<1>4. needs_layout \subseteq needs_layout'
  <2>1. needs_layout \cup Cleaned(child) \in SUBSET Nodes
    BY <1>0, CleanedType DEF TypeOK
  <2>. QED  BY <1>0, <1>1, <2>1, LayoutMarked
<1>5. \A m \in Nodes : above'[m] = IF child \in above[m] THEN above[m] \ above[n] ELSE above[m]
  BY <1>1 DEF Subtree
<1>6. \A m \in Nodes : above[m] \subseteq Nodes
  BY <1>0 DEF TypeOK
<1>7. above[child] = {child} \cup above[n] /\ child \notin above[n] /\ child # Root
  BY <1>0, <1>1, TreeAssumption DEF Forest, ViewOnTop
<1>8. ASSUME NEW x \in Nodes, child \notin above[x]
      PROVE  Way(x)' = Way(x) /\ \A k \in above[x] : child \notin above[k]
  <2>1. \A k \in above[x] : child \notin above[k]
    BY <1>0, <1>8 DEF Forest
  <2>2. above'[x] = above[x] /\ \A k \in above[x] : above'[k] = above[k]
    BY <1>5, <1>6, <1>8, <2>1
  <2>. QED  BY <2>1, <2>2 DEF Way, Climb
<1>9. ASSUME NEW x \in Nodes, child \in above[x], Way(x)' \cap DisplayLists # {}
      PROVE  Way(x)' = Way(x)
  <2>1. above'[x] = above[x] \ above[n]
    BY <1>5, <1>9
  <2>2. \A j \in above[x] : j \in above[n] \/ child \in above[j]
    <3>1. \A j \in above[x] : j \in above[child] \/ child \in above[j]
      BY <1>0, <1>9 DEF Forest
    <3>2. child \in above[child]
      BY <1>0 DEF Forest
    <3>. QED  BY <1>7, <3>1, <3>2
  <2>3. \A j \in above'[x] : above'[j] = above[j] \ above[n] /\ above[n] \subseteq above[j]
    <3>1. \A j \in above'[x] : child \in above[j] /\ j \in Nodes
      BY <1>6, <2>1, <2>2
    <3>2. \A j \in above'[x] : above[child] \subseteq above[j]
      BY <1>0, <3>1 DEF Forest
    <3>. QED  BY <1>5, <1>7, <3>1, <3>2
  <2>4. \A j \in above[n] : above[j] \subseteq above[n]
    BY <1>0 DEF Forest
  <2>5. PICK d \in Nodes : d \in DisplayLists /\ d \in above'[x]
    <3>1. Way(x)' \subseteq above'[x]
      BY <1>0 DEF WaysUp
    <3>. QED  BY <1>9, <3>1, TreeAssumption
  <2>6. ASSUME NEW m \in Way(x) PROVE m \in Way(x)'
    <3>1. m \in above[x] /\ \A j \in above[x] \cap DisplayLists : m \in above[j] => m = j
      BY DEF Way, Climb
    <3>2. m \notin above[n]
      BY <2>1, <2>3, <2>5, <3>1
    <3>. QED  BY <2>1, <2>3, <3>1, <3>2 DEF Way, Climb
  <2>7. ASSUME NEW m, m \in Way(x)' PROVE m \in Way(x)
    <3>1. m \in above'[x] /\ \A j \in above'[x] \cap DisplayLists : m \in above'[j] => m = j
      BY <2>7 DEF Way, Climb
    <3>2. ASSUME NEW j \in above[x] \cap DisplayLists, m \in above[j] PROVE m = j
      <4>1. j \notin above[n]
        BY <2>1, <2>4, <3>1, <3>2
      <4>. QED  BY <2>1, <2>3, <3>1, <3>2, <4>1
    <3>. QED  BY <2>1, <3>1, <3>2 DEF Way, Climb
  <2>. QED  BY <2>6, <2>7
<1>10. ASSUME NEW x \in Nodes, Heard(x) PROVE Heard(x)'
  <2> SUFFICES ASSUME Way(x)' \cap DisplayLists # {} PROVE Told(x)'
    BY DEF Heard
  <2>1. Way(x)' = Way(x)
    BY <1>8, <1>9
  <2>2. PICK k \in Way(x) : Tells(k)
    BY <1>10, <2>1 DEF Heard, Told
  <2>3. k \in Nodes /\ k \in above[x] /\ Way(k)' \cap DisplayLists # {}
    <3>1. k \in Way(x)'
      BY <2>1
    <3>2. Way(x)' \cap DisplayLists \subseteq Way(k)'
      BY <1>0, <3>1 DEF WaysUp
    <3>. QED  BY <1>0, <3>2 DEF WaysUp
  <2>4. Way(k)' = Way(k)
    BY <1>8, <1>9, <2>3
  <2>5. Tells(k)'
    BY <1>1, <1>4, <2>2, <2>4 DEF Tells
  <2>. QED  BY <2>1, <2>5 DEF Told
<1>11. LooksAwaited'
  BY <1>0, <1>1, <1>3, <1>10 DEF LooksAwaited, TypeOK
<1>12. PaintAwaited'
  <2> SUFFICES ASSUME NEW d \in DisplayLists \cap needs_paint
               PROVE  \/ d \in nodes_needing_paint' \cup passed_over'
                      \/ parent'[d] = None /\ d # Root
                      \/ parent'[d] # None /\ Heard(parent[d])'
    BY <1>1 DEF PaintAwaited
  <2>1. d \in Nodes /\ \A m \in Nodes : parent'[m] = IF m = child THEN None ELSE parent[m]
    BY <1>0, <1>1, TreeAssumption DEF TypeOK
  <2>2. CASE d = child
    BY <1>7, <2>1, <2>2
  <2>3. CASE d # child
    <3>1. parent'[d] = parent[d] /\ (parent[d] # None => parent[d] \in Nodes)
      BY <1>0, <2>1, <2>3 DEF TypeOK
    <3>2. Heard(parent[d]) /\ parent[d] # None => Heard(parent[d])'
      BY <1>10, <3>1
    <3>. QED  BY <1>1, <1>3, <3>1, <3>2 DEF PaintAwaited
  <2>. QED  BY <2>2, <2>3
<1>. QED  BY <1>11, <1>12

(* A flush records a display list with all that is painted on it. *)
LEMMA PaintFlush ==
    ASSUME MarksInv, MarksInv', InTree, PaintWaits, FlushPaint
    PROVE  PaintWaits'
<1>0. TypeOK /\ TypeOK' /\ Forest /\ WaysUp
  BY WaysGoUp DEF MarksInv
<1>1. /\ nodes_needing_paint' = {}
      /\ passed_over' = passed_over \cup (nodes_needing_paint \ attached)
      /\ UNCHANGED <<parent, above, needs_layout, liberties>>
  BY DEF FlushPaint, tree
<1>2. SUFFICES ASSUME OrderlyInside PROVE LooksAwaited' /\ PaintAwaited'
  BY <1>1 DEF PaintWaits, OrderlyInside
<1>3. LooksAwaited /\ PaintAwaited
  BY <1>2 DEF PaintWaits
<1> DEFINE painted == {n \in attached : Owner(n) \in Recorded}
<1>4. needs_paint' = (needs_paint \ Recorded) \ painted /\ unseen' = unseen \ painted
  <2>1. Throws \notin liberties
    BY <1>2 DEF OrderlyInside, Throws, BuildsInLayout
  <2>2. PICK recorded \in SUBSET Recorded, failed \in SUBSET Recorded :
            /\ failed # {} => Throws \in liberties
            /\ recorded # Recorded => failed # {}
            /\ unseen' = unseen \ PaintedOn(recorded \ failed)
            /\ \E visited \in SUBSET PaintedOn(failed) :
                   needs_paint' = needs_paint \ (recorded \cup visited
                                                  \cup PaintedOn(recorded \ failed))
    BY Zenon DEF FlushPaint
  <2>3. failed = {} /\ recorded = Recorded /\ recorded \ failed = Recorded
    BY <2>1, <2>2
  <2>4. PaintedOn(failed) = {} /\ PaintedOn(recorded \ failed) = painted
    BY <2>3 DEF PaintedOn
  <2>5. PICK visited \in SUBSET PaintedOn(failed) :
            needs_paint' = needs_paint \ (recorded \cup visited \cup PaintedOn(recorded \ failed))
    BY <2>2
  <2>6. visited = {}
    BY <2>4, <2>5
  <2>. QED  BY <2>2, <2>3, <2>4, <2>5, <2>6
<1>5. Recorded \subseteq attached \cap needs_paint \cap DisplayLists
  BY DEF Recorded
<1>6. \A n \in Nodes : \A d \in Way(n) \cap DisplayLists : Owner(n) = d
  BY <1>0 DEF WaysUp, Owner, Way
<1>7. \A n : Way(n)' = Way(n)
  BY <1>1 DEF Way, Climb
<1> HIDE DEF painted
(* A display list that is not recorded stays marked. *)
<1>8. ASSUME NEW d \in DisplayLists \cap needs_paint, d \notin Recorded PROVE d \in needs_paint'
  <2>1. d \in Nodes /\ d \in Way(d)
    BY <1>0, TreeAssumption DEF WaysUp
  <2>2. Owner(d) = d
    BY <1>6, <2>1
  <2>. QED  BY <1>4, <1>8, <2>2 DEF painted
(* What is told of without a display list being recorded is told of still. *)
<1>9. ASSUME NEW n \in Nodes, Told(n), \A d \in Way(n) : d \notin Recorded PROVE Told(n)'
  <2>1. PICK k \in Way(n) : Tells(k)
    BY <1>9 DEF Told
  <2>2. CASE k \in DisplayLists \cap needs_paint
    BY <1>7, <1>8, <1>9, <2>2 DEF Told, Tells
  <2>3. CASE k \in needs_layout /\ Way(k) \cap needs_paint = {}
    BY <1>1, <1>4, <1>7, <2>3 DEF Told, Tells
  <2>. QED  BY <2>1, <2>2, <2>3 DEF Tells
<1>r. ASSUME NEW n \in Nodes, Heard(n), \A d \in Way(n) : d \notin Recorded PROVE Heard(n)'
  BY <1>7, <1>9, <1>r DEF Heard
<1>10. LooksAwaited'
  <2> SUFFICES ASSUME NEW n \in unseen' \cup needs_paint', Way(n) \cap DisplayLists # {}
               PROVE  Told(n)'
    BY <1>7 DEF LooksAwaited, Heard
  <2>1. n \in Nodes /\ n \in unseen \cup needs_paint /\ n \notin painted
    BY <1>0, <1>4 DEF TypeOK
  <2>2. Told(n)
    BY <1>3, <2>1 DEF LooksAwaited, Heard
  <2>3. ASSUME NEW d \in Way(n), d \in Recorded PROVE FALSE
    <3>1. d \in attached /\ d \in DisplayLists /\ d \in above[n] /\ d \in Nodes
      BY <1>0, <1>5, <2>1, <2>3 DEF WaysUp
    <3>2. n \in attached
      BY <1>0, <2>1, <3>1 DEF InTree, Forest
    <3>3. Owner(n) = d
      BY <1>6, <2>1, <3>1
    <3>. QED  BY <2>1, <2>3, <3>2, <3>3 DEF painted
  <2>. QED  BY <1>9, <2>1, <2>2, <2>3
<1>11. PaintAwaited'
  <2> SUFFICES ASSUME NEW d \in DisplayLists \cap needs_paint'
               PROVE  \/ d \in passed_over'
                      \/ parent[d] = None /\ d # Root
                      \/ parent[d] # None /\ Heard(parent[d])'
    BY <1>1 DEF PaintAwaited
  <2>1. d \in Nodes /\ d \in needs_paint /\ d \notin Recorded /\ d \in above[d]
    BY <1>0, <1>4, TreeAssumption DEF Forest
  <2>2. CASE d \in nodes_needing_paint
    <3>1. d \notin attached
      <4> SUFFICES ASSUME d \in attached PROVE FALSE
        OBVIOUS
      <4>1. above[d] \cap Subtree(d) = {d}
        BY <1>0, <2>1 DEF Forest, Subtree, TypeOK
      <4>. QED  BY <2>1, <2>2, <4>1 DEF Recorded
    <3>. QED  BY <1>1, <2>2, <3>1
  <2>3. CASE parent[d] # None /\ Heard(parent[d])
    <3> DEFINE p == parent[d]
    <3>1. p \in Nodes /\ above[d] = {d} \cup above[p] /\ above[p] \subseteq Nodes
      BY <1>0, <2>1, <2>3 DEF Forest, TypeOK
    <3>2. ASSUME NEW e \in Way(p), e \in Recorded PROVE FALSE
      <4>1. /\ e \in attached /\ e \in DisplayLists /\ e \in Nodes
            /\ e \in above[p] /\ above[e] \subseteq above[p]
        BY <1>0, <1>5, <3>1, <3>2 DEF WaysUp, Forest
      <4>2. PICK l \in above[e] \cap nodes_needing_paint :
                \A k \in above[e] \cap Subtree(l) \cap DisplayLists : k \in needs_paint
        BY <3>2 DEF Recorded
      <4>3. d \in attached
        BY <2>1, <3>1, <4>1 DEF InTree
      <4>4. \A k \in above[p] \cap DisplayLists : k \in above[e]
        <5>1. \A k \in above[p] : k \in above[e] \/ e \in above[k]
          BY <1>0, <3>1, <4>1 DEF Forest
        <5>2. \A k \in above[p] \cap DisplayLists : e \in above[k] => e = k
          BY DEF Way, Climb
        <5>3. e \in above[e]
          BY <1>0, <4>1 DEF Forest
        <5>. QED  BY <5>1, <5>2, <5>3
      <4>5. \A k \in above[d] \cap Subtree(l) \cap DisplayLists : k \in needs_paint
        BY <2>1, <3>1, <4>2, <4>4
      <4>6. l \in above[d]
        BY <3>1, <4>1, <4>2
      <4>. QED  BY <2>1, <4>2, <4>3, <4>5, <4>6 DEF Recorded
    <3>3. Heard(p) => Heard(parent[d])'
      BY <1>1, <1>r, <3>1, <3>2
    <3>. QED  BY <2>3, <3>3
  <2>. QED  BY <1>1, <1>3, <2>1, <2>2, <2>3 DEF PaintAwaited
<1>. QED  BY <1>10, <1>11

LEMMA PaintNext ==
    ASSUME FlushInv, MarksInv', PaintWaits, [Next]_vars
    PROVE  PaintWaits'
<1>0. MarksInv /\ InTree /\ TypeOK /\ Forest /\ TypeOK'
  BY DEF FlushInv, MeasureInv, RootsInv, MarksInv
<1>s. ASSUME UNCHANGED <<parent, above, needs_layout, needs_paint, nodes_needing_paint, unseen, liberties>>,
             passed_over \subseteq passed_over'
      PROVE  PaintWaits'
  <2>1. \A n \in Nodes : Heard(n) => Heard(n)'
    BY <1>s, MoreDirty
  <2>. QED  BY <1>0, <1>s, <2>1, PaintStays
<1>u. OrderlyInside => LooksAwaited /\ PaintAwaited
  BY DEF PaintWaits
<1>1. ASSUME BeginFrame PROVE PaintWaits'
  BY <1>1, <1>s DEF BeginFrame, tree, history
<1>2. ASSUME NEW n \in Nodes, LayoutWithoutResize(n) PROVE PaintWaits'
  BY <1>2, <1>s DEF LayoutWithoutResize, tree, marks
<1>3. ASSUME NEW c \in Nodes, NEW is_boundary \in BOOLEAN, NEW same_constraints \in BOOLEAN,
             Layout(c, is_boundary, same_constraints)
      PROVE  PaintWaits'
  BY <1>3, <1>s DEF Layout, tree, marks, history
<1>4. ASSUME FinishLayout PROVE PaintWaits'
  <2>1. /\ laying # <<>> /\ needs_layout' = needs_layout \ {Top.node}
        /\ unseen' = unseen \cup {Top.node}
        /\ MarkNeedsPaint(Top.node, frame_scheduled)
        /\ UNCHANGED <<parent, above, passed_over, liberties>>
    BY <1>4 DEF FinishLayout, tree, history
  <2>2. PICK t \in Nodes : t = Top.node /\ t \in attached
    BY <1>0, <2>1, TopLays DEF InTree
  <2>3. PICK scheduled : scheduled = frame_scheduled
    OBVIOUS
  <2>4. MarkNeedsPaint(t, scheduled) /\ unseen' = unseen \cup {t} /\ needs_layout \ {t} \subseteq needs_layout'
    BY <2>1, <2>2, <2>3
  <2>5. SUFFICES ASSUME OrderlyInside PROVE LooksAwaited' /\ PaintAwaited'
    BY <2>1 DEF PaintWaits, OrderlyInside
  <2>6. LooksAwaited /\ PaintAwaited
    BY <1>u, <2>5
  <2>. QED  BY <1>0, <2>1, <2>2, <2>4, <2>6, PaintMarks
<1>5. ASSUME ThrowInLayout PROVE PaintWaits'
  BY <1>5 DEF ThrowInLayout, history, PaintWaits, OrderlyInside, Throws, BuildsInLayout
<1>6. ASSUME FlushPaint PROVE PaintWaits'
  BY <1>0, <1>6, PaintFlush
<1>7. ASSUME NEW n \in Nodes, NEW c \in Nodes, AdoptChild(n, c) PROVE PaintWaits'
  BY <1>0, <1>7, PaintAdoptChild
<1>8. ASSUME NEW n \in Nodes, NEW c \in Nodes, DropChild(n, c) PROVE PaintWaits'
  BY <1>0, <1>8, PaintDropChild
<1>9. ASSUME NEW n \in Nodes, ChangeLayout(n) PROVE PaintWaits'
  <2>1. /\ MarkNeedsLayoutWith(n, needs_layout)
        /\ UNCHANGED <<parent, above, needs_paint, nodes_needing_paint, unseen, passed_over, liberties>>
    BY <1>9 DEF ChangeLayout, tree, history
  <2>2. needs_layout \in SUBSET Nodes
    BY <1>0 DEF TypeOK
  <2>3. needs_layout \subseteq needs_layout'
    BY <1>0, <2>1, <2>2, LayoutMarked
  <2>4. \A m \in Nodes : Heard(m) => Heard(m)'
    BY <2>1, <2>3, MoreDirty
  <2>. QED  BY <1>0, <2>1, <2>4, PaintStays
<1>10. ASSUME NEW n \in Nodes, ChangeLooks(n) PROVE PaintWaits'
  <2>1. /\ n \notin attached => ChangesOutside \in liberties
        /\ unseen' = unseen \cup {n}
        /\ MarkNeedsPaint(n, frame_scheduled)
        /\ UNCHANGED <<parent, above, needs_layout, passed_over, liberties>>
    BY <1>10 DEF ChangeLooks, tree, history
  <2>2. SUFFICES ASSUME OrderlyInside PROVE LooksAwaited' /\ PaintAwaited'
    BY <2>1 DEF PaintWaits, OrderlyInside
  <2>3. n \in attached
    BY <2>1, <2>2 DEF OrderlyInside, ChangesOutside, BuildsInLayout
  <2>4. LooksAwaited /\ PaintAwaited
    BY <1>u, <2>2
  <2>5. PICK scheduled : scheduled = frame_scheduled
    OBVIOUS
  <2>6. MarkNeedsPaint(n, scheduled) /\ needs_layout \ {n} \subseteq needs_layout'
    BY <2>1, <2>5
  <2>. QED  BY <1>0, <2>1, <2>3, <2>4, <2>6, PaintMarks
<1>11. CASE UNCHANGED vars
  BY <1>11, <1>s DEF vars, tree, marks, history
<1>. QED
  BY <1>1, <1>2, <1>3, <1>4, <1>5, <1>6, <1>7, <1>8, <1>9, <1>10, <1>11 DEF Next, Frame

LEMMA PaintInit == Init => PaintWaits
<1> SUFFICES ASSUME Init PROVE LooksAwaited /\ PaintAwaited
  BY DEF PaintWaits
<1>1. TypeOK /\ Forest /\ WaysUp
  BY TypeInit, MarksInit, WaysGoUp DEF MarksInv
<1>2. needs_paint = Nodes
  BY DEF Init
<1>3. \A n \in Nodes : Heard(n)
  BY <1>2, TreeAssumption DEF Heard, Told, Tells
<1>4. LooksAwaited
  BY <1>1, <1>3 DEF LooksAwaited, TypeOK
<1>5. PaintAwaited
  BY DEF Init, PaintAwaited
<1>. QED  BY <1>4, <1>5

(***************************************************************************)
(* For every tree and program: when no frame is to come, what is in the    *)
(* tree is laid out and its present looks are in the picture.  A change    *)
(* asks for a frame only with the first mark of a node; what asks for none *)
(* has a dirty way up to a node that was listed, or is painted on a        *)
(* display list that was marked, or that a layout to come will mark.       *)
(***************************************************************************)
THEOREM NothingIsForgotten == Spec => []NothingLeftBehind
<1> DEFINE Inv == FlushInv /\ PaintWaits
<1>1. Init => Inv
  BY MeasureInit, InTreeInit, WaitsInit, PaintInit DEF FlushInv
<1>2. Inv /\ [Next]_vars => Inv'
  <2> SUFFICES ASSUME Inv, [Next]_vars PROVE Inv'
    OBVIOUS
  <2>1. FlushInv'
    BY MeasureNext, InTreeNext, WaitsNext DEF FlushInv, MeasureInv, RootsInv
  <2>2. MarksInv'
    BY <2>1 DEF FlushInv, MeasureInv, RootsInv
  <2>. QED  BY <2>1, <2>2, PaintNext
<1>3. Inv => NothingLeftBehind
  <2> SUFFICES ASSUME FlushInv, PaintWaits, OrderlyInside, ~in_frame, ~frame_scheduled
               PROVE  attached \cap (needs_layout \cup unseen) = {}
    BY DEF NothingLeftBehind, OrderlyInside
  <2>0. Orderly
    BY DEF OrderlyInside, Orderly
  <2>1. /\ TypeOK /\ Forest /\ ViewOnTop /\ InTree /\ ClimbsEnd /\ FrameAsked /\ NeverBack
        /\ LooksAwaited /\ PaintAwaited /\ WaysUp
    BY <2>0, WaysGoUp DEF FlushInv, MeasureInv, RootsInv, MarksInv, InTree, LayoutWaits, PaintWaits
  <2>2. /\ laying = <<>> /\ dirty_nodes = {}
        /\ nodes_needing_layout = {} /\ nodes_needing_paint = {}
    BY <2>1 DEF InTree, FrameAsked
  <2>3. attached \cap needs_layout = {}
    BY <2>0, <2>2, NobodyWaits
  <2>4. ASSUME NEW n \in attached, Heard(n)
        PROVE  \E k \in above[n] : k \in attached \cap DisplayLists \cap needs_paint
    <3>1. n \in Nodes /\ Way(n) \cap DisplayLists # {}
      BY <2>1, OnTheWay DEF TypeOK
    <3>2. PICK k \in Way(n) : Tells(k)
      BY <2>4, <3>1 DEF Heard, Told
    <3>3. k \in attached /\ k \in above[n]
      <4>1. k \in above[n] /\ k \in Nodes /\ Root \in above[n]
        BY <2>1, <3>1 DEF WaysUp, InTree
      <4>2. k \in above[Root] \/ Root \in above[k]
        BY <2>1, <3>1, <4>1 DEF Forest
      <4>3. above[Root] = {Root} /\ Root \in attached
        BY <2>1, TreeAssumption DEF ViewOnTop, Forest, InTree
      <4>. QED  BY <2>1, <4>1, <4>2, <4>3 DEF InTree
    <3>. QED  BY <2>3, <3>2, <3>3 DEF Tells
  <2> DEFINE T == attached \cap DisplayLists \cap needs_paint
  <2>5. ASSUME NEW d \in T PROVE \E k \in T : k \in above[d] /\ k # d
    <3>1. d \in Nodes /\ d \notin passed_over /\ ~(parent[d] = None /\ d # Root)
      BY <2>1 DEF TypeOK, NeverBack, ViewOnTop
    <3>2. parent[d] # None /\ Heard(parent[d])
      BY <2>1, <2>2, <3>1 DEF PaintAwaited
    <3>3. /\ parent[d] \in Nodes /\ above[d] = {d} \cup above[parent[d]]
          /\ d \notin above[parent[d]]
      BY <2>1, <3>1, <3>2 DEF Forest, TypeOK
    <3>4. parent[d] \in attached
      <4>1. Root \in above[d] /\ d # Root
        BY <2>1, <3>1, <3>2 DEF InTree, ViewOnTop
      <4>. QED  BY <2>1, <3>3, <4>1 DEF InTree
    <3>5. \E k \in above[parent[d]] : k \in attached \cap DisplayLists \cap needs_paint
      BY <2>4, <3>2, <3>4
    <3>. QED  BY <3>3, <3>5
  <2>6. T \in SUBSET Nodes
    BY <2>1 DEF TypeOK
  <2> HIDE DEF T
  <2>7. T = {}
    BY <2>1, <2>5, <2>6, NobodyOnTop
  <2>8. ASSUME NEW n \in attached, n \in unseen PROVE FALSE
    <3>1. Heard(n)
      BY <2>1, <2>8 DEF LooksAwaited
    <3>. QED  BY <2>4, <2>7, <3>1 DEF T
  <2>. QED  BY <2>3, <2>8
<1>. QED  BY <1>1, <1>2, <1>3, PTL DEF Spec
=============================================================================
