------------------------------ MODULE RenderTree ------------------------------
(***************************************************************************)
(* sky/sdk/lib/rendering/object.dart and base/node.dart: the tree of       *)
(* render objects and what a frame lays out and paints of it.              *)
(*                                                                         *)
(* A layout that does not read the size of a child makes the child a       *)
(* relayout boundary.  A mark climbs to the next boundary, which waits in  *)
(* a list; a node with a display list of its own is where marks for        *)
(* painting stop.  Everything runs on one thread, but a layout calls back  *)
(* into the program (invokeLayoutCallback), which may change the subtree.  *)
(*                                                                         *)
(* The lists are sets and a flush takes them in any order: the code sorts  *)
(* them by depth, which saves work and decides nothing else.               *)
(***************************************************************************)
EXTENDS Integers, Sequences

CONSTANTS
    Nodes,
    Root,           \* the RenderView
    DisplayLists,   \* nodes whose createNewDisplayList is true
    None,
    Programs,       \* the liberties programs take
    Spare           \* nodes that only programs without liberties use

ASSUME TreeAssumption == /\ Root \in DisplayLists
                         /\ DisplayLists \subseteq Nodes
                         /\ None \notin Nodes
                         /\ Spare \subseteq Nodes

KeepsSubtrees == "puts a subtree back of which a frame passed over a dirty node"
ChangesOutside == "changes the looks of nodes that are out of the tree"
BuildsInLayout == "changes the tree from a layout callback"
Throws == "throws from a layout or a paint"

(* What some programs do besides changing their tree between frames. *)
AllLiberties == {KeepsSubtrees, ChangesOutside, BuildsInLayout, Throws}

ASSUME ProgramAssumption == Programs \subseteq SUBSET AllLiberties

VARIABLES
    parent,
    attached,
    above,                  \* the node and its ancestors
    relayout_root,          \* _relayoutSubtreeRoot
    needs_layout,
    nodes_needing_layout,
    needs_paint,
    nodes_needing_paint,
    frame_scheduled,        \* ensureVisualUpdate was called since the last frame began
    in_frame,
    dirty_nodes,            \* of flushLayout, not visited yet
    laying,                 \* nodes whose performLayout runs, with the children they laid out
    measured,               \* nodes whose size their parent read when it laid them out
    unseen,                 \* nodes whose present looks are not in the picture
    passed_over,            \* dirty nodes a flush met out of the tree and did not flush
    liberties

tree == <<parent, attached, above>>
marks == <<needs_layout, nodes_needing_layout, needs_paint, nodes_needing_paint,
           frame_scheduled>>
history == <<passed_over, liberties>>
layout == <<relayout_root, measured>>
vars == <<tree, layout, marks, in_frame, dirty_nodes, laying, unseen, history>>

-----------------------------------------------------------------------------

Subtree(n) == {m \in Nodes : n \in above[m]}

(* The nodes a call made on n and passed on to parents reaches, if it stops at Stop. *)
Climb(n, Stop) == {m \in above[n] : \A k \in above[n] \cap Stop :
                       m \in above[k] => m = k}

(***************************************************************************)
(* markNeedsLayout of n, when the nodes in dirty need layout already: a    *)
(* dirty node returns at once, a boundary is listed and goes no further.   *)
(***************************************************************************)
Boundaries == {m \in Nodes : relayout_root[m] = m}

(* Mistake: a boundary is listed, but nobody is told that there is something to flush. *)
MarkNeedsLayoutUnasked(n, dirty) ==
    LET marked == Climb(n, dirty \cup Boundaries) \ dirty
    IN  /\ needs_layout' = dirty \cup marked
        /\ nodes_needing_layout' = nodes_needing_layout \cup (marked \cap Boundaries)
        /\ UNCHANGED frame_scheduled

MarkNeedsLayoutWith(n, dirty) ==
    LET marked == Climb(n, dirty \cup Boundaries) \ dirty
    IN  /\ needs_layout' = dirty \cup marked
        /\ nodes_needing_layout' = nodes_needing_layout \cup (marked \cap Boundaries)
        /\ frame_scheduled' = (frame_scheduled \/ marked \cap Boundaries # {})

(* markNeedsPaint, which marks only nodes that have a display list. *)
MarkNeedsPaint(n, scheduled) ==
    LET reached == IF n \in attached THEN Climb(n, needs_paint \cup DisplayLists) ELSE {}
        marked == (reached \cap DisplayLists) \ needs_paint
    IN  /\ needs_paint' = needs_paint \cup marked
        /\ nodes_needing_paint' = nodes_needing_paint \cup marked
        /\ frame_scheduled' = (scheduled \/ marked # {})

(* SkyBinding: a RenderView, attached, with scheduleInitialLayout. *)
Init == /\ parent = [n \in Nodes |-> None]
        /\ attached = {Root}
        /\ above = [n \in Nodes |-> {n}]
        /\ relayout_root = [n \in Nodes |-> IF n = Root THEN Root ELSE None]
        /\ measured = {}
        /\ needs_layout = Nodes
        /\ nodes_needing_layout = {Root}
        /\ needs_paint = Nodes
        /\ nodes_needing_paint = {Root}
        /\ frame_scheduled = TRUE
        /\ in_frame = FALSE
        /\ dirty_nodes = {}
        /\ laying = <<>>
        /\ unseen = Nodes
        /\ passed_over = {}
        /\ liberties \in Programs

-----------------------------------------------------------------------------
(* What a program does to its tree *)

Top == laying[Len(laying)]

(* debugCanPerformMutations: between flushes, or from a layout callback below its node. *)
CanMutate(n) ==
    \/ ~in_frame
    \/ /\ BuildsInLayout \in liberties
       /\ laying # <<>>
       /\ Top.laid_out = {}
       /\ n \in Subtree(Top.node)

(* adoptChild, and node.dart's attach of the whole subtree. *)
AdoptChild(n, child) ==
    /\ CanMutate(n)
    /\ parent[child] = None
    /\ child # Root
    /\ child \in Spare => liberties = {}
    /\ n \notin Subtree(child)
    /\ Subtree(child) \cap passed_over # {} => KeepsSubtrees \in liberties
    /\ parent' = [parent EXCEPT ![child] = n]
    /\ attached' = IF n \in attached THEN attached \cup Subtree(child) ELSE attached
    /\ above' = [m \in Nodes |-> IF m \in Subtree(child) THEN above[m] \cup above[n]
                                 ELSE above[m]]
    /\ MarkNeedsLayoutWith(n, needs_layout)
    /\ UNCHANGED <<layout, needs_paint, nodes_needing_paint, in_frame, dirty_nodes,
                   laying, unseen, history>>

(* Mistake: no node forgets the root it is laid out for. *)
CleanedNothing(child) == {}

(* Mistake: the subtree below the child is left out. *)
CleanedChildOnly(child) == {child} \ Boundaries

(* _cleanRelayoutSubtreeRoot: down to the boundaries of the subtree, which keep their root. *)
Cleaned(child) == {m \in Subtree(child) : above[m] \cap Subtree(child) \cap Boundaries = {}}

(* dropChild. *)
DropChild(n, child) ==
    /\ CanMutate(n)
    /\ parent[child] = n
    /\ relayout_root' = [m \in Nodes |-> IF m \in Cleaned(child) THEN None
                                         ELSE relayout_root[m]]
    /\ measured' = measured \ {child}
    /\ parent' = [parent EXCEPT ![child] = None]
    /\ attached' = attached \ Subtree(child)
    /\ above' = [m \in Nodes |-> IF m \in Subtree(child) THEN above[m] \ above[n]
                                 ELSE above[m]]
    /\ MarkNeedsLayoutWith(n, needs_layout \cup Cleaned(child))
    /\ UNCHANGED <<needs_paint, nodes_needing_paint, in_frame, dirty_nodes, laying, unseen,
                   history>>

(* A property that a node lays out by changes. *)
ChangeLayout(n) ==
    /\ CanMutate(n)
    /\ n \notin needs_layout
    /\ MarkNeedsLayoutWith(n, needs_layout)
    /\ UNCHANGED <<tree, layout, needs_paint, nodes_needing_paint, in_frame,
                   dirty_nodes, laying, unseen, history>>

(* A property that a node only paints by changes. *)
ChangeLooks(n) ==
    /\ ~in_frame
    /\ n \notin attached => ChangesOutside \in liberties
    /\ unseen' = unseen \cup {n}
    /\ MarkNeedsPaint(n, frame_scheduled)
    /\ UNCHANGED <<tree, layout, needs_layout, nodes_needing_layout, in_frame,
                   dirty_nodes, laying, history>>

-----------------------------------------------------------------------------
(* The frame: SkyBinding._beginFrame *)

(* flushLayout takes the list.  A frame may begin for other reasons than this tree's. *)
BeginFrame ==
    /\ ~in_frame
    /\ in_frame' = TRUE
    /\ frame_scheduled' = FALSE
    /\ dirty_nodes' = nodes_needing_layout
    /\ nodes_needing_layout' = {}
    /\ UNCHANGED <<tree, layout, needs_layout, needs_paint, nodes_needing_paint, laying,
                   unseen, history>>

(* Mistake: a boundary is laid out without its children. *)
PerformLayoutAlone(n) == laying' = Append(laying, [node |-> n, laid_out |-> Nodes])

PerformLayout(n) == laying' = Append(laying, [node |-> n, laid_out |-> {}])

(* flushLayout visits a node: layoutWithoutResize, if it is still dirty and in the tree. *)
LayoutWithoutResize(n) ==
    /\ in_frame
    /\ laying = <<>>
    /\ n \in dirty_nodes
    /\ dirty_nodes' = dirty_nodes \ {n}
    /\ IF n \in needs_layout \cap attached THEN PerformLayout(n) ELSE UNCHANGED laying
    /\ passed_over' = passed_over \cup ({n} \cap (needs_layout \ attached))
    /\ UNCHANGED <<tree, layout, marks, in_frame, unseen, liberties>>

(* Mistake: the old root is not compared. *)
IsLaidOutAs(child, root, same_constraints) ==
    child \notin needs_layout /\ same_constraints

(* The early return of layout. *)
IsLaidOut(child, root, same_constraints) ==
    child \notin needs_layout /\ same_constraints /\ root = relayout_root[child]

(* performLayout calls layout on a child, with new or the same constraints. *)
Layout(child, is_boundary, same_constraints) ==
    /\ laying # <<>>
    /\ parent[child] = Top.node
    /\ child \notin Top.laid_out
    /\ LET root == IF is_boundary THEN child ELSE relayout_root[Top.node]
           visited == [laying EXCEPT ![Len(laying)].laid_out = @ \cup {child}]
       IN  IF IsLaidOut(child, root, same_constraints)
           THEN /\ laying' = visited
                /\ UNCHANGED relayout_root
           ELSE /\ laying' = Append(visited, [node |-> child, laid_out |-> {}])
                /\ relayout_root' = [relayout_root EXCEPT ![child] = root]
    /\ measured' = IF is_boundary THEN measured \ {child} ELSE measured \cup {child}
    /\ UNCHANGED <<tree, marks, in_frame, dirty_nodes, unseen, history>>

(* A node has laid out its children: the end of layout and of layoutWithoutResize. *)
FinishLayout ==
    /\ laying # <<>>
    /\ \A c \in Nodes : parent[c] = Top.node => c \in Top.laid_out
    /\ laying' = SubSeq(laying, 1, Len(laying) - 1)
    /\ needs_layout' = needs_layout \ {Top.node}
    /\ unseen' = unseen \cup {Top.node}
    /\ MarkNeedsPaint(Top.node, frame_scheduled)
    /\ UNCHANGED <<tree, layout, nodes_needing_layout, in_frame, dirty_nodes, history>>

(* layoutWithoutResize catches what a layout throws; a debug build throws it again. *)
ThrowInLayout ==
    /\ Throws \in liberties
    /\ laying # <<>>
    /\ laying' = <<>>
    /\ \/ UNCHANGED <<in_frame, dirty_nodes>>
       \/ in_frame' = FALSE /\ dirty_nodes' = {}
    /\ UNCHANGED <<tree, layout, marks, unseen, history>>

(* The node on whose display list n is painted. *)
Owner(n) == CHOOSE d \in Climb(n, DisplayLists) : d \in DisplayLists

(* Nodes whose display list flushPaint records: listed, or dirty and met while recording. *)
Recorded ==
    {d \in attached \cap needs_paint \cap DisplayLists :
        \E listed \in above[d] \cap nodes_needing_paint :
            \A k \in above[d] \cap Subtree(listed) \cap DisplayLists : k \in needs_paint}

(* d is listed, or is met when one of lists is recorded. *)
IsMet(d, lists) ==
    \E listed \in above[d] \cap nodes_needing_paint :
        above[d] \cap Subtree(listed) \cap DisplayLists \subseteq lists \cup {d}

PaintedOn(lists) == {n \in attached : Owner(n) \in lists}

(***************************************************************************)
(* flushPaint.  A display list in whose recording a paint throws keeps its *)
(* old looks and meets no others, though some nodes on it have been        *)
(* visited; a debug build throws again, and the rest of the nodes listed   *)
(* are not recorded either.                                                *)
(***************************************************************************)
FlushPaint ==
    /\ in_frame
    /\ laying = <<>>
    /\ dirty_nodes = {}
    /\ in_frame' = FALSE
    /\ nodes_needing_paint' = {}
    /\ \E recorded \in SUBSET Recorded : \E failed \in SUBSET recorded :
           /\ failed # {} => Throws \in liberties
           /\ recorded # Recorded => failed # {}
           /\ \A d \in recorded : IsMet(d, recorded \ failed)
           /\ unseen' = unseen \ PaintedOn(recorded \ failed)
           /\ \E visited \in SUBSET PaintedOn(failed) :
                  needs_paint' = needs_paint \ (recorded \cup visited
                                                 \cup PaintedOn(recorded \ failed))
    /\ passed_over' = passed_over \cup (nodes_needing_paint \ attached)
    /\ UNCHANGED <<tree, layout, needs_layout, nodes_needing_layout, frame_scheduled,
                   dirty_nodes, laying, liberties>>

Frame == \/ BeginFrame
         \/ \E n \in Nodes : LayoutWithoutResize(n)
         \/ \E c \in Nodes, is_boundary, same_constraints \in BOOLEAN :
                Layout(c, is_boundary, same_constraints)
         \/ FinishLayout
         \/ ThrowInLayout
         \/ FlushPaint

Next == \/ Frame
        \/ \E n, c \in Nodes : AdoptChild(n, c) \/ DropChild(n, c)
        \/ \E n \in Nodes : ChangeLayout(n) \/ ChangeLooks(n)

Spec == Init /\ [][Next]_vars

-----------------------------------------------------------------------------

TypeOK == /\ parent \in [Nodes -> Nodes \cup {None}]
          /\ attached \subseteq Nodes
          /\ above \in [Nodes -> SUBSET Nodes]
          /\ relayout_root \in [Nodes -> Nodes \cup {None}]
          /\ needs_layout \subseteq Nodes
          /\ nodes_needing_layout \subseteq Nodes
          /\ needs_paint \subseteq Nodes
          /\ nodes_needing_paint \subseteq DisplayLists
          /\ frame_scheduled \in BOOLEAN
          /\ in_frame \in BOOLEAN
          /\ dirty_nodes \subseteq Nodes
          /\ laying \in Seq([node : Nodes, laid_out : SUBSET Nodes])
          /\ measured \subseteq Nodes
          /\ unseen \subseteq Nodes
          /\ passed_over \subseteq Nodes
          /\ liberties \subseteq AllLiberties

(***************************************************************************)
(* markNeedsLayout of a clean node never runs off the top of a tree        *)
(* (assert(parent is RenderObject)): a clean node without a parent is its  *)
(* own boundary, whatever was dropped, thrown or called back.              *)
(***************************************************************************)
MarksStopAtBoundary ==
    \A n \in Nodes \ needs_layout : parent[n] = None => relayout_root[n] = n

(***************************************************************************)
(* A node is laid out for a boundary that is above it: no subtree takes    *)
(* a root along that it has left (asserted in                              *)
(* debugAncestorsAlreadyMarkedNeedsLayout), unless a layout throws.        *)
(***************************************************************************)
BoundariesAreAbove ==
    Throws \notin liberties =>
        \A n \in Nodes : relayout_root[n] \in above[n] \cup {None}

(***************************************************************************)
(* When no frame is to come, everything in the tree is laid out and its    *)
(* present looks are in the picture.  Only the first mark of a node asks   *)
(* for a frame, and every later one relies on it.  The liberties left out  *)
(* break this in the code as it is.                                        *)
(***************************************************************************)
NothingLeftBehind ==
    liberties \subseteq {BuildsInLayout} /\ ~in_frame /\ ~frame_scheduled =>
        attached \cap (needs_layout \cup unseen) = {}

(***************************************************************************)
(* The tree is clean when it is painted: one pass over the sorted list is  *)
(* enough (assert(!_needsLayout) in _updatePaintingCanvas).  Left out are  *)
(* programs that change the tree from a layout callback, whose marks go to *)
(* the list of the next frame; that throw from a layout, which leaves its  *)
(* node dirty; and that put back a subtree of which a flush passed over a  *)
(* dirty node, which is not listed again.  With any of these the code may  *)
(* paint dirty nodes.                                                      *)
(***************************************************************************)
PaintsCleanTree ==
    liberties \subseteq {ChangesOutside} /\ in_frame /\ laying = <<>> /\ dirty_nodes = {} =>
        attached \cap needs_layout = {}

(***************************************************************************)
(* A parent that has read the size of a child is laid out whenever the     *)
(* child is: outside of frames, its mark is never missing while the        *)
(* child has one (the relayout boundaries of rendering/README.md).         *)
(***************************************************************************)
ParentsFollow ==
    Throws \notin liberties /\ ~in_frame =>
        \A n \in measured \cap needs_layout : parent[n] \in needs_layout
=============================================================================
