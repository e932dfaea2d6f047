------------------------------ MODULE WidgetSync ------------------------------
(***************************************************************************)
(* sky/sdk/lib/widgets/widget.dart: how the children of a widget take the  *)
(* place of those it had before (MultiChildRenderObjectWrapper), and what  *)
(* becomes of the list of render objects below it                          *)
(* (ContainerRenderObjectMixin in rendering/object.dart).                  *)
(*                                                                         *)
(* A child has a render object, its root, and a slot: the render object it *)
(* would insert another root before.  Indices count from 1, and the linked *)
(* list of siblings is a sequence.  An assertion that fails ends it all.   *)
(***************************************************************************)
EXTENDS Integers, SequencesExt

CONSTANTS
    Widgets,        \* the widgets to choose children from: their types and keys
    NoKey,
    MaxChildren,
    MaxSyncs,       \* how often the widget is synced
    MaxRebuilds,    \* how often a component rebuilds by itself
    Programs        \* the liberties programs take

KeysChangeType == "gives a key to a widget of another type than the one that had it"
RootsChange == "replaces the root of a component when it is synced"
RebuildsAlone == "replaces the root of a component when it rebuilds by itself"
AllLiberties == {KeysChangeType, RootsChange, RebuildsAlone}

ASSUME SyncAssumption == /\ MaxChildren \in Nat
                         /\ MaxSyncs \in Nat /\ MaxRebuilds \in Nat
                         /\ Programs \subseteq SUBSET AllLiberties
                         /\ \A w \in Widgets : DOMAIN w = {"type", "key"}

VARIABLES
    children,       \* the widget's children, with their roots and slots
    siblings,       \* the render objects below its root
    old_children,
    start_index,    \* children in start_index..end_index are not synced yet
    end_index,
    old_start_index,
    old_end_index,
    next_sibling,
    reordered,      \* keys of old children taken out of their order
    stage,
    syncs,          \* number of lists given so far
    rebuilds,       \* number of components that rebuilt by themselves so far
    failed,         \* an assertion has failed
    program         \* the liberties the program takes

indices == <<start_index, end_index, old_start_index, old_end_index, next_sibling, reordered>>
bounds == <<syncs, rebuilds>>
vars == <<children, siblings, old_children, indices, stage, bounds, failed, program>>

Null == 0
Objects == 1..(4 * MaxChildren + 1)

(* Mistake: children of a type are matched by their position, whatever their keys. *)
MatchesType(w, v) == w.type = v.type

Matches(w, v) == w.type = v.type /\ w.key = v.key

Lists == {list \in UNION {[1..n -> Widgets] : n \in 0..MaxChildren} :
             \A i, j \in DOMAIN list : list[i].key = list[j].key => i = j \/ list[i].key = NoKey}

Init == /\ children = <<>>
        /\ siblings = <<>>
        /\ old_children = <<>>
        /\ start_index = 1 /\ end_index = 0
        /\ old_start_index = 1 /\ old_end_index = 0
        /\ next_sibling = Null
        /\ reordered = {}
        /\ stage = "idle"
        /\ syncs = 0 /\ rebuilds = 0
        /\ failed = FALSE
        /\ program \in Programs

-----------------------------------------------------------------------------
(* The list of render objects *)

Position(list, o) == CHOOSE i \in DOMAIN list : list[i] = o

Without(list, o) == RemoveFirst(list, o)

(* _addToChildList: before a sibling, or at the end. *)
Before(list, o, sibling) ==
    IF sibling = Null THEN Append(list, o)
    ELSE LET n == Position(list, sibling)
         IN  SubSeq(list, 1, n - 1) \o <<o>> \o SubSeq(list, n, Len(list))

(* An object that createNode has not returned before, as far as anybody remembers. *)
Remembered == {siblings[i] : i \in DOMAIN siblings}
              \cup {old_children[i].root : i \in DOMAIN old_children}
              \cup UNION {{children[i].root, children[i].slot} : i \in DOMAIN children}

NewObject == CHOOSE o \in Objects \ Remembered : \A p \in Objects \ Remembered : o <= p

Fail == /\ failed' = TRUE
        /\ stage' = "failed"
        /\ UNCHANGED <<children, siblings, old_children, indices, syncs, program>>

(***************************************************************************)
(* sync(at): the child takes the root of the old one if it may, or gets a  *)
(* new one, which is inserted before next_sibling; the child in front of   *)
(* it learns the root.  list is what the siblings are meanwhile.           *)
(***************************************************************************)
Sync(at, old, list, next) ==
    \E replaced \in BOOLEAN :
        /\ replaced => old # Null /\ RootsChange \in program
        /\ LET kept == /\ old # Null
                       /\ Matches(children[at], old_children[old])
                       /\ ~replaced
               left == IF old = Null THEN list ELSE Without(list, old_children[old].root)
               root == IF kept THEN old_children[old].root ELSE NewObject
           IN  /\ kept \/ next = Null \/ Contains(left, next)
               /\ siblings' = IF kept THEN list ELSE Before(left, root, next)
               /\ children' = [i \in DOMAIN children |->
                     IF i = at THEN [children[i] EXCEPT !.root = root, !.slot = next]
                     ELSE IF i = at - 1 THEN [children[i] EXCEPT !.slot = root]
                     ELSE children[i]]

-----------------------------------------------------------------------------

(* syncRenderObject, with the children of a new widget. *)
StartSync(list) ==
    /\ stage = "idle"
    /\ syncs < MaxSyncs
    /\ KeysChangeType \in program \/
           \A i \in DOMAIN list, j \in DOMAIN children :
               list[i].key = children[j].key /\ list[i].key # NoKey
                   => list[i].type = children[j].type
    /\ syncs' = syncs + 1
    /\ old_children' = children
    /\ children' = [i \in DOMAIN list |->
                       [type |-> list[i].type, key |-> list[i].key,
                        root |-> Null, slot |-> Null]]
    /\ start_index' = 1 /\ end_index' = Len(list)
    /\ old_start_index' = 1 /\ old_end_index' = Len(children)
    /\ next_sibling' = Null
    /\ reordered' = {}
    /\ stage' = "backward"
    /\ UNCHANGED <<siblings, rebuilds, failed, program>>

BothLeft == start_index <= end_index /\ old_start_index <= old_end_index

(* Scan backwards while nodes can be synced without reordering. *)
ScanBackward ==
    /\ stage = "backward"
    /\ BothLeft
    /\ Matches(children[end_index], old_children[old_end_index])
    /\ Sync(end_index, old_end_index, siblings, next_sibling)
    /\ next_sibling' = children'[end_index].root
    /\ end_index' = end_index - 1
    /\ old_end_index' = old_end_index - 1
    /\ UNCHANGED <<old_children, start_index, old_start_index, reordered, stage, bounds, failed,
                   program>>

(* The backward scan stops; nextSibling = root.firstChild. *)
TurnAround ==
    /\ stage = "backward"
    /\ BothLeft => ~Matches(children[end_index], old_children[old_end_index])
    /\ next_sibling' = IF siblings = <<>> THEN Null ELSE Head(siblings)
    /\ stage' = "forward"
    /\ UNCHANGED <<children, siblings, old_children, start_index, end_index, old_start_index,
                   old_end_index, reordered, bounds, failed, program>>

(* Mistake: an old child that was taken out of order is met again. *)
AdvanceOldStartByOne(taken) == old_start_index + 1

(* advanceOldStartIndex: past the next old child and those that were taken out of order. *)
AdvanceOldStart(taken) ==
    CHOOSE n \in (old_start_index + 1)..(old_end_index + 1) :
        /\ n <= old_end_index => old_children[n].key \notin taken
        /\ \A i \in (old_start_index + 1)..(n - 1) : old_children[i].key \in taken

ChildAfter(o) == LET n == Position(siblings, o)
                 IN  IF n = Len(siblings) THEN Null ELSE siblings[n + 1]

(* Scan forwards: the next old child is the one to sync with. *)
ScanForward ==
    /\ stage = "forward"
    /\ BothLeft
    /\ Matches(children[start_index], old_children[old_start_index])
    /\ next_sibling' = ChildAfter(next_sibling)
    /\ Sync(start_index, old_start_index, siblings, next_sibling')
    /\ start_index' = start_index + 1
    /\ old_start_index' = AdvanceOldStart(reordered)
    /\ UNCHANGED <<old_children, end_index, old_end_index, reordered, stage, bounds, failed,
                   program>>

(* searchForOldNode: by key only. *)
Found(w) == {n \in 1..old_end_index : /\ w.key # NoKey
                                      /\ old_children[n].key = w.key
                                      /\ w.key \notin reordered}

(* Scan forwards: an old child with the same key is moved here, or there is none. *)
Reorder ==
    /\ stage = "forward"
    /\ BothLeft
    /\ ~Matches(children[start_index], old_children[old_start_index])
    /\ \/ /\ Found(children[start_index]) = {}
          /\ Sync(start_index, Null, siblings, next_sibling)
          /\ UNCHANGED reordered
       \/ \E n \in Found(children[start_index]) :
              LET moved == old_children[n].root
              IN  /\ moved # next_sibling
                  /\ Sync(start_index, n, Before(Without(siblings, moved), moved, next_sibling),
                          next_sibling)
                  /\ reordered' = reordered \cup {children[start_index].key}
    /\ start_index' = start_index + 1
    /\ UNCHANGED <<old_children, end_index, old_start_index, old_end_index, next_sibling, stage,
                   bounds, failed, program>>

(* move asserts that a child is not moved before itself (assert(child != before)). *)
MoveFails ==
    /\ stage = "forward"
    /\ BothLeft
    /\ ~Matches(children[start_index], old_children[old_start_index])
    /\ \E n \in Found(children[start_index]) : old_children[n].root = next_sibling
    /\ Fail
    /\ UNCHANGED rebuilds

(* New insertions. *)
Insert ==
    /\ stage = "forward"
    /\ start_index <= end_index
    /\ old_start_index > old_end_index
    /\ Sync(start_index, Null, siblings, next_sibling)
    /\ start_index' = start_index + 1
    /\ UNCHANGED <<old_children, end_index, old_start_index, old_end_index, next_sibling,
                   reordered, stage, bounds, failed, program>>

(* Removals. *)
Removals ==
    /\ stage = "forward"
    /\ start_index > end_index
    /\ old_start_index <= old_end_index
    /\ siblings' = Without(siblings, old_children[old_start_index].root)
    /\ old_start_index' = AdvanceOldStart(reordered)
    /\ UNCHANGED <<children, old_children, start_index, end_index, old_end_index, next_sibling,
                   reordered, stage, bounds, failed, program>>

EndSync ==
    /\ stage = "forward"
    /\ start_index > end_index
    /\ old_start_index > old_end_index
    /\ stage' = "idle"
    /\ UNCHANGED <<children, siblings, old_children, indices, bounds, failed, program>>

(***************************************************************************)
(* Component._buildIfDirty: a child that is a component rebuilds by itself *)
(* and its root is of another kind now, to be inserted before its slot.    *)
(***************************************************************************)
Rebuild(at) ==
    /\ stage = "idle"
    /\ RebuildsAlone \in program
    /\ rebuilds < MaxRebuilds
    /\ rebuilds' = rebuilds + 1
    /\ LET left == Without(siblings, children[at].root)
       IN  IF children[at].slot = Null \/ Contains(left, children[at].slot)
           THEN /\ siblings' = Before(left, NewObject, children[at].slot)
                /\ children' = [children EXCEPT ![at].root = NewObject]
                /\ UNCHANGED <<old_children, indices, stage, syncs, failed, program>>
           ELSE Fail

Next == \/ \E list \in Lists : StartSync(list)
        \/ ScanBackward \/ TurnAround \/ ScanForward \/ Reorder \/ MoveFails
        \/ Insert \/ Removals \/ EndSync
        \/ \E at \in DOMAIN children : Rebuild(at)

Spec == Init /\ [][Next]_vars

-----------------------------------------------------------------------------

(***************************************************************************)
(* When a sync has ended the render objects are those of the children, in  *)
(* their order, whatever was reordered, replaced, inserted and removed.    *)
(***************************************************************************)
ChildrenInOrder ==
    stage = "idle" => siblings = [i \in DOMAIN children |-> children[i].root]

(***************************************************************************)
(* A child that keeps its key and its type keeps its render object,        *)
(* wherever it goes ("Keys are used to find matches").                     *)
(***************************************************************************)
NodesAreReused ==
    stage = "idle" /\ program \subseteq {KeysChangeType} =>
        \A i \in DOMAIN children, j \in DOMAIN old_children :
            (/\ children[i].key = old_children[j].key
             /\ children[i].type = old_children[j].type
             /\ children[i].key # NoKey)
                => children[i].root = old_children[j].root

(***************************************************************************)
(* The slot of a child is a render object that it may be inserted before   *)
(* ("slots are RenderObject nodes to use as the insert before sibling",    *)
(* widget.dart:963): the assertions of _addToChildList hold.               *)
(***************************************************************************)
SlotsAreSiblings == ~failed
=============================================================================
