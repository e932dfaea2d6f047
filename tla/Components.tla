------------------------------ MODULE Components ------------------------------
(***************************************************************************)
(* sky/sdk/lib/widgets/widget.dart: which components are built, and when.  *)
(*                                                                         *)
(* A component builds widgets, which may be components; a widget that a    *)
(* component was given and puts below itself is passed through: it stays   *)
(* as it is when that component builds.  Dirty components wait in a set    *)
(* that a microtask builds in the order of _order: how many builders a     *)
(* component has above it.  The new widget that takes the place of a       *)
(* stateless component is the same component here.                         *)
(***************************************************************************)
EXTENDS Integers, FiniteSets

CONSTANTS
    Components,
    Container       \* the AppContainer that runApp makes

ASSUME ComponentAssumption == Container \in Components /\ IsFiniteSet(Components)

VARIABLES
    mounted,
    above,              \* the components above one in the tree
    builders,           \* those it was built by: its builder, that one's builder, ...
    dirty,
    dirty_components,   \* _dirtyComponents
    sorted,             \* sortedDirtyComponents
    walked,             \* those of sorted before index
    in_render,          \* _inRenderDirtyComponents
    build_scheduled,
    built,              \* built since the microtask began
    built_twice,
    liberties           \* what the program does besides setting state between builds

tree == <<mounted, above, builders>>
pass == <<sorted, walked, in_render, build_scheduled>>
counts == <<built, built_twice>>
components_vars == <<tree, dirty, dirty_components, pass, counts, liberties>>

Notifies == "has Inherited widgets that change"
SetsState == "sets the state of other components from builds and from didMount"
Throws == "throws from a build, or fails an assertion there"
BuildLiberties == {Notifies, SetsState, Throws}

(* Mistake: a component comes after those it built. *)
OrderUpsideDown(c) == -Cardinality(builders[c])

Order(c) == Cardinality(builders[c])

Below(c) == {d \in mounted : c \in above[d]}
BuiltBy(c) == {d \in mounted : c \in builders[d]}

(* runApp: the container marks itself. *)
ComponentsInit == /\ mounted = {Container}
        /\ above = [c \in Components |-> {}]
        /\ builders = [c \in Components |-> {}]
        /\ dirty = Components
        /\ dirty_components = {Container}
        /\ sorted = {}
        /\ walked = {}
        /\ in_render = FALSE
        /\ build_scheduled = TRUE
        /\ built = {}
        /\ built_twice = FALSE
        /\ liberties \in SUBSET BuildLiberties

-----------------------------------------------------------------------------

(* Mistake: the component waits for a microtask that nobody asked for. *)
ScheduleBuildUnasked(c) ==
    /\ dirty' = dirty \cup {c}
    /\ dirty_components' = dirty_components \cup {c}
    /\ UNCHANGED build_scheduled

(* _scheduleBuild and _scheduleComponentForRender of a clean component. *)
ScheduleBuild(c) ==
    /\ dirty' = dirty \cup {c}
    /\ dirty_components' = dirty_components \cup {c}
    /\ build_scheduled' = TRUE

(* setState from an event, a timer or a frame callback. *)
SetState(c) ==
    /\ ~in_render
    /\ c \in mounted \ (dirty \cup {Container})
    /\ ScheduleBuild(c)
    /\ UNCHANGED <<tree, sorted, walked, in_render, counts, liberties>>

(* The microtask _buildDirtyComponents begins. *)
StartBuild ==
    /\ build_scheduled
    /\ ~in_render
    /\ in_render' = TRUE
    /\ sorted' = dirty_components
    /\ dirty_components' = {}
    /\ walked' = {}
    /\ built' = {}
    /\ UNCHANGED <<tree, dirty, build_scheduled, built_twice, liberties>>

(* sortedDirtyComponents[index]. *)
IsNext(c) == /\ in_render
             /\ c \in sorted \ walked
             /\ \A d \in sorted \ walked : Order(c) <= Order(d)

(* _buildIfDirty of a component that was built or removed meanwhile. *)
PassBy(c) ==
    /\ IsNext(c)
    /\ c \notin dirty \cap mounted
    /\ c # Container
    /\ walked' = walked \cup {c}
    /\ UNCHANGED <<tree, dirty, dirty_components, sorted, in_render, build_scheduled, counts,
                   liberties>>

(***************************************************************************)
(* A build that removes the components in gone may put a new one below     *)
(* itself or below a component it has built as well.  The container only   *)
(* holds the app, which was made outside of all builds.                    *)
(***************************************************************************)
Removable(c) ==
    {gone \in SUBSET Below(c) :
        \A d \in gone : Below(d) \subseteq gone}

Places(c, gone) ==
    {at \in ({c} \cup (BuiltBy(c) \ gone)) \X (({c} \cup Below(c)) \ gone) :
        LET builder == at[1]
            place == at[2]
        IN  \/ place = builder
            \/ builder \in above[place] /\ builders[place] = builders[builder] \cup {builder}}

(* Components that nothing in the present pass remembers. *)
New(gone) == Components \ (mounted \cup gone \cup sorted \cup dirty_components \cup built)

(* Mistake: the list is walked on after a build that marked others. *)
AbsorbInPlace(c, marked) ==
    /\ sorted' = sorted
    /\ walked' = walked \cup {c}
    /\ dirty_components' = dirty_components \cup marked

(* _absorbDirtyComponents after a build, if it has marked others. *)
Absorb(c, marked) ==
    /\ sorted' = sorted \cup marked
    /\ walked' = IF marked = {} THEN walked \cup {c} ELSE {}
    /\ UNCHANGED dirty_components

(***************************************************************************)
(* _buildIfDirty of a component, and _sync of all it builds.  Components   *)
(* below it that depend on an Inherited which it passes through are told.  *)
(***************************************************************************)
Build(c) ==
    /\ IsNext(c)
    /\ c \in dirty \cap mounted \/ c = Container
    /\ \E gone \in Removable(c) :
       \E fresh \in {{}} \cup {{d} : d \in New(gone)} :
       \E at \in Places(c, gone) :
           LET rebuilt == (BuiltBy(c) \ gone) \cup fresh
               may_mark == CASE SetsState \in liberties -> (mounted \cup fresh) \ {c, Container}
                             [] liberties \cap {SetsState, Notifies} = {Notifies} ->
                                    Below(c) \ BuiltBy(c)
                             [] OTHER -> {}
           IN  \E marked \in SUBSET ((may_mark \ gone) \ (dirty \ rebuilt)) :
               /\ mounted' = (mounted \ gone) \cup fresh
               /\ above' = [d \in Components |-> IF d \in fresh THEN above[at[2]] \cup {at[2]}
                                                 ELSE above[d]]
               /\ builders' = [d \in Components |->
                      IF d \in fresh /\ c # Container THEN builders[at[1]] \cup {at[1]}
                      ELSE IF d \in fresh THEN {}
                      ELSE builders[d]]
               /\ dirty' = (dirty \ ({c} \cup rebuilt)) \cup marked \cup gone
               /\ Absorb(c, marked)
               /\ built' = built \cup {c} \cup rebuilt
               /\ built_twice' = (built_twice \/ built \cap ({c} \cup rebuilt) # {})
    /\ UNCHANGED <<in_render, build_scheduled, liberties>>

(* The list is at its end; then didMount of the new components runs. *)
EndBuild ==
    /\ in_render
    /\ sorted = walked
    /\ in_render' = FALSE
    /\ sorted' = {} /\ walked' = {}
    /\ \E marked \in SUBSET (mounted \ (dirty \cup {Container})) :
           /\ marked # {} => SetsState \in liberties
           /\ dirty' = dirty \cup marked
           /\ dirty_components' = dirty_components \cup marked
           /\ build_scheduled' = (marked # {})
    /\ UNCHANGED <<tree, counts, liberties>>

(* The microtask is left by an exception: the finally of _buildDirtyComponents. *)
AbortBuild ==
    /\ Throws \in liberties
    /\ in_render
    /\ sorted # walked
    /\ in_render' = FALSE
    /\ sorted' = {} /\ walked' = {}
    /\ build_scheduled' = FALSE
    /\ UNCHANGED <<tree, dirty, dirty_components, counts, liberties>>

Microtask == StartBuild \/ EndBuild \/ \E c \in Components : PassBy(c) \/ Build(c)

ComponentsNext == Microtask \/ AbortBuild \/ \E c \in Components : SetState(c)

(* The microtask runs, and runs to its end. *)
Fairness == WF_components_vars(Microtask)

ComponentsSpec == ComponentsInit /\ [][ComponentsNext]_components_vars /\ Fairness

-----------------------------------------------------------------------------

(***************************************************************************)
(* Whatever was marked is built once, after all that builds it: setting    *)
(* state between builds never makes the microtask build a component twice. *)
(***************************************************************************)
BuiltOnce == liberties \subseteq {Throws} => ~built_twice

(***************************************************************************)
(* A mounted dirty component is where the microtask will find it, and the  *)
(* microtask will run: setState on it returns early, so nothing else would *)
(* ever build it.  Broken in the code as it is when a build throws.        *)
(***************************************************************************)
NoneForgotten ==
    Throws \notin liberties =>
        \A c \in mounted \cap dirty :
            /\ c \in dirty_components \cup (sorted \ walked)
            /\ build_scheduled

(***************************************************************************)
(* A dirty component is built or goes, even when Inherited widgets mark    *)
(* others while the list is walked.                                        *)
(***************************************************************************)
DirtyGetsBuilt ==
    \A c \in Components :
        (c \in mounted \cap dirty /\ liberties \subseteq {Notifies})
            ~> c \notin mounted \cap dirty
=============================================================================
