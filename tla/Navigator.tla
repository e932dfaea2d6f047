------------------------------- MODULE Navigator -------------------------------
(***************************************************************************)
(* sky/sdk/lib/widgets/navigator.dart: the pages a user walks through, and *)
(* their transitions.  A page is pushed on top of the current one and      *)
(* slides in; popped, it stays in the history until it has slid out.  The  *)
(* navigator is built by a microtask, so that one event, or one frame, can *)
(* push and pop several times before it is.                                *)
(*                                                                         *)
(* Time is the same for all transitions: the ticks of a frame see it go on *)
(* by the same number of steps.                                            *)
(***************************************************************************)
EXTENDS Naturals, SequencesExt

CONSTANTS
    MaxEntries,   \* HistoryEntry objects besides that of the first route
    MaxOverlays,  \* entries in the history that are no opaque route
    FullProgress  \* steps from dismissed to completed

ASSUME NavigatorAssumption == /\ MaxEntries \in Nat
                              /\ MaxOverlays \in Nat
                              /\ FullProgress \in Nat \ {0}

VARIABLES
    history,
    historyIndex,
    fullyOpaque,     \* the entries that are
    transitions,     \* the Transition of each entry that has one in the tree
    navigator_dirty, \* a microtask will build the navigator
    due,             \* the transitions whose ticks are left in this frame
    elapsed,         \* steps since the last frame
    pops_in_frames   \* the program pops pages from frame callbacks too

navigator_vars == <<history, historyIndex, fullyOpaque, transitions, navigator_dirty, due, elapsed,
                    pops_in_frames>>

OpaqueRoute == "Route"
DialogRoute == "DialogRoute"
RouteState == "RouteState"
Routes == {OpaqueRoute, DialogRoute, RouteState}

Forward == "forward"
Backward == "reverse"

Entry(object, route) == [object |-> object, route |-> route]

NavigatorInit ==
    /\ history = <<Entry(0, OpaqueRoute)>>
    /\ historyIndex = 0
    /\ fullyOpaque = {}
    /\ transitions = [e \in {} |-> <<>>]
    /\ navigator_dirty = FALSE
    /\ due = {}
    /\ elapsed = 0
    /\ pops_in_frames \in BOOLEAN

InFrame == due # {}

(* The entry of currentRoute. *)
CurrentEntry == history[historyIndex + 1]

-----------------------------------------------------------------------------

(* Objects that nothing refers to. *)
FreeObjects == 1..MaxEntries \ {e.object : e \in ToSet(history) \cup DOMAIN transitions}

IsOverlay(e) == e.route # OpaqueRoute

CanPush(route) ==
    /\ FreeObjects # {}
    /\ route = OpaqueRoute \/ Len(SelectSeq(history, IsOverlay)) < MaxOverlays

(* Mistake: the new entry goes on top of those on their way out. *)
PushOnTop(route) ==
    /\ CanPush(route)
    /\ history' = Append(history, Entry(Min(FreeObjects), route))
    /\ historyIndex' = historyIndex + 1
    /\ navigator_dirty' = TRUE
    /\ UNCHANGED <<fullyOpaque, transitions, due, elapsed, pops_in_frames>>

(* Navigator.push, and pushState, with a new entry. *)
Push(route) ==
    /\ CanPush(route)
    /\ history' = InsertAt(history, historyIndex + 2, Entry(Min(FreeObjects), route))
    /\ historyIndex' = historyIndex + 1
    /\ navigator_dirty' = TRUE
    /\ UNCHANGED <<fullyOpaque, transitions, due, elapsed, pops_in_frames>>

(* Mistake: the entry stays opaque. *)
PopKeepsOpaque ==
    /\ historyIndex > 0
    /\ InFrame => pops_in_frames \/ CurrentEntry.route = RouteState
    /\ historyIndex' = historyIndex - 1
    /\ navigator_dirty' = TRUE
    /\ UNCHANGED <<history, fullyOpaque, transitions, due, elapsed, pops_in_frames>>

(***************************************************************************)
(* Navigator.pop.  Every program may pop the state of a drawer or a menu   *)
(* from a frame callback: that is where these notice that they are closed. *)
(***************************************************************************)
Pop ==
    /\ historyIndex > 0
    /\ InFrame => pops_in_frames \/ CurrentEntry.route = RouteState
    /\ fullyOpaque' = fullyOpaque \ {CurrentEntry}
    /\ historyIndex' = historyIndex - 1
    /\ navigator_dirty' = TRUE
    /\ UNCHANGED <<history, transitions, due, elapsed, pops_in_frames>>

-----------------------------------------------------------------------------
(* The microtask builds the navigator. *)

Target(direction) == IF direction = Forward THEN FullProgress ELSE 0

(* Transition._start: nothing is animated when the target is where progress is. *)
Started(t, direction) ==
    [t EXCEPT !.direction = direction,
              !.dismissed = FALSE,
              !.fresh = TRUE,
              !.ticking = (t.progress # Target(direction))]

(* Transition.initState: one that is built on its way out begins where it was completed. *)
NewTransition(direction) ==
    Started([direction |-> direction, progress |-> FullProgress - Target(direction),
             ticking |-> FALSE, fresh |-> TRUE, dismissed |-> FALSE, completed |-> FALSE],
            direction)

(* The entries whose transitions Navigator.build puts into the tree. *)
Shown ==
    {history[i] : i \in {j \in 2..Len(history) :
        /\ j < Len(history) => history[j + 1] \notin fullyOpaque
        /\ history[j].route # RouteState}}

DirectionOf(e) ==
    IF \E i \in 1..historyIndex + 1 : history[i] = e THEN Forward ELSE Backward

(* Mistake: the transition learns of its new direction and goes on. *)
SyncedButNotStarted(e) ==
    IF e \notin DOMAIN transitions THEN NewTransition(DirectionOf(e))
    ELSE [transitions[e] EXCEPT !.direction = DirectionOf(e)]

(* Transition.syncFields starts it again when the direction has changed. *)
Synced(e) ==
    IF e \notin DOMAIN transitions THEN NewTransition(DirectionOf(e))
    ELSE IF transitions[e].direction = DirectionOf(e) THEN transitions[e]
    ELSE Started(transitions[e], DirectionOf(e))

BuildNavigator ==
    /\ navigator_dirty
    /\ ~InFrame
    /\ navigator_dirty' = FALSE
    /\ transitions' = [e \in Shown |-> Synced(e)]
    /\ UNCHANGED <<history, historyIndex, fullyOpaque, due, elapsed, pops_in_frames>>

-----------------------------------------------------------------------------
(* A frame, after the microtask. *)

StartFrame ==
    /\ ~navigator_dirty
    /\ ~InFrame
    /\ due' = {e \in DOMAIN transitions : transitions[e].ticking}
    /\ due' # {}
    /\ elapsed' \in 1..FullProgress
    /\ UNCHANGED <<history, historyIndex, fullyOpaque, transitions, navigator_dirty,
                   pops_in_frames>>

(* TweenSimulation.x: the first tick of an animation sets its start time. *)
Progressed(t) ==
    IF t.fresh THEN t.progress
    ELSE IF t.direction = Forward THEN IF t.progress + elapsed < FullProgress
                                       THEN t.progress + elapsed ELSE FullProgress
    ELSE IF t.progress > elapsed THEN t.progress - elapsed ELSE 0

(* onDismissed *)
RemoveEntry(e) == RemoveFirst(history, e)

(***************************************************************************)
(* The tick of a transition's performance and its listeners,               *)
(* _checkDismissed and _checkCompleted.  The tick at which it arrives is   *)
(* the last one here: in the code there may be one more, at the same place.*)
(***************************************************************************)
TickTransition(e) ==
    LET t == transitions[e]
        dismisses == ~t.dismissed /\ t.direction = Backward /\ Progressed(t) = 0
        completes == ~t.completed /\ t.direction = Forward /\ Progressed(t) = FullProgress
    IN  /\ due' = due \ {e}
        /\ transitions' = [transitions EXCEPT ![e] =
                               [t EXCEPT !.progress = Progressed(t),
                                         !.fresh = FALSE,
                                         !.ticking = (Progressed(t) # Target(t.direction)),
                                         !.dismissed = t.dismissed \/ dismisses,
                                         !.completed = t.completed \/ completes]]
        /\ history' = IF dismisses THEN RemoveEntry(e) ELSE history
        /\ fullyOpaque' = IF dismisses THEN fullyOpaque \ {e}
                          ELSE IF completes /\ e.route = OpaqueRoute THEN fullyOpaque \cup {e}
                          ELSE fullyOpaque
        /\ navigator_dirty' = (navigator_dirty \/ dismisses \/ completes)
        /\ elapsed' = IF due' = {} THEN 0 ELSE elapsed
        /\ UNCHANGED <<historyIndex, pops_in_frames>>

Frame == StartFrame \/ \E e \in due : TickTransition(e)

NavigatorNext == \/ \E route \in Routes : Push(route)
                 \/ Pop
                 \/ BuildNavigator
                 \/ Frame

(* Microtasks run, and frames come while transitions tick. *)
NavigatorFairness == WF_navigator_vars(BuildNavigator) /\ WF_navigator_vars(Frame)

NavigatorSpec == NavigatorInit /\ [][NavigatorNext]_navigator_vars /\ NavigatorFairness

-----------------------------------------------------------------------------
(* Properties *)

back_stack == SubSeq(history, 1, historyIndex + 1)

(***************************************************************************)
(* Whatever else is in the history, and whichever transitions end in       *)
(* whichever order, the pages one can go back to form a stack: a step puts *)
(* a new page on top, takes one from the top, or leaves them as they are.  *)
(***************************************************************************)
PagesAreAStack ==
    [][\/ back_stack' = back_stack
       \/ Front(back_stack') = back_stack /\ Last(back_stack') \notin ToSet(history)
       \/ back_stack' = Front(back_stack)]_navigator_vars

(***************************************************************************)
(* The build leaves out pages that another one covers.  The current page   *)
(* is never left out, nor are those on their way out; and a page that is   *)
(* left out has come to rest, so that its Transition, taken out of the     *)
(* tree, calls nobody back.  A program that pops from a frame callback,    *)
(* before the tick that completes the page's transition, breaks the first. *)
(***************************************************************************)
OnlyCoveredPagesAreLeftOut ==
    /\ ~pops_in_frames =>
           \A i \in historyIndex + 2 .. Len(history) : history[i] \notin fullyOpaque
    /\ ~InFrame => \A e \in DOMAIN transitions \ Shown : ~transitions[e].ticking

(* The page of an object was popped after its transition had moved. *)
SlidesOut(object) ==
    \E e \in (ToSet(history) \ ToSet(back_stack)) \cap DOMAIN transitions :
        e.object = object /\ transitions[e].progress > 0

InHistory(object) == \E e \in ToSet(history) : e.object = object

(***************************************************************************)
(* A popped page leaves the history once it has slid out.  One popped      *)
(* before its transition has moved has nothing to slide, and one without   *)
(* content has no transition: these stay.                                  *)
(***************************************************************************)
PoppedPagesLeave ==
    \A object \in 1..MaxEntries : SlidesOut(object) ~> ~InHistory(object)
=============================================================================
