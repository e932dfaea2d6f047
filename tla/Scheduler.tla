------------------------------ MODULE Scheduler ------------------------------
(***************************************************************************)
(* sky/sdk/lib/base/scheduler.dart: the frame callbacks of a Dart program. *)
(* A frame takes the map of transient callbacks, runs each of them once    *)
(* and then the persistent callbacks, which lay out and paint.  Callbacks  *)
(* may register and cancel callbacks and ask for another frame.            *)
(*                                                                         *)
(* Maps from ids to callbacks are functions; the order in which forEach    *)
(* visits them is left open.  An id is free again once nobody refers to it *)
(* any more: the code's counter never comes back to one.                   *)
(***************************************************************************)
EXTENDS Integers, FiniteSets

CONSTANTS
    Ids,    \* callback ids
    Nodes   \* render objects

VARIABLES
    have_scheduled_visual_update,
    frame_scheduled,        \* the view was asked for a frame that has not begun
    transient_callbacks,    \* registered for the next frame
    callbacks,              \* of the frame in progress, not yet run
    in_frame,
    dirty_nodes             \* render objects that wait to be laid out or painted

scheduler == <<have_scheduled_visual_update, frame_scheduled, transient_callbacks,
               callbacks, in_frame, dirty_nodes>>

NoCallbacks == <<>>

With(map, id, callback) == [i \in DOMAIN map \cup {id} |->
                                IF i = id THEN callback ELSE map[i]]

Without(map, id) == [i \in DOMAIN map \ {id} |-> map[i]]

SchedulerInit == /\ have_scheduled_visual_update = FALSE
                 /\ frame_scheduled = FALSE
                 /\ transient_callbacks = NoCallbacks
                 /\ callbacks = NoCallbacks
                 /\ in_frame = FALSE
                 /\ dirty_nodes = {}

EnsureVisualUpdate == /\ have_scheduled_visual_update' = TRUE
                      /\ frame_scheduled' =
                             (frame_scheduled \/ ~have_scheduled_visual_update)

RequestAnimationFrame(id, callback) ==
    /\ transient_callbacks' = With(transient_callbacks, id, callback)
    /\ EnsureVisualUpdate
    /\ UNCHANGED <<callbacks, in_frame, dirty_nodes>>

(* cancelAnimationFrame looks for the callback among those of the next frame only. *)
CancelAnimationFrame(id) ==
    /\ transient_callbacks' = Without(transient_callbacks, id)
    /\ UNCHANGED <<have_scheduled_visual_update, frame_scheduled, callbacks, in_frame,
                   dirty_nodes>>

(* Mistake: the flag is reset when the frame ends, over requests made during the frame. *)
BeginFrameKeepsFlag ==
    /\ frame_scheduled
    /\ ~in_frame
    /\ frame_scheduled' = FALSE
    /\ callbacks' = transient_callbacks
    /\ transient_callbacks' = NoCallbacks
    /\ in_frame' = TRUE
    /\ UNCHANGED <<have_scheduled_visual_update, dirty_nodes>>

(* The view begins the frame it was asked for: _beginFrame up to its loop. *)
BeginFrame ==
    /\ frame_scheduled
    /\ ~in_frame
    /\ frame_scheduled' = FALSE
    /\ have_scheduled_visual_update' = FALSE
    /\ callbacks' = transient_callbacks
    /\ transient_callbacks' = NoCallbacks
    /\ in_frame' = TRUE
    /\ UNCHANGED dirty_nodes

(* The loop of _beginFrame takes its next callback. *)
TakeCallback(id) ==
    /\ in_frame
    /\ id \in DOMAIN callbacks
    /\ callbacks' = Without(callbacks, id)
    /\ UNCHANGED <<have_scheduled_visual_update, frame_scheduled, transient_callbacks,
                   in_frame, dirty_nodes>>

(* Mistake: nothing installs the callback that lays out and paints. *)
EndFrameWithoutFlush ==
    /\ in_frame
    /\ DOMAIN callbacks = {}
    /\ in_frame' = FALSE
    /\ UNCHANGED <<have_scheduled_visual_update, frame_scheduled, transient_callbacks,
                   callbacks, dirty_nodes>>

(* Mistake: the map is emptied after the frame instead of being replaced before. *)
EndFrameClearsMap ==
    /\ in_frame
    /\ DOMAIN callbacks = {}
    /\ in_frame' = FALSE
    /\ dirty_nodes' = {}
    /\ transient_callbacks' = NoCallbacks
    /\ UNCHANGED <<have_scheduled_visual_update, frame_scheduled, callbacks>>

(***************************************************************************)
(* The loop is over; _beginFrame runs the persistent callbacks, of which   *)
(* SkyBinding has installed one that lays out and paints what is dirty.    *)
(***************************************************************************)
EndFrame ==
    /\ in_frame
    /\ DOMAIN callbacks = {}
    /\ in_frame' = FALSE
    /\ dirty_nodes' = {}
    /\ UNCHANGED <<have_scheduled_visual_update, frame_scheduled, transient_callbacks,
                   callbacks>>

(* A callback throws: _beginFrame ends there, and with it the rest of its map. *)
AbortFrame == /\ callbacks' = NoCallbacks
              /\ in_frame' = FALSE
              /\ UNCHANGED <<have_scheduled_visual_update, frame_scheduled,
                             transient_callbacks, dirty_nodes>>

(* RenderObject.markNeedsLayout and markNeedsPaint, of a node that is not marked yet. *)
MarkNeeds(node) ==
    /\ node \notin dirty_nodes
    /\ dirty_nodes' = dirty_nodes \cup {node}
    /\ EnsureVisualUpdate
    /\ UNCHANGED <<transient_callbacks, callbacks, in_frame>>
=============================================================================
