-------------------------------- MODULE Ticker --------------------------------
(***************************************************************************)
(* sky/sdk/lib/animation/animated_simulation.dart: tickers, which register *)
(* a callback with the scheduler for every frame while they tick, and the  *)
(* simulations that drive them.  A program may start and stop tickers and  *)
(* change the render tree from events, and from the ticks themselves       *)
(* (Timeline and AnimationPerformance pass ticks on to listeners).         *)
(*                                                                         *)
(* An assertion that fails throws.                                         *)
(***************************************************************************)
EXTENDS Scheduler

CONSTANTS
    Tickers,
    NoTicker

RestartsItself == "stops and starts its own ticker"
StopsOthers == "stops a ticker whose tick is due in the frame in progress"
Throws == "throws"

(* What the ticks of some programs do besides. *)
AllLiberties == {RestartsItself, StopsOthers, Throws}

ASSUME TickerAssumption == /\ NoTicker \notin Tickers
                           /\ Ids \subseteq Int

VARIABLES
    is_ticking,      \* the ticker has a completer
    animation_id,    \* of the callback it would cancel, NoId if null
    running,         \* the ticker whose tick runs, NoTicker if none does
    failed,          \* the assertion that failed, if one did
    liberties        \* those the ticks of this program take

tickers == <<is_ticking, animation_id, running, failed, liberties>>
vars == <<scheduler, tickers>>

NoId == -1

ASSUME NoIdAssumption == NoId \notin Ids

Nothing == "nothing failed"
TickingAsserted == "_tick: assert(isTicking)"
RegisteredAsserted == "_tick: assert(_animationId != null)"
UnregisteredAsserted == "_scheduleTick: assert(_animationId == null)"

Init == /\ SchedulerInit
        /\ is_ticking = [t \in Tickers |-> FALSE]
        /\ animation_id = [t \in Tickers |-> NoId]
        /\ running = NoTicker
        /\ failed = Nothing
        /\ liberties \in SUBSET AllLiberties

-----------------------------------------------------------------------------

UsedIds == DOMAIN transient_callbacks \cup DOMAIN callbacks
           \cup {animation_id[t] : t \in Tickers}

(* Ticker._scheduleTick, when its assertion holds. *)
ScheduleTick(t) ==
    \E id \in Ids \ UsedIds :
        /\ animation_id' = [animation_id EXCEPT ![t] = id]
        /\ RequestAnimationFrame(id, t)

(* An assertion throws out of a tick: the frame ends there. *)
Fail(assertion) == /\ failed' = assertion
                   /\ running' = NoTicker
                   /\ AbortFrame

(***************************************************************************)
(* Ticker.start, from an event or from a tick.  Callers know that it must  *)
(* not be ticking (assert(!isTicking)).                                    *)
(***************************************************************************)
Start(t) ==
    /\ ~is_ticking[t]
    /\ t = running => RestartsItself \in liberties
    /\ is_ticking' = [is_ticking EXCEPT ![t] = TRUE]
    /\ ScheduleTick(t)
    /\ UNCHANGED <<running, failed, liberties>>

(* Mistake: stop completes the future but leaves the callback registered. *)
StopWithoutCancel(t) ==
    /\ is_ticking[t]
    /\ (t # running /\ animation_id[t] \in DOMAIN callbacks) => StopsOthers \in liberties
    /\ is_ticking' = [is_ticking EXCEPT ![t] = FALSE]
    /\ animation_id' = [animation_id EXCEPT ![t] = NoId]
    /\ UNCHANGED <<scheduler, running, failed, liberties>>

(* Ticker.stop, of a ticker that ticks. *)
Stop(t) ==
    /\ is_ticking[t]
    /\ (t # running /\ animation_id[t] \in DOMAIN callbacks) => StopsOthers \in liberties
    /\ is_ticking' = [is_ticking EXCEPT ![t] = FALSE]
    /\ \/ /\ animation_id[t] # NoId
          /\ CancelAnimationFrame(animation_id[t])
          /\ animation_id' = [animation_id EXCEPT ![t] = NoId]
       \/ /\ animation_id[t] = NoId
          /\ UNCHANGED <<animation_id, scheduler>>
    /\ UNCHANGED <<running, failed, liberties>>

(***************************************************************************)
(* The frame calls Ticker._tick, which hands over to the simulation: its   *)
(* last tick (AnimatedSimulation._tick) stops the ticker before it passes  *)
(* the value on to the program.                                            *)
(***************************************************************************)
RunTick(id) ==
    /\ running = NoTicker
    /\ TakeCallback(id)
    /\ is_ticking[callbacks[id]]
    /\ animation_id[callbacks[id]] # NoId
    /\ running' = callbacks[id]
    /\ animation_id' = [animation_id EXCEPT ![running'] = NoId]
    /\ \E is_last_tick \in BOOLEAN :
           is_ticking' = [is_ticking EXCEPT ![running'] = ~is_last_tick]
    /\ UNCHANGED <<failed, liberties>>

(***************************************************************************)
(* The frame calls Ticker._tick of a ticker that was stopped in this       *)
(* frame, or of one that holds no id, its own tick having thrown.          *)
(***************************************************************************)
RunTickAsserts(id) ==
    /\ running = NoTicker
    /\ in_frame
    /\ id \in DOMAIN callbacks
    /\ \/ ~is_ticking[callbacks[id]] /\ Fail(TickingAsserted)
       \/ /\ is_ticking[callbacks[id]]
          /\ animation_id[callbacks[id]] = NoId
          /\ Fail(RegisteredAsserted)
    /\ UNCHANGED <<is_ticking, animation_id, liberties>>

(* The program's part of the tick is over; _tick registers the next one. *)
EndTick ==
    /\ running # NoTicker
    /\ \/ /\ is_ticking[running]
          /\ animation_id[running] = NoId
          /\ ScheduleTick(running)
          /\ running' = NoTicker
          /\ UNCHANGED failed
       \/ /\ is_ticking[running]
          /\ animation_id[running] # NoId
          /\ Fail(UnregisteredAsserted)
          /\ UNCHANGED animation_id
       \/ /\ ~is_ticking[running]
          /\ running' = NoTicker
          /\ UNCHANGED <<scheduler, animation_id, failed>>
    /\ UNCHANGED <<is_ticking, liberties>>

(* The program's part of the tick throws. *)
ThrowInTick ==
    /\ running # NoTicker
    /\ Throws \in liberties
    /\ running' = NoTicker
    /\ AbortFrame
    /\ UNCHANGED <<is_ticking, animation_id, failed, liberties>>

-----------------------------------------------------------------------------

Frame == \/ BeginFrame /\ UNCHANGED tickers
         \/ \E id \in Ids : RunTick(id) \/ RunTickAsserts(id)
         \/ EndTick
         \/ running = NoTicker /\ EndFrame /\ UNCHANGED tickers

(* From an event while no frame is in progress, or from a tick. *)
Program == /\ in_frame => running # NoTicker
           /\ \/ \E t \in Tickers : Start(t) \/ Stop(t)
              \/ \E node \in Nodes : MarkNeeds(node) /\ UNCHANGED tickers

Next == Frame \/ Program \/ ThrowInTick

SafeSpec == Init /\ [][Next]_vars

(* The engine begins the frames it is asked for, and frames come to an end. *)
Spec == SafeSpec /\ WF_vars(Frame)

-----------------------------------------------------------------------------
(* Properties *)

(* A map of callbacks: a function from ids. *)
IsCallbackMap(map) == \E ids \in SUBSET Ids : map \in [ids -> Tickers]

(* Every variable holds a value the program can hold. *)
TypeOK ==
    /\ have_scheduled_visual_update \in BOOLEAN
    /\ frame_scheduled \in BOOLEAN
    /\ IsCallbackMap(transient_callbacks)
    /\ IsCallbackMap(callbacks)
    /\ in_frame \in BOOLEAN
    /\ dirty_nodes \subseteq Nodes
    /\ is_ticking \in [Tickers -> BOOLEAN]
    /\ animation_id \in [Tickers -> Ids \cup {NoId}]
    /\ running \in Tickers \cup {NoTicker}
    /\ liberties \subseteq AllLiberties
    /\ failed \in {Nothing, TickingAsserted, RegisteredAsserted, UnregisteredAsserted}

(***************************************************************************)
(* What was registered has asked for the frame that will serve it, also    *)
(* when a tick throws half way through a frame: the flag of the scheduler  *)
(* is never set without a frame to come, nor clear with callbacks waiting. *)
(***************************************************************************)
CallbacksAreScheduled ==
    /\ DOMAIN transient_callbacks # {} => have_scheduled_visual_update
    /\ have_scheduled_visual_update => frame_scheduled

(***************************************************************************)
(* The ids in the two maps belong to tickers that tick and would cancel    *)
(* just them: no tick is registered twice, none comes after stop, and      *)
(* start finds no id left over.  Programs whose ticks at worst throw are   *)
(* promised that.                                                          *)
(***************************************************************************)
NoStrayTick == liberties \subseteq {Throws} =>
    /\ \A id \in DOMAIN transient_callbacks :
           LET t == transient_callbacks[id] IN is_ticking[t] /\ animation_id[t] = id
    /\ \A id \in DOMAIN callbacks :
           LET t == callbacks[id] IN is_ticking[t] /\ animation_id[t] = id
    /\ \A t \in Tickers : ~is_ticking[t] => animation_id[t] = NoId

(***************************************************************************)
(* A ticker that ticks has a tick to come, or is in it (an exception loses *)
(* the ticks of the rest of the frame).                                    *)
(***************************************************************************)
NoTickForgotten == liberties = {} =>
    \A t \in Tickers : is_ticking[t] =>
        t = running \/ animation_id[t] \in DOMAIN transient_callbacks \cup DOMAIN callbacks

(***************************************************************************)
(* What is dirty will be painted: the first change after a flush asks for  *)
(* a frame and later ones rely on it, so a frame must not pass without     *)
(* flushing them, as an exception makes it do.                             *)
(***************************************************************************)
DirtyIsScheduled ==
    (failed = Nothing /\ Throws \notin liberties /\ dirty_nodes # {}) =>
        (have_scheduled_visual_update \/ in_frame)

(* A ticker that ticks keeps getting ticks, until it is stopped. *)
TickersTick == liberties = {} =>
    \A t \in Tickers : is_ticking[t] ~> (running = t \/ ~is_ticking[t])

(* assert(isTicking) of Ticker._tick (animated_simulation.dart, line 48) holds. *)
TicksFindTickerTicking == failed # TickingAsserted

(* assert(_animationId == null) of Ticker._scheduleTick (line 60) holds. *)
TicksAreRegisteredOnce == failed # UnregisteredAsserted
=============================================================================
