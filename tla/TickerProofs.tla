----------------------------- MODULE TickerProofs -----------------------------
(***************************************************************************)
(* Proofs about Ticker, for every set of tickers, ids and render objects.  *)
(***************************************************************************)
EXTENDS Ticker, TLAPS

LEMMA EmptyMap == IsCallbackMap(NoCallbacks) /\ DOMAIN NoCallbacks = {}
<1>1. DOMAIN NoCallbacks = {}
  BY DEF NoCallbacks
<1>2. NoCallbacks = [i \in {} |-> NoTicker]
  BY DEF NoCallbacks
<1>3. NoCallbacks \in [{} -> Tickers]
  BY <1>2
<1> QED
  BY <1>1, <1>3 DEF IsCallbackMap

(* What With and Without make of a map of callbacks. *)
LEMMA WithMap ==
    ASSUME NEW map, IsCallbackMap(map), NEW id \in Ids, NEW t \in Tickers
    PROVE  /\ IsCallbackMap(With(map, id, t))
           /\ DOMAIN With(map, id, t) = DOMAIN map \cup {id}
           /\ With(map, id, t)[id] = t
           /\ \A i \in DOMAIN map \ {id} : With(map, id, t)[i] = map[i]
<1>1. PICK ids \in SUBSET Ids : map \in [ids -> Tickers]
  BY DEF IsCallbackMap
<1>2. With(map, id, t) \in [ids \cup {id} -> Tickers]
  BY <1>1 DEF With
<1>3. ids \cup {id} \in SUBSET Ids
  BY <1>1
<1> QED
  BY <1>1, <1>2, <1>3 DEF IsCallbackMap, With

LEMMA WithoutMap ==
    ASSUME NEW map, IsCallbackMap(map), NEW id
    PROVE  /\ IsCallbackMap(Without(map, id))
           /\ DOMAIN Without(map, id) = DOMAIN map \ {id}
           /\ \A i \in DOMAIN map \ {id} : Without(map, id)[i] = map[i]
<1>1. PICK ids \in SUBSET Ids : map \in [ids -> Tickers]
  BY DEF IsCallbackMap
<1>2. Without(map, id) \in [ids \ {id} -> Tickers]
  BY <1>1 DEF Without
<1>3. ids \ {id} \in SUBSET Ids
  BY <1>1
<1> QED
  BY <1>1, <1>2, <1>3 DEF IsCallbackMap, Without

LEMMA MapValues ==
    ASSUME NEW map, IsCallbackMap(map), NEW id \in DOMAIN map
    PROVE  id \in Ids /\ map[id] \in Tickers
  BY DEF IsCallbackMap

-----------------------------------------------------------------------------
(* The scheduler's own part: what its steps do to the two flags. *)

LEMMA EnsuredUpdate ==
    ASSUME have_scheduled_visual_update \in BOOLEAN, frame_scheduled \in BOOLEAN,
           have_scheduled_visual_update => frame_scheduled,
           EnsureVisualUpdate
    PROVE  have_scheduled_visual_update' = TRUE /\ frame_scheduled' = TRUE
  BY DEF EnsureVisualUpdate

(***************************************************************************)
(* Every variable keeps its type (TypeOK): what the program's ticks do     *)
(* cannot put anything but tickers under ids.                              *)
(***************************************************************************)
LEMMA TypeInit == Init => TypeOK
  BY EmptyMap DEF Init, SchedulerInit, TypeOK

LEMMA ScheduleTickType ==
    ASSUME TypeOK, NEW t \in Tickers, ScheduleTick(t)
    PROVE  /\ have_scheduled_visual_update' \in BOOLEAN
           /\ frame_scheduled' \in BOOLEAN
           /\ IsCallbackMap(transient_callbacks)'
           /\ IsCallbackMap(callbacks)'
           /\ in_frame' \in BOOLEAN
           /\ dirty_nodes' \subseteq Nodes
           /\ animation_id' \in [Tickers -> Ids \cup {NoId}]
<1>1. PICK id \in Ids \ UsedIds : /\ animation_id' = [animation_id EXCEPT ![t] = id]
                                  /\ RequestAnimationFrame(id, t)
  BY DEF ScheduleTick
<1>2. IsCallbackMap(With(transient_callbacks, id, t))
  BY WithMap DEF TypeOK
<1>3. have_scheduled_visual_update' \in BOOLEAN /\ frame_scheduled' \in BOOLEAN
  BY <1>1, Zenon DEF RequestAnimationFrame, EnsureVisualUpdate
<1> QED
  BY <1>1, <1>2, <1>3 DEF TypeOK, RequestAnimationFrame, IsCallbackMap

LEMMA TypeStep == TypeOK /\ [Next]_vars => TypeOK'
<1> SUFFICES ASSUME TypeOK, [Next]_vars PROVE TypeOK'
  OBVIOUS
<1> USE TypeOK DEF TypeOK
<1>1. ASSUME NEW t \in Tickers, Start(t) PROVE TypeOK'
  BY <1>1, ScheduleTickType DEF Start
<1>2. ASSUME NEW t \in Tickers, Stop(t) PROVE TypeOK'
  <2>1. IsCallbackMap(Without(transient_callbacks, animation_id[t]))
    BY WithoutMap
  <2>2. /\ have_scheduled_visual_update' = have_scheduled_visual_update
        /\ frame_scheduled' = frame_scheduled
        /\ in_frame' = in_frame
    BY <1>2, Zenon DEF Stop, CancelAnimationFrame, scheduler
  <2> QED
    BY <1>2, <2>1, <2>2 DEF Stop, CancelAnimationFrame, IsCallbackMap, scheduler
<1>3. ASSUME NEW id \in Ids, RunTick(id) PROVE TypeOK'
  <2>1. IsCallbackMap(Without(callbacks, id)) /\ callbacks[id] \in Tickers
    BY <1>3, WithoutMap, MapValues DEF RunTick, TakeCallback
  <2>2. PICK is_last_tick \in BOOLEAN :
            is_ticking' = [is_ticking EXCEPT ![callbacks[id]] = ~is_last_tick]
    BY <1>3 DEF RunTick
  <2>3. (~is_last_tick) \in BOOLEAN
    BY Zenon
  <2>4. is_ticking' \in [Tickers -> BOOLEAN]
    BY <2>2, <2>3
  <2>5. /\ have_scheduled_visual_update' = have_scheduled_visual_update
        /\ frame_scheduled' = frame_scheduled
        /\ in_frame' = in_frame
    BY <1>3, Zenon DEF RunTick, TakeCallback
  <2> QED
    BY <1>3, <2>1, <2>4, <2>5 DEF RunTick, TakeCallback, IsCallbackMap
<1>4. ASSUME AbortFrame PROVE /\ IsCallbackMap(callbacks)'
                              /\ in_frame' \in BOOLEAN
  <2>1. in_frame' \in BOOLEAN
    BY <1>4, Zenon DEF AbortFrame
  <2> QED
    BY <1>4, <2>1, EmptyMap DEF AbortFrame, IsCallbackMap
<1>5. ASSUME NEW id \in Ids, RunTickAsserts(id) PROVE TypeOK'
  <2>1. AbortFrame
    BY <1>5 DEF RunTickAsserts, Fail
  <2> QED
    BY <1>4, <1>5, <2>1 DEF RunTickAsserts, Fail, AbortFrame, IsCallbackMap
<1>6. ASSUME EndTick PROVE TypeOK'
  <2>1. CASE /\ is_ticking[running]
             /\ animation_id[running] = NoId
             /\ ScheduleTick(running)
             /\ running' = NoTicker
             /\ UNCHANGED failed
    <3>1. running \in Tickers
      BY <1>6 DEF EndTick
    <3> QED
      BY <1>6, <2>1, <3>1, ScheduleTickType DEF EndTick
  <2>2. CASE /\ is_ticking[running]
             /\ animation_id[running] # NoId
             /\ Fail(UnregisteredAsserted)
             /\ UNCHANGED animation_id
    <3>1. AbortFrame
      BY <2>2 DEF Fail
    <3> QED
      BY <1>4, <1>6, <2>2, <3>1 DEF EndTick, Fail, AbortFrame, IsCallbackMap
  <2>3. CASE /\ ~is_ticking[running]
             /\ running' = NoTicker
             /\ UNCHANGED <<scheduler, animation_id, failed>>
    BY <1>6, <2>3 DEF EndTick, scheduler, IsCallbackMap
  <2> QED
    BY <1>6, <2>1, <2>2, <2>3 DEF EndTick
<1>7. ASSUME ThrowInTick PROVE TypeOK'
  BY <1>4, <1>7 DEF ThrowInTick, AbortFrame, IsCallbackMap
<1>8. ASSUME BeginFrame, UNCHANGED tickers PROVE TypeOK'
  <2>1. /\ have_scheduled_visual_update' \in BOOLEAN
        /\ frame_scheduled' \in BOOLEAN
        /\ in_frame' \in BOOLEAN
    BY <1>8, Zenon DEF BeginFrame
  <2> QED
    BY <1>8, <2>1, EmptyMap DEF BeginFrame, tickers, IsCallbackMap
<1>9. ASSUME EndFrame, UNCHANGED tickers PROVE TypeOK'
  <2>1. in_frame' \in BOOLEAN
    BY <1>9, Zenon DEF EndFrame
  <2> QED
    BY <1>9, <2>1 DEF EndFrame, tickers, IsCallbackMap
<1>10. ASSUME NEW node \in Nodes, MarkNeeds(node), UNCHANGED tickers PROVE TypeOK'
  <2>1. have_scheduled_visual_update' \in BOOLEAN /\ frame_scheduled' \in BOOLEAN
    BY <1>10, Zenon DEF MarkNeeds, EnsureVisualUpdate
  <2> QED
    BY <1>10, <2>1 DEF MarkNeeds, tickers, IsCallbackMap
<1>11. CASE UNCHANGED vars
  BY <1>11 DEF vars, scheduler, tickers, IsCallbackMap
<1> QED
  BY <1>1, <1>2, <1>3, <1>5, <1>6, <1>7, <1>8, <1>9, <1>10, <1>11
     DEF Next, Frame, Program

(***************************************************************************)
(* The type invariant, whatever liberties the program's ticks take.        *)
(***************************************************************************)
THEOREM TypeCorrect == SafeSpec => []TypeOK
  BY TypeInit, TypeStep, PTL DEF SafeSpec

-----------------------------------------------------------------------------
(* CallbacksAreScheduled needs the type invariant only. *)

LEMMA ScheduledStep == TypeOK /\ CallbacksAreScheduled /\ [Next]_vars => CallbacksAreScheduled'
<1> SUFFICES ASSUME TypeOK, CallbacksAreScheduled, [Next]_vars
             PROVE  CallbacksAreScheduled'
  OBVIOUS
<1>1. /\ have_scheduled_visual_update \in BOOLEAN
      /\ frame_scheduled \in BOOLEAN
      /\ have_scheduled_visual_update => frame_scheduled
  BY DEF TypeOK, CallbacksAreScheduled
<1>2. ASSUME EnsureVisualUpdate PROVE CallbacksAreScheduled'
  BY <1>1, <1>2, EnsuredUpdate DEF CallbacksAreScheduled
<1>3. ASSUME UNCHANGED <<have_scheduled_visual_update, frame_scheduled, transient_callbacks>>
      PROVE  CallbacksAreScheduled'
  BY <1>3 DEF CallbacksAreScheduled
<1>4. ASSUME NEW t \in Tickers, ScheduleTick(t) PROVE CallbacksAreScheduled'
  BY <1>2, <1>4 DEF ScheduleTick, RequestAnimationFrame
<1>5. ASSUME NEW t \in Tickers, Start(t) PROVE CallbacksAreScheduled'
  BY <1>4, <1>5 DEF Start
<1>6. ASSUME NEW t \in Tickers, Stop(t) PROVE CallbacksAreScheduled'
  <2>1. CASE CancelAnimationFrame(animation_id[t])
    <3>0. DOMAIN Without(transient_callbacks, animation_id[t]) \subseteq DOMAIN transient_callbacks
      <4>1. IsCallbackMap(transient_callbacks)
        BY DEF TypeOK
      <4>2. DOMAIN Without(transient_callbacks, animation_id[t])
                = DOMAIN transient_callbacks \ {animation_id[t]}
        BY <4>1, WithoutMap, Zenon
      <4> QED
        BY <4>2
    <3>1. DOMAIN transient_callbacks' \subseteq DOMAIN transient_callbacks
      BY <2>1, <3>0, Zenon DEF CancelAnimationFrame
    <3>2. UNCHANGED <<have_scheduled_visual_update, frame_scheduled>>
      BY <2>1 DEF CancelAnimationFrame
    <3> QED
      BY <3>1, <3>2 DEF CallbacksAreScheduled
  <2>2. CASE UNCHANGED scheduler
    BY <1>3, <2>2 DEF scheduler
  <2> QED
    BY <1>6, <2>1, <2>2 DEF Stop
<1>7. ASSUME NEW id \in Ids, RunTick(id) PROVE CallbacksAreScheduled'
  BY <1>3, <1>7 DEF RunTick, TakeCallback
<1>8. ASSUME AbortFrame PROVE CallbacksAreScheduled'
  BY <1>3, <1>8 DEF AbortFrame
<1>9. ASSUME NEW id \in Ids, RunTickAsserts(id) PROVE CallbacksAreScheduled'
  BY <1>8, <1>9 DEF RunTickAsserts, Fail
<1>10. ASSUME EndTick PROVE CallbacksAreScheduled'
  <2>1. running \in Tickers
    BY <1>10 DEF EndTick, TypeOK
  <2>2. ScheduleTick(running) \/ AbortFrame \/ UNCHANGED scheduler
    BY <1>10 DEF EndTick, Fail
  <2> QED
    BY <1>3, <1>4, <1>8, <2>1, <2>2 DEF scheduler
<1>11. ASSUME ThrowInTick PROVE CallbacksAreScheduled'
  BY <1>8, <1>11 DEF ThrowInTick
<1>12. ASSUME BeginFrame PROVE CallbacksAreScheduled'
  <2>1. DOMAIN transient_callbacks' = {}
    BY <1>12, EmptyMap DEF BeginFrame
  <2>2. ~have_scheduled_visual_update'
    BY <1>12, Zenon DEF BeginFrame
  <2> QED
    BY <2>1, <2>2 DEF CallbacksAreScheduled
<1>13. ASSUME EndFrame PROVE CallbacksAreScheduled'
  BY <1>3, <1>13 DEF EndFrame
<1>14. ASSUME NEW node \in Nodes, MarkNeeds(node) PROVE CallbacksAreScheduled'
  BY <1>2, <1>14 DEF MarkNeeds
<1>15. CASE UNCHANGED vars
  BY <1>3, <1>15 DEF vars, scheduler
<1> QED
  BY <1>5, <1>6, <1>7, <1>9, <1>10, <1>11, <1>12, <1>13, <1>14, <1>15
     DEF Next, Frame, Program

(***************************************************************************)
(* Whatever ticks do, exceptions included, a registered callback has asked *)
(* for the frame that will serve it (CallbacksAreScheduled).               *)
(***************************************************************************)
THEOREM RegisteredTicksGetFrames == SafeSpec => []CallbacksAreScheduled
<1>1. Init => CallbacksAreScheduled
  BY EmptyMap DEF Init, SchedulerInit, CallbacksAreScheduled
<1> QED
  BY <1>1, TypeCorrect, ScheduledStep, PTL DEF SafeSpec

-----------------------------------------------------------------------------
(***************************************************************************)
(* NoStrayTick is about programs whose ticks do nothing worse than throw.  *)
(* It is inductive once the tick in progress is known to hold no id (it is *)
(* what EndTick relies on), callbacks wait only within a frame, and ids    *)
(* in use are not given out again.                                         *)
(***************************************************************************)
TickInProgress == running # NoTicker => animation_id[running] = NoId

CallbacksOfTheFrame == ~in_frame => DOMAIN callbacks = {}

MapsShareNoId == \A id \in DOMAIN transient_callbacks : id \notin DOMAIN callbacks

Agreed == /\ liberties \subseteq {Throws}
          /\ TypeOK
          /\ NoStrayTick
          /\ TickInProgress
          /\ CallbacksOfTheFrame
          /\ MapsShareNoId

LEMMA LibertiesStay == [Next]_vars => liberties' = liberties
  BY DEF Next, Frame, Program, Start, Stop, RunTick, RunTickAsserts, EndTick, ThrowInTick,
         vars, tickers

LEMMA ScheduleTickAgrees ==
    ASSUME Agreed, NEW t \in Tickers, ScheduleTick(t),
           is_ticking' = [is_ticking EXCEPT ![t] = TRUE],
           animation_id[t] = NoId
    PROVE  NoStrayTick' /\ CallbacksOfTheFrame' /\ MapsShareNoId'
<1>1. PICK id \in Ids \ UsedIds : /\ animation_id' = [animation_id EXCEPT ![t] = id]
                                  /\ RequestAnimationFrame(id, t)
  BY DEF ScheduleTick
<1>2. /\ transient_callbacks' = With(transient_callbacks, id, t)
      /\ UNCHANGED <<callbacks, in_frame>>
  BY <1>1 DEF RequestAnimationFrame
<1>3. /\ DOMAIN transient_callbacks' = DOMAIN transient_callbacks \cup {id}
      /\ transient_callbacks'[id] = t
      /\ \A i \in DOMAIN transient_callbacks \ {id} :
             transient_callbacks'[i] = transient_callbacks[i]
  <2>1. IsCallbackMap(transient_callbacks) /\ id \in Ids /\ t \in Tickers
    BY DEF Agreed, TypeOK
  <2>2. /\ DOMAIN With(transient_callbacks, id, t) = DOMAIN transient_callbacks \cup {id}
        /\ With(transient_callbacks, id, t)[id] = t
        /\ \A i \in DOMAIN transient_callbacks \ {id} :
               With(transient_callbacks, id, t)[i] = transient_callbacks[i]
    BY <2>1, WithMap
  <2>3. transient_callbacks' = With(transient_callbacks, id, t)
    BY <1>2
  <2> QED
    BY <2>2, <2>3, Zenon
<1>4. /\ id \notin DOMAIN transient_callbacks
      /\ id \notin DOMAIN callbacks
      /\ id # NoId
  BY NoIdAssumption DEF UsedIds
<1>5. ASSUME NEW i \in DOMAIN transient_callbacks
      PROVE  /\ transient_callbacks[i] \in Tickers \ {t}
             /\ is_ticking[transient_callbacks[i]]
             /\ animation_id[transient_callbacks[i]] = i
  BY MapValues, NoIdAssumption DEF Agreed, TypeOK, NoStrayTick
<1>6. ASSUME NEW i \in DOMAIN callbacks
      PROVE  /\ callbacks[i] \in Tickers \ {t}
             /\ is_ticking[callbacks[i]]
             /\ animation_id[callbacks[i]] = i
  BY MapValues, NoIdAssumption DEF Agreed, TypeOK, NoStrayTick
<1>7. is_ticking \in [Tickers -> BOOLEAN] /\ animation_id \in [Tickers -> Ids \cup {NoId}]
  BY DEF Agreed, TypeOK
<1>8. is_ticking'[t] /\ animation_id'[t] = id
  BY <1>1, <1>7
<1>9. \A u \in Tickers \ {t} : is_ticking'[u] = is_ticking[u] /\ animation_id'[u] = animation_id[u]
  BY <1>1, <1>7
<1>10. \A i \in DOMAIN transient_callbacks' :
           is_ticking'[transient_callbacks'[i]] /\ animation_id'[transient_callbacks'[i]] = i
  BY <1>3, <1>4, <1>5, <1>8, <1>9
<1>11. \A i \in DOMAIN callbacks' :
           is_ticking'[callbacks'[i]] /\ animation_id'[callbacks'[i]] = i
  BY <1>2, <1>6, <1>9
<1>12. \A u \in Tickers : ~is_ticking'[u] => animation_id'[u] = NoId
  BY <1>8, <1>9 DEF Agreed, NoStrayTick
<1> QED
  BY <1>2, <1>3, <1>4, <1>10, <1>11, <1>12
     DEF NoStrayTick, Agreed, CallbacksOfTheFrame, MapsShareNoId

(* A step that takes callbacks away and changes no ticker disturbs nothing. *)
LEMMA FewerCallbacksAgree ==
    ASSUME Agreed, UNCHANGED <<is_ticking, animation_id>>,
           \/ UNCHANGED transient_callbacks
           \/ transient_callbacks' = NoCallbacks,
           \/ UNCHANGED callbacks
           \/ callbacks' = NoCallbacks
           \/ callbacks' = transient_callbacks
    PROVE  NoStrayTick'
  BY EmptyMap, SMTT(30) DEF Agreed, NoStrayTick

LEMMA AgreedStep == Agreed /\ [Next]_vars => Agreed'
<1> SUFFICES ASSUME Agreed, [Next]_vars PROVE Agreed'
  OBVIOUS
<1>0. TypeOK' /\ liberties' \subseteq {Throws}
  BY TypeStep, LibertiesStay DEF Agreed
<1>1. RestartsItself \notin liberties /\ StopsOthers \notin liberties
  BY DEF Agreed, RestartsItself, StopsOthers, Throws
<1>2. ASSUME NEW t \in Tickers, Start(t) PROVE Agreed'
  <2>1. t # running /\ animation_id[t] = NoId /\ UNCHANGED running
    BY <1>1, <1>2 DEF Start, Agreed, NoStrayTick
  <2>2. TickInProgress'
    BY <1>2, <2>1 DEF Start, ScheduleTick, Agreed, TypeOK, TickInProgress
  <2> QED
    BY <1>0, <1>2, <2>1, <2>2, ScheduleTickAgrees DEF Start, Agreed
<1>3. ASSUME NEW t \in Tickers, Stop(t) PROVE Agreed'
  <2>1. is_ticking' = [is_ticking EXCEPT ![t] = FALSE] /\ UNCHANGED running
    BY <1>3 DEF Stop
  <2>2. animation_id' = [animation_id EXCEPT ![t] = NoId]
    BY <1>3 DEF Stop, Agreed, TypeOK
  <2>3. UNCHANGED <<callbacks, in_frame>>
    BY <1>3 DEF Stop, CancelAnimationFrame, scheduler
  <2>4. is_ticking \in [Tickers -> BOOLEAN] /\ animation_id \in [Tickers -> Ids \cup {NoId}]
    BY DEF Agreed, TypeOK
  <2>5. ASSUME NEW i \in DOMAIN callbacks PROVE callbacks[i] \in Tickers \ {t}
    <3>1. callbacks[i] \in Tickers /\ i \in Ids
      BY MapValues DEF Agreed, TypeOK
    <3>2. animation_id[callbacks[i]] = i
      BY DEF Agreed, NoStrayTick
    <3>3. ASSUME callbacks[i] = t PROVE FALSE
      <4>1. animation_id[t] \in DOMAIN callbacks
        BY <3>2, <3>3
      <4>2. t = running
        BY <1>1, <1>3, <4>1 DEF Stop
      <4> QED
        BY <3>1, <3>2, <3>3, <4>2, NoIdAssumption, TickerAssumption
           DEF Agreed, TickInProgress
    <3> QED
      BY <3>1, <3>3
  <2>6. ASSUME NEW i \in DOMAIN transient_callbacks'
        PROVE  /\ i \in DOMAIN transient_callbacks
               /\ transient_callbacks'[i] = transient_callbacks[i]
               /\ transient_callbacks[i] \in Tickers \ {t}
    <3>1. \A j \in DOMAIN transient_callbacks :
              /\ transient_callbacks[j] \in Tickers
              /\ j \in Ids
              /\ animation_id[transient_callbacks[j]] = j
      BY MapValues DEF Agreed, TypeOK, NoStrayTick
    <3>2. CASE CancelAnimationFrame(animation_id[t])
      <4>1. transient_callbacks' = Without(transient_callbacks, animation_id[t])
        BY <3>2 DEF CancelAnimationFrame
      <4>2. IsCallbackMap(transient_callbacks)
        BY DEF Agreed, TypeOK
      <4>3. /\ i \in DOMAIN transient_callbacks \ {animation_id[t]}
            /\ transient_callbacks'[i] = transient_callbacks[i]
        BY <4>1, <4>2, WithoutMap, Zenon
      <4> QED
        BY <3>1, <4>3
    <3>3. CASE animation_id[t] = NoId /\ UNCHANGED scheduler
      BY <3>1, <3>3, NoIdAssumption DEF scheduler
    <3> QED
      BY <1>3, <3>2, <3>3 DEF Stop
  <2>7. \A u \in Tickers \ {t} : is_ticking'[u] = is_ticking[u] /\ animation_id'[u] = animation_id[u]
    BY <2>1, <2>2, <2>4
  <2>8. animation_id'[t] = NoId
    BY <2>2, <2>4
  <2>9. \A i \in DOMAIN transient_callbacks' :
            is_ticking'[transient_callbacks'[i]] /\ animation_id'[transient_callbacks'[i]] = i
    BY <2>6, <2>7 DEF Agreed, NoStrayTick
  <2>10. \A i \in DOMAIN callbacks' :
             is_ticking'[callbacks'[i]] /\ animation_id'[callbacks'[i]] = i
    BY <2>3, <2>5, <2>7 DEF Agreed, NoStrayTick
  <2>11. \A u \in Tickers : ~is_ticking'[u] => animation_id'[u] = NoId
    BY <2>7, <2>8 DEF Agreed, NoStrayTick
  <2>12. TickInProgress'
    BY <2>1, <2>2, <2>4, TickerAssumption DEF Agreed, TypeOK, TickInProgress
  <2> QED
    BY <1>0, <2>3, <2>6, <2>9, <2>10, <2>11, <2>12
       DEF Agreed, NoStrayTick, CallbacksOfTheFrame, MapsShareNoId
<1>4. ASSUME NEW id \in Ids, RunTick(id) PROVE Agreed'
  <2> DEFINE t == callbacks[id]
  <2>1. /\ id \in DOMAIN callbacks
        /\ callbacks' = Without(callbacks, id)
        /\ UNCHANGED <<transient_callbacks, in_frame>>
        /\ in_frame
        /\ running' = t
        /\ animation_id' = [animation_id EXCEPT ![t] = NoId]
    BY <1>4 DEF RunTick, TakeCallback
  <2>2. PICK going_on \in BOOLEAN : is_ticking' = [is_ticking EXCEPT ![t] = going_on]
    BY <1>4, <2>1 DEF RunTick
  <2>3. /\ is_ticking \in [Tickers -> BOOLEAN]
        /\ animation_id \in [Tickers -> Ids \cup {NoId}]
        /\ t \in Tickers
    BY <2>1, MapValues DEF Agreed, TypeOK
  <2>4. \A u \in Tickers \ {t} : is_ticking'[u] = is_ticking[u] /\ animation_id'[u] = animation_id[u]
    BY <2>1, <2>2, <2>3
  <2>5. animation_id'[t] = NoId
    BY <2>1, <2>3
  <2>6. animation_id[t] = id
    BY <2>1 DEF Agreed, NoStrayTick
  <2>7. /\ DOMAIN callbacks' = DOMAIN callbacks \ {id}
        /\ \A i \in DOMAIN callbacks' : callbacks'[i] = callbacks[i]
    <3>1. IsCallbackMap(callbacks)
      BY DEF Agreed, TypeOK
    <3> QED
      BY <2>1, <3>1, WithoutMap, Zenon
  <2>8. ASSUME NEW i \in DOMAIN callbacks'
        PROVE  is_ticking'[callbacks'[i]] /\ animation_id'[callbacks'[i]] = i
    <3>1. i \in DOMAIN callbacks \ {id} /\ callbacks'[i] = callbacks[i]
      BY <2>7
    <3>2. callbacks[i] \in Tickers /\ is_ticking[callbacks[i]] /\ animation_id[callbacks[i]] = i
      BY <3>1, MapValues DEF Agreed, TypeOK, NoStrayTick
    <3> QED
      BY <2>4, <2>6, <3>1, <3>2
  <2>9. ASSUME NEW i \in DOMAIN transient_callbacks'
        PROVE  /\ is_ticking'[transient_callbacks'[i]]
               /\ animation_id'[transient_callbacks'[i]] = i
               /\ i \notin DOMAIN callbacks'
    <3>1. i \in DOMAIN transient_callbacks /\ transient_callbacks'[i] = transient_callbacks[i]
      BY <2>1
    <3>2. /\ transient_callbacks[i] \in Tickers
          /\ is_ticking[transient_callbacks[i]]
          /\ animation_id[transient_callbacks[i]] = i
      BY <3>1, MapValues DEF Agreed, TypeOK, NoStrayTick
    <3>3. i \notin DOMAIN callbacks
      BY <3>1 DEF Agreed, MapsShareNoId
    <3> QED
      BY <2>1, <2>4, <2>6, <2>7, <3>1, <3>2, <3>3
  <2>10. \A u \in Tickers : ~is_ticking'[u] => animation_id'[u] = NoId
    BY <2>4, <2>5 DEF Agreed, NoStrayTick
  <2> QED
    BY <1>0, <2>1, <2>5, <2>8, <2>9, <2>10
       DEF Agreed, NoStrayTick, TickInProgress, CallbacksOfTheFrame, MapsShareNoId
<1>5. ASSUME is_ticking' = is_ticking,
             animation_id' = animation_id,
             transient_callbacks' = transient_callbacks,
             running' = running \/ running' = NoTicker,
             \/ callbacks' = callbacks /\ in_frame' = in_frame
             \/ callbacks' = NoCallbacks
             \/ callbacks' = callbacks /\ DOMAIN callbacks = {}
      PROVE  Agreed'
  <2>1. NoStrayTick'
    BY <1>5, FewerCallbacksAgree
  <2>2. TickInProgress'
    BY <1>5 DEF Agreed, TickInProgress
  <2>3. CallbacksOfTheFrame' /\ MapsShareNoId'
    BY <1>5, EmptyMap DEF Agreed, CallbacksOfTheFrame, MapsShareNoId
  <2> QED
    BY <1>0, <2>1, <2>2, <2>3 DEF Agreed
<1>6. ASSUME NEW id \in Ids, RunTickAsserts(id) PROVE Agreed'
  BY <1>5, <1>6 DEF RunTickAsserts, Fail, AbortFrame
<1>7. ASSUME EndTick PROVE Agreed'
  <2>1. running \in Tickers /\ animation_id[running] = NoId
    BY <1>7 DEF EndTick, Agreed, TypeOK, TickInProgress
  <2>2. CASE is_ticking[running] /\ ScheduleTick(running) /\ running' = NoTicker
    <3>1. is_ticking' = [is_ticking EXCEPT ![running] = TRUE]
      <4>1. is_ticking \in [Tickers -> BOOLEAN]
        BY DEF Agreed, TypeOK
      <4> QED
        BY <1>7, <2>1, <2>2, <4>1 DEF EndTick
    <3> QED
      BY <1>0, <2>1, <2>2, <3>1, ScheduleTickAgrees DEF Agreed, TickInProgress
  <2>3. CASE ~is_ticking[running] /\ running' = NoTicker /\ UNCHANGED <<scheduler, animation_id>>
    BY <1>5, <1>7, <2>3 DEF EndTick, scheduler
  <2> QED
    BY <1>7, <2>1, <2>2, <2>3 DEF EndTick
<1>8. ASSUME ThrowInTick PROVE Agreed'
  BY <1>5, <1>8 DEF ThrowInTick, AbortFrame
<1>9. ASSUME BeginFrame, UNCHANGED tickers PROVE Agreed'
  <2>1. /\ callbacks' = transient_callbacks
        /\ transient_callbacks' = NoCallbacks
        /\ in_frame'
    BY <1>9, Zenon DEF BeginFrame
  <2>2. NoStrayTick'
    BY <1>9, <2>1, FewerCallbacksAgree DEF tickers
  <2> QED
    BY <1>0, <1>9, <2>1, <2>2, EmptyMap
       DEF Agreed, TickInProgress, CallbacksOfTheFrame, MapsShareNoId, tickers
<1>10. ASSUME EndFrame, UNCHANGED tickers PROVE Agreed'
  BY <1>5, <1>10 DEF EndFrame, tickers
<1>11. ASSUME NEW node \in Nodes, MarkNeeds(node), UNCHANGED tickers PROVE Agreed'
  BY <1>5, <1>11 DEF MarkNeeds, tickers
<1>12. CASE UNCHANGED vars
  BY <1>5, <1>12 DEF vars, scheduler, tickers
<1> QED
  BY <1>2, <1>3, <1>4, <1>6, <1>7, <1>8, <1>9, <1>10, <1>11, <1>12
     DEF Next, Frame, Program

(***************************************************************************)
(* In a program whose ticks neither restart their own ticker nor stop one  *)
(* that is due in the same frame, every registered callback belongs to a   *)
(* ticker that ticks and could cancel it (NoStrayTick), exceptions         *)
(* included.                                                               *)
(***************************************************************************)
THEOREM NoTickerTicksTwice == SafeSpec => []NoStrayTick
<1> DEFINE IfTame == liberties \subseteq {Throws} => Agreed
<1>1. Init => IfTame
  BY TypeInit, EmptyMap
     DEF Init, SchedulerInit, Agreed, NoStrayTick, TickInProgress,
         CallbacksOfTheFrame, MapsShareNoId
<1>2. IfTame /\ [Next]_vars => IfTame'
  BY AgreedStep, LibertiesStay
<1>3. IfTame => NoStrayTick
  BY DEF Agreed, NoStrayTick
<1> QED
  BY <1>1, <1>2, <1>3, PTL DEF SafeSpec

-----------------------------------------------------------------------------
(***************************************************************************)
(* Nothing asks for a frame but the first mark, so a frame that ends       *)
(* without the flush must be one in which something threw.                 *)
(***************************************************************************)
LEMMA DirtyStep == TypeOK /\ DirtyIsScheduled /\ [Next]_vars => DirtyIsScheduled'
<1>. SUFFICES ASSUME TypeOK, DirtyIsScheduled, [Next]_vars PROVE DirtyIsScheduled'
  OBVIOUS
<1>0. liberties' = liberties
  BY LibertiesStay
<1>1. ASSUME EnsureVisualUpdate PROVE DirtyIsScheduled'
  BY <1>1, Zenon DEF EnsureVisualUpdate, DirtyIsScheduled
<1>2. ASSUME UNCHANGED <<have_scheduled_visual_update, in_frame, dirty_nodes, failed>>
      PROVE  DirtyIsScheduled'
  BY <1>0, <1>2, Zenon DEF DirtyIsScheduled
<1>3. ASSUME NEW assertion \in {TickingAsserted, RegisteredAsserted, UnregisteredAsserted},
             Fail(assertion)
      PROVE  DirtyIsScheduled'
  <2>1. failed' # Nothing
    BY <1>3 DEF Fail, Nothing, TickingAsserted, RegisteredAsserted, UnregisteredAsserted
  <2>. QED  BY <2>1, Zenon DEF DirtyIsScheduled
<1>4. ASSUME NEW t \in Tickers, Start(t) PROVE DirtyIsScheduled'
  BY <1>1, <1>4 DEF Start, ScheduleTick, RequestAnimationFrame
<1>5. ASSUME NEW t \in Tickers, Stop(t) PROVE DirtyIsScheduled'
  BY <1>2, <1>5 DEF Stop, CancelAnimationFrame, scheduler
<1>6. ASSUME NEW id \in Ids, RunTick(id) PROVE DirtyIsScheduled'
  BY <1>2, <1>6 DEF RunTick, TakeCallback
<1>7. ASSUME NEW id \in Ids, RunTickAsserts(id) PROVE DirtyIsScheduled'
  BY <1>3, <1>7 DEF RunTickAsserts
<1>8. ASSUME EndTick PROVE DirtyIsScheduled'
  <2>1. \/ EnsureVisualUpdate
        \/ Fail(UnregisteredAsserted)
        \/ UNCHANGED <<scheduler, failed>>
    BY <1>8 DEF EndTick, ScheduleTick, RequestAnimationFrame
  <2>. QED  BY <1>1, <1>2, <1>3, <2>1 DEF scheduler
<1>9. ASSUME ThrowInTick PROVE DirtyIsScheduled'
  BY <1>0, <1>9, Zenon DEF ThrowInTick, DirtyIsScheduled
<1>10. ASSUME BeginFrame PROVE DirtyIsScheduled'
  BY <1>10, Zenon DEF BeginFrame, DirtyIsScheduled
<1>11. ASSUME EndFrame PROVE DirtyIsScheduled'
  BY <1>11, Zenon DEF EndFrame, DirtyIsScheduled
<1>12. ASSUME NEW node \in Nodes, MarkNeeds(node) PROVE DirtyIsScheduled'
  BY <1>1, <1>12 DEF MarkNeeds
<1>13. CASE UNCHANGED vars
  BY <1>2, <1>13 DEF vars, scheduler, tickers
<1>. QED  BY <1>4, <1>5, <1>6, <1>7, <1>8, <1>9, <1>10, <1>11, <1>12, <1>13
          DEF Next, Frame, Program

(***************************************************************************)
(* What is dirty has a frame to come (DirtyIsScheduled), as long as nothing *)
(* throws.                                                                 *)
(***************************************************************************)
THEOREM DirtyGetsPainted == SafeSpec => []DirtyIsScheduled
<1>1. Init => DirtyIsScheduled
  BY DEF Init, SchedulerInit, DirtyIsScheduled
<1>. QED  BY <1>1, TypeCorrect, DirtyStep, PTL DEF SafeSpec

-----------------------------------------------------------------------------
(* WithMap once more, without the type. *)
LEMMA EntriesWith ==
    ASSUME IsCallbackMap(transient_callbacks), NEW id \in Ids, NEW t \in Tickers
    PROVE  /\ DOMAIN With(transient_callbacks, id, t) = DOMAIN transient_callbacks \cup {id}
           /\ With(transient_callbacks, id, t)[id] = t
           /\ \A i \in DOMAIN transient_callbacks \ {id} :
                  With(transient_callbacks, id, t)[i] = transient_callbacks[i]
  BY DEF With

(***************************************************************************)
(* NoTickForgotten, of programs whose ticks take no liberties.  A ticker   *)
(* that ticks is the one that runs or is registered itself under its id:   *)
(* that another were registered there would not do, for it could be taken  *)
(* away.                                                                   *)
(***************************************************************************)
Registered(map, t) == animation_id[t] \in DOMAIN map /\ map[animation_id[t]] = t

EachIsRegistered ==
    \A t \in Tickers : is_ticking[t] =>
        t = running \/ Registered(transient_callbacks, t) \/ Registered(callbacks, t)

Remembered == liberties = {} /\ Agreed /\ EachIsRegistered

LEMMA RememberedStep == Remembered /\ [Next]_vars => Remembered'
<1>. SUFFICES ASSUME Remembered, [Next]_vars PROVE Remembered'
  OBVIOUS
<1>0. liberties' = {} /\ Agreed'
  BY LibertiesStay, AgreedStep DEF Remembered
<1>1. /\ is_ticking \in [Tickers -> BOOLEAN]
      /\ animation_id \in [Tickers -> Ids \cup {NoId}]
      /\ IsCallbackMap(transient_callbacks)
      /\ IsCallbackMap(callbacks)
      /\ NoStrayTick /\ TickInProgress /\ MapsShareNoId
      /\ EachIsRegistered
      /\ liberties = {}
      /\ liberties \subseteq {Throws}
  BY DEF Remembered, Agreed, TypeOK
<1>2. ASSUME UNCHANGED <<is_ticking, animation_id, running, transient_callbacks, callbacks>>
      PROVE  EachIsRegistered'
  BY <1>1, <1>2 DEF EachIsRegistered, Registered
<1>3. ASSUME NEW t \in Tickers, ScheduleTick(t),
             \A u \in Tickers \ {t} : is_ticking'[u] => is_ticking[u] /\ (u = running => u = running')
      PROVE  EachIsRegistered'
  <2>1. PICK id \in Ids \ UsedIds : /\ animation_id' = [animation_id EXCEPT ![t] = id]
                                    /\ RequestAnimationFrame(id, t)
    BY <1>3 DEF ScheduleTick
  <2>2. /\ transient_callbacks' = With(transient_callbacks, id, t)
        /\ callbacks' = callbacks
    BY <2>1 DEF RequestAnimationFrame
  <2>3. /\ DOMAIN transient_callbacks' = DOMAIN transient_callbacks \cup {id}
        /\ transient_callbacks'[id] = t
        /\ \A i \in DOMAIN transient_callbacks \ {id} :
               transient_callbacks'[i] = transient_callbacks[i]
    <3>1. /\ DOMAIN With(transient_callbacks, id, t) = DOMAIN transient_callbacks \cup {id}
          /\ With(transient_callbacks, id, t)[id] = t
          /\ \A i \in DOMAIN transient_callbacks \ {id} :
                 With(transient_callbacks, id, t)[i] = transient_callbacks[i]
      BY <1>1, EntriesWith
    <3>. QED  BY <2>2, <3>1, Zenon
  <2>4. id \notin DOMAIN transient_callbacks
    BY DEF UsedIds
  <2>5. animation_id'[t] = id /\ \A u \in Tickers \ {t} : animation_id'[u] = animation_id[u]
    BY <1>1, <2>1
  <2>6. Registered(transient_callbacks, t)'
    BY <2>3, <2>5 DEF Registered
  <2>7. ASSUME NEW u \in Tickers \ {t}
        PROVE  /\ Registered(transient_callbacks, u) => Registered(transient_callbacks, u)'
               /\ Registered(callbacks, u) => Registered(callbacks, u)'
    BY <2>2, <2>3, <2>4, <2>5 DEF Registered
  <2>. QED  BY <1>1, <1>3, <2>6, <2>7 DEF EachIsRegistered
<1>4. ASSUME NEW t \in Tickers, Start(t) PROVE EachIsRegistered'
  <2>1. /\ is_ticking' = [is_ticking EXCEPT ![t] = TRUE]
        /\ running' = running
        /\ ScheduleTick(t)
    BY <1>4 DEF Start
  <2>. QED  BY <1>1, <1>3, <2>1
<1>5. ASSUME NEW t \in Tickers, Stop(t) PROVE EachIsRegistered'
  <2>1. is_ticking[t] /\ is_ticking' = [is_ticking EXCEPT ![t] = FALSE] /\ running' = running
    BY <1>5 DEF Stop
  <2>2. callbacks' = callbacks
    BY <1>5 DEF Stop, CancelAnimationFrame, scheduler
  <2>3. animation_id' = [animation_id EXCEPT ![t] = NoId]
    BY <1>1, <1>5 DEF Stop
  <2>4. ASSUME NEW i \in DOMAIN transient_callbacks, i # animation_id[t]
        PROVE  i \in DOMAIN transient_callbacks' /\ transient_callbacks'[i] = transient_callbacks[i]
    <3>1. CASE CancelAnimationFrame(animation_id[t])
      <4>1. /\ DOMAIN Without(transient_callbacks, animation_id[t])
                    = DOMAIN transient_callbacks \ {animation_id[t]}
            /\ \A j \in DOMAIN transient_callbacks \ {animation_id[t]} :
                   Without(transient_callbacks, animation_id[t])[j] = transient_callbacks[j]
        BY <1>1, WithoutMap, Zenon
      <4>2. transient_callbacks' = Without(transient_callbacks, animation_id[t])
        BY <3>1 DEF CancelAnimationFrame
      <4>3. i \in DOMAIN transient_callbacks \ {animation_id[t]}
        BY <2>4
      <4>. QED  BY <4>1, <4>2, <4>3, Zenon
    <3>2. CASE UNCHANGED scheduler
      BY <3>2 DEF scheduler
    <3>. QED  BY <1>5, <3>1, <3>2 DEF Stop
  <2>5. ASSUME NEW u \in Tickers \ {t}, Registered(transient_callbacks, u)
        PROVE  Registered(transient_callbacks, u)'
    <3>1. animation_id[u] \in DOMAIN transient_callbacks /\ transient_callbacks[animation_id[u]] = u
      BY <2>5 DEF Registered
    <3>2. animation_id[u] \in Ids
      BY <1>1, <3>1, MapValues
    <3>3. animation_id[u] # animation_id[t]
      <4>1. CASE t = running
        BY <1>1, <3>2, <4>1, NoIdAssumption, TickerAssumption DEF TickInProgress
      <4>2. CASE Registered(transient_callbacks, t)
        BY <3>1, <4>2 DEF Registered
      <4>3. CASE Registered(callbacks, t)
        BY <1>1, <3>1, <4>3 DEF Registered, MapsShareNoId
      <4>. QED  BY <1>1, <2>1, <4>1, <4>2, <4>3 DEF EachIsRegistered
    <3>. QED  BY <1>1, <2>3, <2>4, <3>1, <3>3 DEF Registered
  <2>6. ASSUME NEW u \in Tickers \ {t}, Registered(callbacks, u)
        PROVE  Registered(callbacks, u)'
    BY <1>1, <2>2, <2>3, <2>6 DEF Registered
  <2>. QED  BY <1>1, <2>1, <2>5, <2>6 DEF EachIsRegistered
<1>6. ASSUME NEW id \in Ids, RunTick(id) PROVE EachIsRegistered'
  <2>. DEFINE t == callbacks[id]
  <2>1. /\ id \in DOMAIN callbacks
        /\ callbacks' = Without(callbacks, id)
        /\ transient_callbacks' = transient_callbacks
        /\ running = NoTicker
        /\ running' = t
        /\ animation_id' = [animation_id EXCEPT ![t] = NoId]
    BY <1>6 DEF RunTick, TakeCallback
  <2>2. PICK going_on \in BOOLEAN : is_ticking' = [is_ticking EXCEPT ![t] = going_on]
    BY <1>6, <2>1 DEF RunTick
  <2>3. /\ DOMAIN callbacks' = DOMAIN callbacks \ {id}
        /\ \A i \in DOMAIN callbacks \ {id} : callbacks'[i] = callbacks[i]
    BY <1>1, <2>1, WithoutMap
  <2>4. \A u \in Tickers \ {t} : is_ticking'[u] = is_ticking[u] /\ animation_id'[u] = animation_id[u]
    BY <1>1, <2>1, <2>2
  <2>5. ASSUME NEW u \in Tickers \ {t}
        PROVE  /\ Registered(transient_callbacks, u) => Registered(transient_callbacks, u)'
               /\ Registered(callbacks, u) => Registered(callbacks, u)'
    BY <2>1, <2>3, <2>4 DEF Registered
  <2>. QED  BY <1>1, <2>1, <2>4, <2>5, TickerAssumption DEF EachIsRegistered
<1>7. ASSUME NEW id \in Ids, RunTickAsserts(id) PROVE FALSE
  <2>1. id \in DOMAIN callbacks
    BY <1>7 DEF RunTickAsserts
  <2>2. is_ticking[callbacks[id]] /\ animation_id[callbacks[id]] = id
    BY <1>1, <2>1 DEF NoStrayTick
  <2>. QED  BY <1>7, <2>2, NoIdAssumption DEF RunTickAsserts
<1>8. ASSUME EndTick PROVE EachIsRegistered'
  <2>1. running \in Tickers /\ animation_id[running] = NoId /\ running' = NoTicker
    BY <1>1, <1>8 DEF EndTick, Remembered, Agreed, TypeOK, TickInProgress, Fail
  <2>2. UNCHANGED is_ticking
    BY <1>8 DEF EndTick
  <2>3. CASE ScheduleTick(running)
    <3>1. \A u \in Tickers \ {running} :
              is_ticking'[u] => is_ticking[u] /\ (u = running => u = running')
      BY <2>2
    <3>. QED  BY <1>3, <2>1, <2>3, <3>1
  <2>4. CASE ~is_ticking[running] /\ UNCHANGED <<scheduler, animation_id>>
    BY <1>1, <2>2, <2>4 DEF EachIsRegistered, Registered, scheduler
  <2>. QED  BY <1>8, <2>1, <2>3, <2>4 DEF EndTick
<1>9. ASSUME ThrowInTick PROVE FALSE
  BY <1>1, <1>9 DEF ThrowInTick
<1>10. ASSUME BeginFrame, UNCHANGED tickers PROVE EachIsRegistered'
  <2>1. callbacks' = transient_callbacks /\ DOMAIN callbacks = {}
    BY <1>10, Zenon DEF BeginFrame, Remembered, Agreed, CallbacksOfTheFrame
  <2>. QED  BY <1>1, <1>10, <2>1 DEF EachIsRegistered, Registered, tickers
<1>11. ASSUME EndFrame, UNCHANGED tickers PROVE EachIsRegistered'
  BY <1>2, <1>11 DEF EndFrame, tickers
<1>12. ASSUME NEW node \in Nodes, MarkNeeds(node), UNCHANGED tickers PROVE EachIsRegistered'
  BY <1>2, <1>12 DEF MarkNeeds, tickers
<1>13. ASSUME UNCHANGED vars PROVE EachIsRegistered'
  BY <1>2, <1>13 DEF vars, scheduler, tickers
<1>14. EachIsRegistered'
  BY <1>4, <1>5, <1>6, <1>7, <1>8, <1>9, <1>10, <1>11, <1>12, <1>13 DEF Next, Frame, Program
<1>. QED  BY <1>0, <1>14 DEF Remembered

(***************************************************************************)
(* In a program whose ticks take no liberties every ticker that ticks has  *)
(* a tick to come or is in it (NoTickForgotten).                           *)
(***************************************************************************)
THEOREM EveryTickerGetsTicks == SafeSpec => []NoTickForgotten
<1>. DEFINE IfTame == liberties = {} => Remembered
<1>1. Init => IfTame
  <2>1. Init /\ liberties = {} => Agreed
    BY TypeInit, EmptyMap
       DEF Init, SchedulerInit, Agreed, NoStrayTick, TickInProgress,
           CallbacksOfTheFrame, MapsShareNoId
  <2>. QED  BY <2>1 DEF Init, Remembered, EachIsRegistered
<1>2. IfTame /\ [Next]_vars => IfTame'
  BY RememberedStep, LibertiesStay
<1>3. IfTame => NoTickForgotten
  BY DEF Remembered, EachIsRegistered, Registered, NoTickForgotten
<1>. QED  BY <1>1, <1>2, <1>3, PTL DEF SafeSpec
=============================================================================
