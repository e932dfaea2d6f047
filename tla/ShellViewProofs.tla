--------------------------- MODULE ShellViewProofs ---------------------------
(***************************************************************************)
(* Proofs about ShellView for any windows, sizes and bounds.               *)
(***************************************************************************)
EXTENDS ShellView, FiniteSetTheorems, TLAPS

-----------------------------------------------------------------------------
(* How posting and taking a task change what a loop carries. *)

LEMMA PostOther ==
    ASSUME NEW T, NEW loop \in Seq(T), NEW t \in T, t.method \notin FrameMethods
    PROVE  /\ CarriesFrame(Append(loop, t)) <=> CarriesFrame(loop)
           /\ AtMostOneFrame(loop) => AtMostOneFrame(Append(loop, t))
<1>1. /\ Len(Append(loop, t)) = Len(loop) + 1
      /\ \A i \in 1 .. Len(loop) : Append(loop, t)[i] = loop[i]
      /\ Append(loop, t)[Len(loop) + 1] = t
      /\ DOMAIN Append(loop, t) = 1 .. Len(loop) + 1
      /\ DOMAIN loop = 1 .. Len(loop)
      /\ Len(loop) \in Nat
  OBVIOUS
<1>2. CarriesFrame(Append(loop, t)) <=> CarriesFrame(loop)
  BY <1>1 DEF CarriesFrame
<1>3. AtMostOneFrame(loop) => AtMostOneFrame(Append(loop, t))
  BY <1>1 DEF AtMostOneFrame
<1>4. QED
  BY <1>2, <1>3

LEMMA PostFrame ==
    ASSUME NEW T, NEW loop \in Seq(T), NEW t \in T, t.method \in FrameMethods
    PROVE  /\ CarriesFrame(Append(loop, t))
           /\ ~CarriesFrame(loop) => AtMostOneFrame(Append(loop, t))
<1>1. /\ Len(Append(loop, t)) = Len(loop) + 1
      /\ \A i \in 1 .. Len(loop) : Append(loop, t)[i] = loop[i]
      /\ Append(loop, t)[Len(loop) + 1] = t
      /\ DOMAIN Append(loop, t) = 1 .. Len(loop) + 1
      /\ DOMAIN loop = 1 .. Len(loop)
      /\ Len(loop) \in Nat
  OBVIOUS
<1>2. CarriesFrame(Append(loop, t))
  BY <1>1 DEF CarriesFrame
<1>3. ~CarriesFrame(loop) => AtMostOneFrame(Append(loop, t))
  BY <1>1 DEF CarriesFrame, AtMostOneFrame
<1>4. QED
  BY <1>2, <1>3

LEMMA TakeTask ==
    ASSUME NEW T, NEW loop \in Seq(T), loop # <<>>
    PROVE  /\ Tail(loop) \in Seq(T)
           /\ Head(loop) \in T
           /\ AtMostOneFrame(loop) => AtMostOneFrame(Tail(loop))
           /\ CarriesFrame(Tail(loop)) => CarriesFrame(loop)
           /\ Head(loop).method \notin FrameMethods =>
                  (CarriesFrame(Tail(loop)) <=> CarriesFrame(loop))
           /\ Head(loop).method \in FrameMethods /\ AtMostOneFrame(loop) =>
                  CarriesFrame(loop) /\ ~CarriesFrame(Tail(loop))
<1>1. /\ Tail(loop) \in Seq(T)
      /\ Head(loop) = loop[1]
      /\ Head(loop) \in T
      /\ Len(loop) \in Nat \ {0}
      /\ DOMAIN loop = 1 .. Len(loop)
      /\ DOMAIN Tail(loop) = 1 .. Len(loop) - 1
      /\ \A i \in 1 .. Len(loop) - 1 : Tail(loop)[i] = loop[i + 1]
  OBVIOUS
<1>2. AtMostOneFrame(loop) => AtMostOneFrame(Tail(loop))
  BY <1>1 DEF AtMostOneFrame
<1>3. CarriesFrame(Tail(loop)) => CarriesFrame(loop)
  BY <1>1 DEF CarriesFrame
<1>4. ASSUME Head(loop).method \notin FrameMethods, CarriesFrame(loop)
      PROVE  CarriesFrame(Tail(loop))
  <2>1. PICK i \in DOMAIN loop : loop[i].method \in FrameMethods
    BY <1>4 DEF CarriesFrame
  <2>2. i - 1 \in DOMAIN Tail(loop) /\ Tail(loop)[i - 1] = loop[i]
    BY <1>1, <1>4, <2>1
  <2>3. QED
    BY <2>1, <2>2 DEF CarriesFrame
<1>5. ASSUME Head(loop).method \in FrameMethods, AtMostOneFrame(loop)
      PROVE  CarriesFrame(loop) /\ ~CarriesFrame(Tail(loop))
  <2>1. CarriesFrame(loop)
    BY <1>1, <1>5 DEF CarriesFrame
  <2>2. ~CarriesFrame(Tail(loop))
    <3>1. SUFFICES ASSUME NEW i \in DOMAIN Tail(loop),
                          Tail(loop)[i].method \in FrameMethods
                   PROVE  FALSE
      BY DEF CarriesFrame
    <3>2. i + 1 \in DOMAIN loop /\ 1 \in DOMAIN loop /\ i + 1 # 1
      BY <1>1
    <3>3. loop[i + 1].method \in FrameMethods /\ loop[1].method \in FrameMethods
      BY <1>1, <1>5, <3>1
    <3>4. QED
      BY <1>5, <3>2, <3>3 DEF AtMostOneFrame
  <2>3. QED
    BY <2>1, <2>2
<1>6. QED
  BY <1>1, <1>2, <1>3, <1>4, <1>5

-----------------------------------------------------------------------------
(* Type correctness *)

(* A request posts at most a BeginFrame task. *)
LEMMA RequestFrameType ==
    ASSUME TypeOK, NEW rest \in Seq(UITasks), RequestFrame(rest)
    PROVE  /\ ui_loop' \in Seq(UITasks)
           /\ engine_requested_frame' \in BOOLEAN
           /\ frame_in_progress' \in BOOLEAN
<1>1. BeginFrameTask \in UITasks
  BY DEF BeginFrameTask, Task, UITasks
<1>2. Append(rest, BeginFrameTask) \in Seq(UITasks)
  BY <1>1
<1>3. QED
  BY <1>2 DEF RequestFrame, TypeOK

(* A frame task of the animator leaves typed loops behind. *)
LEMMA FrameType ==
    ASSUME TypeOK, NEW rest \in Seq(UITasks), NEW again \in BOOLEAN,
           BeginFrame(rest, again, physical_size)
               \/ OnFrameComplete(rest, again, physical_size),
           FrameEffect(again)
    PROVE  TypeOK'
<1>1. DrawTask(physical_size) \in GPUTasks
  BY DEF DrawTask, Task, GPUTasks, TypeOK
<1>2. Append(gpu_loop, DrawTask(physical_size)) \in Seq(GPUTasks)
  BY <1>1 DEF TypeOK
<1>3. /\ ui_loop' = rest
      /\ gpu_loop' \in Seq(GPUTasks)
      /\ engine_requested_frame' \in BOOLEAN
      /\ frame_in_progress' \in BOOLEAN
      /\ frame' \in {0, 1}
  <2>1. engine_requested_frame' \in BOOLEAN /\ frame_in_progress' \in BOOLEAN
    BY Zenon DEF BeginFrame, OnFrameComplete, ProduceFrame, TypeOK
  <2>2. frame \in {0, 1} /\ gpu_loop \in Seq(GPUTasks)
    BY DEF TypeOK
  <2>3. ui_loop' = rest /\ gpu_loop' \in Seq(GPUTasks)
    BY <1>2, <2>2, Zenon DEF BeginFrame, OnFrameComplete, ProduceFrame
  <2>4. frame' = frame \/ frame' = 1 - frame
    BY Zenon DEF BeginFrame, OnFrameComplete, ProduceFrame
  <2>5. QED
    BY <2>1, <2>2, <2>3, <2>4
<1>4. have_scheduled_visual_update' \in BOOLEAN
  BY DEF FrameEffect, EngineBeginFrame, TypeOK
<1>5. UNCHANGED <<paused, engine_alive, activity_running, have_surface, physical_size,
                  sky_view, bound, rasterizer, abort, platform, engine_pipe,
                  rasterizer_alive>>
  BY DEF FrameEffect, OutsideEngine
<1>6. QED
  BY <1>3, <1>4, <1>5 DEF TypeOK, rasterizer, platform

(***************************************************************************)
(* Every variable keeps its type, whatever the platform, the program and   *)
(* the loops of the shell (sky/shell) do.                                  *)
(***************************************************************************)
THEOREM TypeCorrect == SafeSpec => []TypeOK
<1>1. Init => TypeOK
  <2> SUFFICES ASSUME Init PROVE TypeOK
    OBVIOUS
  <2>1. /\ ui_loop \in Seq(UITasks)
        /\ gpu_loop \in Seq(GPUTasks)
        /\ engine_pipe \in Seq(EngineMessages)
    BY DEF Init, Task, UITasks
  <2>2. QED
    BY <2>1 DEF Init, EngineInit, AnimatorInit, RasterizerInit, TypeOK
<1>2. TypeOK /\ [Next]_vars => TypeOK'
  <2> SUFFICES ASSUME TypeOK, [Next]_vars PROVE TypeOK'
    OBVIOUS
  <2>0. /\ ui_loop # <<>> => Tail(ui_loop) \in Seq(UITasks) /\ Head(ui_loop) \in UITasks
        /\ gpu_loop # <<>> => Tail(gpu_loop) \in Seq(GPUTasks) /\ Head(gpu_loop) \in GPUTasks
        /\ engine_pipe # <<>> => /\ Tail(engine_pipe) \in Seq(EngineMessages)
                                /\ Head(engine_pipe) \in EngineMessages
    BY DEF TypeOK
  <2>1. CASE SurfaceCreated
    <3>1. PICK w \in Windows :
              /\ window' = w
              /\ ui_loop' = Append(ui_loop, Task("Engine::OnAcceleratedWidgetAvailable", w))
      BY <2>1 DEF SurfaceCreated
    <3>2. Task("Engine::OnAcceleratedWidgetAvailable", w) \in UITasks
      BY DEF Task, UITasks
    <3>3. ui_loop' \in Seq(UITasks)
      BY <3>1, <3>2 DEF TypeOK
    <3>4. QED
      BY <2>1, <3>1, <3>3 DEF SurfaceCreated, TypeOK, animator, engine, rasterizer
  <2>2. CASE SurfaceDestroyed
    <3>1. Task("Engine::OnOutputSurfaceDestroyed", NoArg) \in UITasks
      BY DEF Task, UITasks
    <3>2. ui_loop' \in Seq(UITasks)
      BY <2>2, <3>1 DEF SurfaceDestroyed, TypeOK
    <3>3. QED
      BY <2>2, <3>2 DEF SurfaceDestroyed, TypeOK, animator, engine, rasterizer
  <2>3. CASE Detach
    <3>1. Task("Drop<Engine>", NoArg) \in UITasks /\ Task("Drop<Rasterizer>", NoArg) \in GPUTasks
      BY DEF Task, UITasks, GPUTasks
    <3>2. ui_loop' \in Seq(UITasks) /\ gpu_loop' \in Seq(GPUTasks)
      BY <2>3, <3>1 DEF Detach, TypeOK
    <3>3. attached' \in BOOLEAN
      BY <2>3, Zenon DEF Detach
    <3>4. QED
      BY <2>3, <3>2, <3>3 DEF Detach, TypeOK, animator, engine, rasterizer
  <2>4. CASE SendActivityChange \/ SendMetrics \/ SendRun
    <3>1. PICK message \in EngineMessages :
              SendToEngine(message) /\ resumed' \in BOOLEAN
      <4>1. CASE SendActivityChange
        BY <4>1 DEF SendActivityChange, EngineMessages, Task, TypeOK
      <4>2. CASE SendMetrics
        BY <4>2 DEF SendMetrics, EngineMessages, Task, TypeOK
      <4>3. CASE SendRun
        BY <4>3 DEF SendRun, EngineMessages, Task, TypeOK
      <4>4. QED
        BY <2>4, <4>1, <4>2, <4>3
    <3>2. engine_pipe' \in Seq(EngineMessages)
      BY <3>1 DEF SendToEngine, TypeOK
    <3>3. QED
      BY <3>1, <3>2 DEF SendToEngine, TypeOK, animator, engine, rasterizer
  <2>5. CASE RunConnectToEngine
    BY <2>0, <2>5 DEF RunConnectToEngine, AtHead, OutsideEngine, TypeOK, animator, engine,
                      rasterizer, platform
  <2>6. CASE RunWidgetAvailable
    <3> DEFINE w == Head(ui_loop).arg
    <3>1. w \in Windows /\ Tail(ui_loop) \in Seq(UITasks)
      BY <2>0, <2>6 DEF RunWidgetAvailable, AtHead, UITasks
    <3>2. Task("Rasterizer::OnAcceleratedWidgetAvailable", w) \in GPUTasks
      BY <3>1 DEF Task, GPUTasks
    <3>3. gpu_loop' \in Seq(GPUTasks)
      BY <2>6, <3>2 DEF RunWidgetAvailable, OnAcceleratedWidgetAvailable, TypeOK
    <3>4. /\ ui_loop' \in Seq(UITasks)
          /\ engine_requested_frame' \in BOOLEAN
          /\ frame_in_progress' \in BOOLEAN
          /\ paused' \in BOOLEAN
          /\ frame' \in {0, 1}
      BY <2>6, <3>1, RequestFrameType
         DEF RunWidgetAvailable, OnAcceleratedWidgetAvailable, Start, TypeOK, animator
    <3>5. QED
      BY <2>6, <3>3, <3>4 DEF RunWidgetAvailable, OnAcceleratedWidgetAvailable,
                              OutsideEngine, TypeOK, rasterizer, platform
  <2>7. CASE RunOutputSurfaceDestroyed
    <3>1. Task("Rasterizer::OnOutputSurfaceDestroyed", NoArg) \in GPUTasks
      BY DEF Task, GPUTasks
    <3>2. gpu_loop' \in Seq(GPUTasks) /\ ui_loop' \in Seq(UITasks)
      BY <2>0, <2>7, <3>1 DEF RunOutputSurfaceDestroyed, OnOutputSurfaceDestroyed, AtHead, TypeOK
    <3>3. have_surface' \in BOOLEAN /\ paused' \in BOOLEAN /\ engine_requested_frame' \in BOOLEAN
      BY <2>7, Zenon DEF RunOutputSurfaceDestroyed, OnOutputSurfaceDestroyed, Stop
    <3>4. QED
      BY <2>7, <3>2, <3>3 DEF RunOutputSurfaceDestroyed, OnOutputSurfaceDestroyed, Stop,
                        OutsideEngine, TypeOK, rasterizer, platform
  <2>8. CASE RunBeginFrame
    BY <2>0, <2>8, FrameType DEF RunBeginFrame, AtHead
  <2>9. CASE RunOnFrameComplete
    BY <2>0, <2>9, FrameType DEF RunOnFrameComplete, AtHead
  <2>10. CASE DropEngine
    <3>1. engine_alive' \in BOOLEAN
      BY <2>10, Zenon DEF DropEngine
    <3>2. QED
      BY <2>0, <2>10, <3>1 DEF DropEngine, AtHead, OutsideEngine, TypeOK, animator, engine,
                               rasterizer, platform
  <2>11. CASE SkipUITask
    BY <2>0, <2>11 DEF SkipUITask, OutsideEngine, TypeOK, animator, engine, rasterizer, platform
  <2>12. CASE DeliverMessage
    <3>1. /\ engine_pipe # <<>>
          /\ engine_pipe' = Tail(engine_pipe)
          /\ UNCHANGED <<engine_alive, rasterizer, abort, platform, bound, rasterizer_alive>>
      BY <2>12 DEF DeliverMessage
    <3>2. CASE OnActivityPaused
      <4>1. /\ activity_running' \in BOOLEAN
            /\ paused' \in BOOLEAN
            /\ engine_requested_frame' \in BOOLEAN
        BY <3>2, Zenon DEF OnActivityPaused, Stop
      <4>2. QED
        BY <2>0, <3>1, <3>2, <4>1 DEF OnActivityPaused, Stop, TypeOK, rasterizer, platform
    <3>3. CASE OnActivityResumed
      <4>1. /\ ui_loop' \in Seq(UITasks)
            /\ engine_requested_frame' \in BOOLEAN
            /\ frame_in_progress' \in BOOLEAN
            /\ paused' \in BOOLEAN
            /\ frame' \in {0, 1}
        <5>1. ui_loop \in Seq(UITasks)
          BY DEF TypeOK
        <5>2. QED
          BY <3>3, <5>1, RequestFrameType DEF OnActivityResumed, Start, TypeOK, animator
      <4>2. QED
        BY <2>0, <3>1, <3>3, <4>1 DEF OnActivityResumed, TypeOK, rasterizer, platform
    <3>4. CASE AtHead(engine_pipe, "OnViewportMetricsChanged")
               /\ OnViewportMetricsChanged(Head(engine_pipe).arg)
      <4>1. Head(engine_pipe).arg \in Sizes \cup {EmptySize}
        BY <2>0, <3>4 DEF AtHead, EngineMessages
      <4>2. QED
        BY <2>0, <3>1, <3>4, <4>1 DEF OnViewportMetricsChanged, TypeOK, animator, rasterizer, platform
    <3>5. CASE RunProgram
      <4>1. have_scheduled_visual_update' \in BOOLEAN
        BY <3>5, Zenon DEF RunProgram
      <4>2. QED
        BY <2>0, <3>1, <3>5, <4>1 DEF RunProgram, TypeOK, animator, rasterizer, platform
    <3>6. QED
      BY <2>12, <3>2, <3>3, <3>4, <3>5 DEF DeliverMessage
  <2>13. CASE RunDart
    <3>1. CASE DartMain
      BY <2>13, <3>1 DEF RunDart, DartMain, OutsideEngine, TypeOK, animator, rasterizer, platform
    <3>2. CASE EnsureVisualUpdate
      <4>1. ui_loop \in Seq(UITasks)
        BY DEF TypeOK
      <4>2. /\ ui_loop' \in Seq(UITasks)
            /\ engine_requested_frame' \in BOOLEAN
            /\ frame_in_progress' \in BOOLEAN
        BY <3>2, <4>1, RequestFrameType DEF EnsureVisualUpdate
      <4>3. QED
        BY <2>13, <3>2, <4>2 DEF RunDart, EnsureVisualUpdate, OutsideEngine, TypeOK,
                                 rasterizer, platform
    <3>3. QED
      BY <2>13, <3>1, <3>2 DEF RunDart
  <2>14. CASE RunCreateSurface
    <3>1. Head(gpu_loop).arg \in Windows
      BY <2>0, <2>14 DEF RunCreateSurface, AtHead, GPUTasks
    <3>2. /\ surface' \in Windows \cup {NoWindow}
          /\ abort' \in {Running, GLSurfaceRequired, NoContext}
          /\ UNCHANGED <<context, ganesh_surface>>
      BY <2>14, <3>1 DEF RunCreateSurface, CreateSurface, TypeOK
    <3>3. QED
      BY <2>0, <2>14, <3>2 DEF RunCreateSurface, AtHead, OutsideRasterizer, TypeOK, animator,
                               engine, platform
  <2>15. CASE RunDraw
    <3>1. Head(gpu_loop).arg \in Sizes \cup {EmptySize}
      BY <2>0, <2>15 DEF RunDraw, AtHead, GPUTasks
    <3>2. FrameCompleteTask \in UITasks
      BY DEF FrameCompleteTask, Task, UITasks
    <3>3. ui_loop' \in Seq(UITasks)
      BY <2>15, <3>2 DEF RunDraw, TypeOK
    <3>4. /\ surface' \in Windows \cup {NoWindow}
          /\ context' \in BOOLEAN
          /\ ganesh_surface' \in Sizes \cup {EmptySize}
          /\ abort' \in {Running, GLSurfaceRequired, NoContext}
      BY <2>15, <3>1 DEF RunDraw, Draw, TypeOK, rasterizer
    <3>5. QED
      BY <2>0, <2>15, <3>3, <3>4 DEF RunDraw, AtHead, OutsideRasterizer, TypeOK, animator,
                                     engine, platform
  <2>16. CASE RunDestroySurface
    <3>1. context' \in BOOLEAN
      BY <2>16, Zenon DEF RunDestroySurface, DestroySurface, TypeOK, rasterizer
    <3>2. QED
      BY <2>0, <2>16, <3>1 DEF RunDestroySurface, DestroySurface, AtHead, OutsideRasterizer,
                               TypeOK, animator, engine, rasterizer, platform
  <2>17. CASE DropRasterizer
    <3>1. rasterizer_alive' \in BOOLEAN
      BY <2>17, Zenon DEF DropRasterizer
    <3>2. QED
      BY <2>0, <2>17, <3>1 DEF DropRasterizer, AtHead, TypeOK, animator, engine, rasterizer,
                               platform
  <2>18. CASE SkipGPUTask
    BY <2>0, <2>18 DEF SkipGPUTask, OutsideRasterizer, TypeOK, animator, engine, rasterizer,
                       platform
  <2>19. CASE UNCHANGED vars
    BY <2>19 DEF vars, TypeOK, animator, engine, rasterizer, platform
  <2>20. QED
    BY <2>1, <2>2, <2>3, <2>4, <2>5, <2>6, <2>7, <2>8, <2>9, <2>10, <2>11, <2>12, <2>13,
       <2>14, <2>15, <2>16, <2>17, <2>18, <2>19
       DEF Next, PlatformThread, UILoop, GPULoop
<1>3. QED
  BY <1>1, <1>2, PTL DEF SafeSpec

-----------------------------------------------------------------------------
(* One task carries the frame *)

(* A request posts BeginFrame only if nothing carries a frame yet. *)
LEMMA RequestFrameCarries ==
    ASSUME NEW rest \in Seq(UITasks),
           AtMostOneFrame(rest),
           ~(CarriesFrame(rest) /\ CarriesFrame(gpu_loop)),
           frame_in_progress \in BOOLEAN,
           frame_in_progress <=> CarriesFrame(rest) \/ CarriesFrame(gpu_loop),
           RequestFrame(rest)
    PROVE  /\ AtMostOneFrame(ui_loop')
           /\ ~(CarriesFrame(ui_loop') /\ CarriesFrame(gpu_loop))
           /\ frame_in_progress' <=> CarriesFrame(ui_loop') \/ CarriesFrame(gpu_loop)
<1>1. BeginFrameTask \in UITasks /\ BeginFrameTask.method \in FrameMethods
  BY DEF BeginFrameTask, Task, UITasks, FrameMethods
<1>2. /\ CarriesFrame(Append(rest, BeginFrameTask))
      /\ ~CarriesFrame(rest) => AtMostOneFrame(Append(rest, BeginFrameTask))
  BY <1>1, PostFrame, Zenon
<1>3. CASE engine_requested_frame
  BY <1>3, Zenon DEF RequestFrame
<1>4. CASE ~engine_requested_frame /\ frame_in_progress
  BY <1>4, Zenon DEF RequestFrame
<1>5. CASE ~engine_requested_frame /\ ~frame_in_progress
  BY <1>2, <1>5, Zenon DEF RequestFrame
<1>6. QED
  BY <1>3, <1>4, <1>5

(* The task that carried the frame either posts the next one or ends the frame. *)
LEMMA FrameCarries ==
    ASSUME TypeOK, NEW rest \in Seq(UITasks), NEW again \in BOOLEAN,
           ~CarriesFrame(rest), ~CarriesFrame(gpu_loop),
           AtMostOneFrame(rest), AtMostOneFrame(gpu_loop),
           BeginFrame(rest, again, physical_size)
               \/ OnFrameComplete(rest, again, physical_size)
    PROVE  OneFrameTask'
<1>1. DrawTask(physical_size) \in GPUTasks /\ DrawTask(physical_size).method \in FrameMethods
  BY DEF DrawTask, Task, GPUTasks, FrameMethods, TypeOK
<1>2. gpu_loop \in Seq(GPUTasks)
  BY DEF TypeOK
<1>3. /\ CarriesFrame(Append(gpu_loop, DrawTask(physical_size)))
      /\ AtMostOneFrame(Append(gpu_loop, DrawTask(physical_size)))
  BY <1>1, <1>2, PostFrame, Zenon
<1>4. CASE ProduceFrame(rest, again, physical_size)
  BY <1>3, <1>4, Zenon DEF ProduceFrame, OneFrameTask
<1>5. CASE frame_in_progress' = FALSE /\ ui_loop' = rest /\ gpu_loop' = gpu_loop
  BY <1>5, Zenon DEF OneFrameTask
<1>6. QED
  BY <1>4, <1>5, Zenon DEF BeginFrame, OnFrameComplete

(***************************************************************************)
(* A step that leaves the loops carrying what they carried, and the flag   *)
(* and the engine as they were, changes nothing about the frame.           *)
(***************************************************************************)
LEMMA SameCarriers ==
    ASSUME OneFrameTask,
           AtMostOneFrame(ui_loop'), AtMostOneFrame(gpu_loop'),
           CarriesFrame(ui_loop') <=> CarriesFrame(ui_loop),
           CarriesFrame(gpu_loop') <=> CarriesFrame(gpu_loop),
           frame_in_progress' = frame_in_progress,
           engine_alive' = engine_alive
    PROVE  OneFrameTask'
BY Zenon DEF OneFrameTask

(* Posting to the UI loop and the GPU loop, with the methods that carry no frame. *)
LEMMA OtherTasks ==
    ASSUME TypeOK
    PROVE  /\ \A t \in UITasks : t.method \notin FrameMethods =>
                  /\ CarriesFrame(Append(ui_loop, t)) <=> CarriesFrame(ui_loop)
                  /\ AtMostOneFrame(ui_loop) => AtMostOneFrame(Append(ui_loop, t))
           /\ \A t \in GPUTasks : t.method \notin FrameMethods =>
                  /\ CarriesFrame(Append(gpu_loop, t)) <=> CarriesFrame(gpu_loop)
                  /\ AtMostOneFrame(gpu_loop) => AtMostOneFrame(Append(gpu_loop, t))
<1>1. ui_loop \in Seq(UITasks) /\ gpu_loop \in Seq(GPUTasks)
  BY DEF TypeOK
<1>2. QED
  BY <1>1, PostOther, Zenon

(* A task without a frame leaves the loop it was taken from carrying the same. *)
LEMMA TakeOther ==
    ASSUME TypeOK
    PROVE  /\ ui_loop # <<>> /\ Head(ui_loop).method \notin FrameMethods =>
                  /\ CarriesFrame(Tail(ui_loop)) <=> CarriesFrame(ui_loop)
                  /\ AtMostOneFrame(ui_loop) => AtMostOneFrame(Tail(ui_loop))
           /\ gpu_loop # <<>> /\ Head(gpu_loop).method \notin FrameMethods =>
                  /\ CarriesFrame(Tail(gpu_loop)) <=> CarriesFrame(gpu_loop)
                  /\ AtMostOneFrame(gpu_loop) => AtMostOneFrame(Tail(gpu_loop))
<1>1. ui_loop \in Seq(UITasks) /\ gpu_loop \in Seq(GPUTasks)
  BY DEF TypeOK
<1>2. QED
  BY <1>1, TakeTask, Zenon

(***************************************************************************)
(* The frame is carried by exactly one task while frame_in_progress_ is    *)
(* set, so DCHECK(frame_in_progress_) holds in Animator::BeginFrame (52)   *)
(* and OnFrameComplete (70) for every window, size and number of messages. *)
(***************************************************************************)
THEOREM OneTaskCarriesTheFrame == SafeSpec => []OneFrameTask
<1>1. Init => OneFrameTask
  <2> SUFFICES ASSUME Init PROVE OneFrameTask
    OBVIOUS
  <2>1. /\ AtMostOneFrame(gpu_loop) /\ ~CarriesFrame(gpu_loop)
        /\ AtMostOneFrame(ui_loop) /\ ~CarriesFrame(ui_loop)
    BY DEF Init, AtMostOneFrame, CarriesFrame, FrameMethods, Task
  <2>2. frame_in_progress = FALSE
    BY DEF Init, EngineInit, AnimatorInit
  <2>3. QED
    BY <2>1, <2>2, Zenon DEF OneFrameTask
<1>2. TypeOK /\ OneFrameTask /\ [Next]_vars => OneFrameTask'
  <2> SUFFICES ASSUME TypeOK, OneFrameTask, [Next]_vars PROVE OneFrameTask'
    OBVIOUS
  <2>0. /\ AtMostOneFrame(ui_loop) /\ AtMostOneFrame(gpu_loop)
        /\ ~(CarriesFrame(ui_loop) /\ CarriesFrame(gpu_loop))
        /\ ui_loop \in Seq(UITasks) /\ gpu_loop \in Seq(GPUTasks)
        /\ frame_in_progress \in BOOLEAN
    BY DEF OneFrameTask, TypeOK
  <2>00. engine_alive => /\ frame_in_progress <=> CarriesFrame(ui_loop) \/ CarriesFrame(gpu_loop)
    BY Zenon DEF OneFrameTask
  <2>1. CASE SurfaceCreated
    <3>1. PICK w \in Windows :
              ui_loop' = Append(ui_loop, Task("Engine::OnAcceleratedWidgetAvailable", w))
      BY <2>1 DEF SurfaceCreated
    <3>2. /\ Task("Engine::OnAcceleratedWidgetAvailable", w) \in UITasks
          /\ Task("Engine::OnAcceleratedWidgetAvailable", w).method \notin FrameMethods
      BY DEF Task, UITasks, FrameMethods
    <3>3. UNCHANGED <<frame_in_progress, gpu_loop, engine_alive>>
      BY <2>1 DEF SurfaceCreated, animator
    <3>4. QED
      BY <2>0, <3>1, <3>2, <3>3, OtherTasks, SameCarriers, Zenon
  <2>2. CASE SurfaceDestroyed
    <3>1. /\ Task("Engine::OnOutputSurfaceDestroyed", NoArg) \in UITasks
          /\ Task("Engine::OnOutputSurfaceDestroyed", NoArg).method \notin FrameMethods
      BY DEF Task, UITasks, FrameMethods
    <3>2. /\ UNCHANGED <<frame_in_progress, gpu_loop, engine_alive>>
          /\ ui_loop' = Append(ui_loop, Task("Engine::OnOutputSurfaceDestroyed", NoArg))
      BY <2>2 DEF SurfaceDestroyed, animator
    <3>3. QED
      BY <2>0, <3>1, <3>2, OtherTasks, SameCarriers, Zenon
  <2>3. CASE Detach
    <3>1. /\ Task("Drop<Engine>", NoArg) \in UITasks
          /\ Task("Drop<Engine>", NoArg).method \notin FrameMethods
          /\ Task("Drop<Rasterizer>", NoArg) \in GPUTasks
          /\ Task("Drop<Rasterizer>", NoArg).method \notin FrameMethods
      BY DEF Task, UITasks, GPUTasks, FrameMethods
    <3>2. /\ UNCHANGED <<frame_in_progress, engine_alive>>
          /\ ui_loop' = Append(ui_loop, Task("Drop<Engine>", NoArg))
          /\ gpu_loop' = Append(gpu_loop, Task("Drop<Rasterizer>", NoArg))
      BY <2>3 DEF Detach, animator
    <3>3. QED
      BY <2>0, <3>1, <3>2, OtherTasks, SameCarriers, Zenon
  <2>4. CASE SendActivityChange \/ SendMetrics \/ SendRun
    <3>1. UNCHANGED <<frame_in_progress, engine_alive, ui_loop, gpu_loop>>
      BY <2>4 DEF SendActivityChange, SendMetrics, SendRun, SendToEngine, animator
    <3>2. QED
      BY <2>0, <3>1, SameCarriers, Zenon
  <2>5. CASE RunConnectToEngine \/ RunOutputSurfaceDestroyed
    <3>1. /\ ui_loop # <<>>
          /\ Head(ui_loop).method \notin FrameMethods
          /\ ui_loop' = Tail(ui_loop)
          /\ UNCHANGED <<frame_in_progress, engine_alive>>
      BY <2>5 DEF RunConnectToEngine, RunOutputSurfaceDestroyed, OnOutputSurfaceDestroyed,
                  Stop, AtHead, FrameMethods, animator
    <3>2. /\ Task("Rasterizer::OnOutputSurfaceDestroyed", NoArg) \in GPUTasks
          /\ Task("Rasterizer::OnOutputSurfaceDestroyed", NoArg).method \notin FrameMethods
      BY DEF Task, GPUTasks, FrameMethods
    <3>3. \/ gpu_loop' = gpu_loop
          \/ gpu_loop' = Append(gpu_loop, Task("Rasterizer::OnOutputSurfaceDestroyed", NoArg))
      BY <2>5, Zenon DEF RunConnectToEngine, RunOutputSurfaceDestroyed, OnOutputSurfaceDestroyed
    <3>4. QED
      BY <2>0, <3>1, <3>2, <3>3, OtherTasks, TakeOther, SameCarriers, Zenon
  <2>6. CASE RunWidgetAvailable
    <3> DEFINE t == Task("Rasterizer::OnAcceleratedWidgetAvailable", Head(ui_loop).arg)
    <3>1. /\ ui_loop # <<>>
          /\ Head(ui_loop).method = "Engine::OnAcceleratedWidgetAvailable"
          /\ gpu_loop' = Append(gpu_loop, t)
          /\ UNCHANGED engine_alive
      BY <2>6 DEF RunWidgetAvailable, OnAcceleratedWidgetAvailable, AtHead
    <3>2. Head(ui_loop).method \notin FrameMethods
      BY <3>1 DEF FrameMethods
    <3>3. /\ t \in GPUTasks /\ t.method \notin FrameMethods
          /\ Tail(ui_loop) \in Seq(UITasks)
      <4>1. Head(ui_loop) \in UITasks /\ Tail(ui_loop) \in Seq(UITasks)
        BY <2>0, <3>1
      <4>2. Head(ui_loop).arg \in Windows
        BY <3>1, <4>1 DEF UITasks
      <4>3. QED
        BY <4>1, <4>2 DEF Task, GPUTasks, FrameMethods
    <3>4. /\ CarriesFrame(gpu_loop') <=> CarriesFrame(gpu_loop)
          /\ AtMostOneFrame(gpu_loop')
      BY <2>0, <3>1, <3>3, OtherTasks, Zenon
    <3>5. /\ CarriesFrame(Tail(ui_loop)) <=> CarriesFrame(ui_loop)
          /\ AtMostOneFrame(Tail(ui_loop))
      BY <2>0, <3>1, <3>2, TakeOther, Zenon
    <3>6. engine_alive
      BY <2>6, Zenon DEF RunWidgetAvailable
    <3>7. CASE RequestFrame(Tail(ui_loop))
      <4>1. frame_in_progress <=> CarriesFrame(Tail(ui_loop)) \/ CarriesFrame(gpu_loop)
        BY <2>00, <3>5, <3>6, Zenon
      <4>2. ~(CarriesFrame(Tail(ui_loop)) /\ CarriesFrame(gpu_loop))
        BY <2>0, <3>5, Zenon
      <4>3. /\ AtMostOneFrame(ui_loop')
            /\ ~(CarriesFrame(ui_loop') /\ CarriesFrame(gpu_loop))
            /\ frame_in_progress' <=> CarriesFrame(ui_loop') \/ CarriesFrame(gpu_loop)
        BY <2>0, <3>3, <3>5, <3>7, <4>1, <4>2, RequestFrameCarries, Zenon
      <4>4. QED
        BY <3>4, <4>3, Zenon DEF OneFrameTask
    <3>8. CASE ui_loop' = Tail(ui_loop) /\ frame_in_progress' = frame_in_progress
      BY <3>1, <3>4, <3>5, <3>8, SameCarriers, Zenon
    <3>9. RequestFrame(Tail(ui_loop)) \/ (ui_loop' = Tail(ui_loop) /\ UNCHANGED animator)
      BY <2>6, Zenon DEF RunWidgetAvailable, OnAcceleratedWidgetAvailable, Start
    <3>10. QED
      BY <3>7, <3>8, <3>9 DEF animator
  <2>7. CASE RunBeginFrame \/ RunOnFrameComplete
    <3>1. /\ ui_loop # <<>>
          /\ Head(ui_loop).method \in FrameMethods
      BY <2>7 DEF RunBeginFrame, RunOnFrameComplete, AtHead, FrameMethods
    <3>2. /\ Tail(ui_loop) \in Seq(UITasks)
          /\ AtMostOneFrame(Tail(ui_loop))
          /\ CarriesFrame(ui_loop) /\ ~CarriesFrame(Tail(ui_loop))
      BY <2>0, <3>1, TakeTask, Zenon
    <3>3. ~CarriesFrame(gpu_loop)
      BY <2>0, <3>2
    <3>4. PICK again \in BOOLEAN :
              \/ BeginFrame(Tail(ui_loop), again, physical_size)
              \/ OnFrameComplete(Tail(ui_loop), again, physical_size)
      BY <2>7, Zenon DEF RunBeginFrame, RunOnFrameComplete
    <3>5. QED
      BY <2>0, <3>2, <3>3, <3>4, FrameCarries, Zenon
  <2>8. CASE DropEngine \/ SkipUITask
    <3>1. /\ ui_loop # <<>>
          /\ ui_loop' = Tail(ui_loop)
          /\ gpu_loop' = gpu_loop
      BY <2>8 DEF DropEngine, SkipUITask, AtHead
    <3>2. engine_alive' = FALSE
      BY <2>8, Zenon DEF DropEngine, SkipUITask, TypeOK
    <3>3. AtMostOneFrame(Tail(ui_loop)) /\ (CarriesFrame(Tail(ui_loop)) => CarriesFrame(ui_loop))
      BY <2>0, <3>1, TakeTask, Zenon
    <3>4. QED
      BY <2>0, <3>1, <3>2, <3>3, Zenon DEF OneFrameTask
  <2>9. CASE DeliverMessage \/ RunDart
    <3>1. /\ engine_alive
          /\ UNCHANGED engine_alive
          /\ gpu_loop' = gpu_loop
          /\ \/ ui_loop' = ui_loop /\ frame_in_progress' = frame_in_progress
             \/ RequestFrame(ui_loop)
      BY <2>9, Zenon DEF DeliverMessage, RunDart, DartMain, EnsureVisualUpdate, OnActivityPaused,
                  OnActivityResumed, OnViewportMetricsChanged, RunProgram, Start, Stop, animator
    <3>2. CASE ui_loop' = ui_loop /\ frame_in_progress' = frame_in_progress
      BY <2>0, <3>1, <3>2, SameCarriers, Zenon
    <3>3. CASE RequestFrame(ui_loop)
      <4>1. /\ AtMostOneFrame(ui_loop')
            /\ ~(CarriesFrame(ui_loop') /\ CarriesFrame(gpu_loop))
            /\ frame_in_progress' <=> CarriesFrame(ui_loop') \/ CarriesFrame(gpu_loop)
        BY <2>0, <2>00, <3>1, <3>3, RequestFrameCarries, Zenon
      <4>2. QED
        BY <2>0, <3>1, <4>1, Zenon DEF OneFrameTask
    <3>4. QED
      BY <3>1, <3>2, <3>3
  <2>10. CASE RunCreateSurface \/ RunDestroySurface \/ DropRasterizer
    <3>1. /\ gpu_loop # <<>>
          /\ Head(gpu_loop).method \notin FrameMethods
          /\ gpu_loop' = Tail(gpu_loop)
          /\ UNCHANGED <<ui_loop, frame_in_progress, engine_alive>>
      BY <2>10 DEF RunCreateSurface, RunDestroySurface, DropRasterizer,
                   AtHead, FrameMethods, OutsideRasterizer, animator
    <3>2. QED
      BY <2>0, <3>1, TakeOther, SameCarriers, Zenon
  <2>11. CASE SkipGPUTask
    <3>1. /\ gpu_loop # <<>>
          /\ Head(gpu_loop).method # "Rasterizer::Draw"
          /\ gpu_loop' = Tail(gpu_loop)
          /\ UNCHANGED <<ui_loop, frame_in_progress, engine_alive>>
      BY <2>11 DEF SkipGPUTask, OutsideRasterizer, animator
    <3>2. Head(gpu_loop).method \notin FrameMethods
      <4>1. Head(gpu_loop) \in GPUTasks
        BY <2>0, <3>1
      <4>2. QED
        BY <3>1, <4>1 DEF GPUTasks, FrameMethods
    <3>3. QED
      BY <2>0, <3>1, <3>2, TakeOther, SameCarriers, Zenon
  <2>12. CASE RunDraw
    <3>1. /\ gpu_loop # <<>>
          /\ Head(gpu_loop).method \in FrameMethods
          /\ gpu_loop' = Tail(gpu_loop)
          /\ ui_loop' = Append(ui_loop, FrameCompleteTask)
          /\ UNCHANGED <<frame_in_progress, engine_alive>>
      BY <2>12 DEF RunDraw, AtHead, FrameMethods, OutsideRasterizer, animator
    <3>2. /\ AtMostOneFrame(Tail(gpu_loop))
          /\ CarriesFrame(gpu_loop) /\ ~CarriesFrame(Tail(gpu_loop))
      BY <2>0, <3>1, TakeTask, Zenon
    <3>3. FrameCompleteTask \in UITasks /\ FrameCompleteTask.method \in FrameMethods
      BY DEF FrameCompleteTask, Task, UITasks, FrameMethods
    <3>4. /\ CarriesFrame(ui_loop')
          /\ AtMostOneFrame(ui_loop')
      BY <2>0, <3>1, <3>2, <3>3, PostFrame, Zenon
    <3>5. QED
      BY <2>00, <3>1, <3>2, <3>4, Zenon DEF OneFrameTask
  <2>13. CASE UNCHANGED vars
    <3>1. UNCHANGED <<frame_in_progress, engine_alive, ui_loop, gpu_loop>>
      BY <2>13 DEF vars, animator
    <3>2. QED
      BY <2>0, <3>1, SameCarriers, Zenon
  <2>14. QED
    BY <2>1, <2>2, <2>3, <2>4, <2>5, <2>6, <2>7, <2>8, <2>9, <2>10, <2>11, <2>12, <2>13
       DEF Next, PlatformThread, UILoop, GPULoop
<1>3. QED
  BY <1>1, <1>2, TypeCorrect, PTL DEF SafeSpec

-----------------------------------------------------------------------------
(* What the framework may rely on *)

(***************************************************************************)
(* Only a running program has scheduled a visual update.  Without this the *)
(* request of a program would seem to survive a frame that runs no Dart.   *)
(***************************************************************************)
OnlyProgramsSchedule == have_scheduled_visual_update => sky_view = RunsProgram

SchedulingInv == OnlyProgramsSchedule /\ ScheduledUpdateIsRequested /\ RunsWhenVisible

LEMMA SchedulingCorrect == SafeSpec => []SchedulingInv
<1>1. Init => SchedulingInv
  <2> SUFFICES ASSUME Init PROVE SchedulingInv
    OBVIOUS
  <2>1. have_scheduled_visual_update = FALSE /\ have_surface = FALSE
    BY DEF Init, EngineInit
  <2>2. QED
    BY <2>1, Zenon DEF SchedulingInv, OnlyProgramsSchedule, ScheduledUpdateIsRequested,
                       RunsWhenVisible
<1>2. TypeOK /\ SchedulingInv /\ [Next]_vars => SchedulingInv'
  <2> SUFFICES ASSUME TypeOK, SchedulingInv, [Next]_vars PROVE SchedulingInv'
    OBVIOUS
  <2> USE DEF SchedulingInv, OnlyProgramsSchedule, ScheduledUpdateIsRequested, RunsWhenVisible
  <2>0. engine_requested_frame \in BOOLEAN /\ frame \in {0, 1}
    BY DEF TypeOK
  <2>1. ASSUME UNCHANGED <<animator, engine>> PROVE SchedulingInv'
    BY <2>1 DEF animator, engine
  <2>2. CASE \/ SurfaceCreated \/ SurfaceDestroyed \/ Detach
             \/ SendActivityChange \/ SendMetrics \/ SendRun
             \/ RunConnectToEngine \/ DropEngine \/ SkipUITask
             \/ RunCreateSurface \/ RunDraw \/ RunDestroySurface
             \/ DropRasterizer \/ SkipGPUTask \/ UNCHANGED vars
    <3>1. UNCHANGED <<animator, engine>>
      BY <2>2 DEF SurfaceCreated, SurfaceDestroyed, Detach, SendActivityChange, SendMetrics,
                  SendRun, SendToEngine, RunConnectToEngine, DropEngine, SkipUITask,
                  RunCreateSurface, RunDraw, RunDestroySurface, DropRasterizer, SkipGPUTask,
                  OutsideRasterizer, vars
    <3>2. QED
      BY <2>1, <3>1
  <2>3. CASE RunWidgetAvailable
    <3>1. UNCHANGED <<activity_running, sky_view, have_scheduled_visual_update>>
      BY <2>3 DEF RunWidgetAvailable, OnAcceleratedWidgetAvailable
    <3>2. CASE Start(Tail(ui_loop))
      <4>1. RequestFrame(Tail(ui_loop)) /\ paused' = FALSE
        BY <3>2 DEF Start
      <4>2. engine_requested_frame' /\ ~paused'
        BY <4>1, Zenon DEF RequestFrame
      <4>3. QED
        BY <3>1, <4>2, Zenon
    <3>3. CASE RequestFrame(Tail(ui_loop)) /\ ~activity_running
      <4>1. RequestFrame(Tail(ui_loop))
        BY <3>3
      <4>2. engine_requested_frame'
        BY <4>1, Zenon DEF RequestFrame
      <4>3. QED
        BY <3>1, <3>3, <4>2, Zenon
    <3>4. CASE UNCHANGED animator /\ ~activity_running
      BY <3>1, <3>4 DEF animator
    <3>5. QED
      BY <2>3, <3>2, <3>3, <3>4, Zenon DEF RunWidgetAvailable, OnAcceleratedWidgetAvailable
  <2>4. CASE RunOutputSurfaceDestroyed
    <3>1. UNCHANGED <<sky_view, have_scheduled_visual_update>>
      BY <2>4 DEF RunOutputSurfaceDestroyed, OnOutputSurfaceDestroyed
    <3>2. paused' = TRUE /\ have_surface' = FALSE
      BY <2>4, Zenon DEF RunOutputSurfaceDestroyed, OnOutputSurfaceDestroyed, Stop
    <3>3. QED
      BY <3>1, <3>2, Zenon
  <2>5. CASE RunBeginFrame \/ RunOnFrameComplete
    <3>1. PICK again \in BOOLEAN :
              /\ \/ ProduceFrame(Tail(ui_loop), again, physical_size)
                 \/ UNCHANGED <<engine_requested_frame, frame>>
              /\ FrameEffect(again)
      BY <2>5 DEF RunBeginFrame, RunOnFrameComplete, BeginFrame, OnFrameComplete
    <3>2. UNCHANGED <<paused, activity_running, have_surface, sky_view>>
      BY <3>1 DEF FrameEffect
    <3>3. CASE ProduceFrame(Tail(ui_loop), again, physical_size)
      <4>1. frame' # frame /\ engine_requested_frame' = again
        BY <2>0, <3>3 DEF ProduceFrame
      <4>2. EngineBeginFrame(again)
        BY <3>1, <4>1, Zenon DEF FrameEffect
      <4>3. CASE sky_view = RunsProgram
        BY <3>2, <4>1, <4>2, <4>3, Zenon DEF EngineBeginFrame
      <4>4. CASE sky_view # RunsProgram
        BY <3>2, <4>2, <4>4, Zenon DEF EngineBeginFrame
      <4>5. QED
        BY <4>3, <4>4
    <3>4. CASE UNCHANGED <<engine_requested_frame, frame>>
      <4>1. UNCHANGED have_scheduled_visual_update
        BY <3>1, <3>4, Zenon DEF FrameEffect
      <4>2. engine_requested_frame' = engine_requested_frame
        BY <3>4
      <4>3. QED
        BY <3>2, <4>1, <4>2, Zenon
    <3>5. QED
      BY <3>1, <3>3, <3>4
  <2>6. CASE DeliverMessage
    <3>1. CASE OnActivityPaused
      <4>1. UNCHANGED <<sky_view, have_scheduled_visual_update>>
        BY <3>1 DEF OnActivityPaused
      <4>2. paused' = TRUE /\ activity_running' = FALSE
        BY <3>1, Zenon DEF OnActivityPaused, Stop
      <4>3. QED
        BY <4>1, <4>2, Zenon
    <3>2. CASE OnActivityResumed
      <4>1. UNCHANGED <<sky_view, have_scheduled_visual_update, have_surface>>
        BY <3>2 DEF OnActivityResumed
      <4>2. CASE have_surface
        <5>1. engine_requested_frame' /\ ~paused'
          BY <2>0, <3>2, <4>2, Zenon DEF OnActivityResumed, Start, RequestFrame
        <5>2. QED
          BY <4>1, <5>1, Zenon
      <4>3. CASE ~have_surface
        <5>1. UNCHANGED animator
          BY <3>2, <4>3, Zenon DEF OnActivityResumed
        <5>2. QED
          BY <4>1, <4>3, <5>1 DEF animator
      <4>4. QED
        BY <4>2, <4>3
    <3>3. CASE \E size : OnViewportMetricsChanged(size)
      BY <3>3 DEF OnViewportMetricsChanged, animator
    <3>4. CASE RunProgram
      <4>1. UNCHANGED <<paused, engine_requested_frame, activity_running, have_surface>>
        BY <3>4 DEF RunProgram, animator
      <4>2. have_scheduled_visual_update' = FALSE
        BY <3>4, Zenon DEF RunProgram
      <4>3. QED
        BY <4>1, <4>2, Zenon
    <3>5. QED
      BY <2>6, <3>1, <3>2, <3>3, <3>4 DEF DeliverMessage
  <2>7. CASE RunDart
    <3>1. CASE DartMain
      BY <3>1 DEF DartMain, animator, NoView, Loading, RunsProgram
    <3>2. CASE EnsureVisualUpdate
      <4>1. UNCHANGED <<paused, activity_running, have_surface, sky_view>>
        BY <3>2 DEF EnsureVisualUpdate
      <4>2. sky_view = RunsProgram /\ RequestFrame(ui_loop)
        BY <3>2, Zenon DEF EnsureVisualUpdate
      <4>3. QED
        <5>1. engine_requested_frame'
          BY <2>0, <4>2, Zenon DEF RequestFrame
        <5>2. QED
          BY <4>1, <4>2, <5>1, Zenon
    <3>3. QED
      BY <2>7, <3>1, <3>2 DEF RunDart
  <2>8. QED
    BY <2>2, <2>3, <2>4, <2>5, <2>6, <2>7 DEF Next, PlatformThread, UILoop, GPULoop
<1>3. QED
  BY <1>1, <1>2, TypeCorrect, PTL DEF SafeSpec

(***************************************************************************)
(* A scheduled visual update (scheduler.dart, ensureVisualUpdate) stays    *)
(* requested from the animator (ScheduledUpdateIsRequested), ...           *)
(***************************************************************************)
THEOREM FrameworkIsServed == SafeSpec => []ScheduledUpdateIsRequested
<1>1. SchedulingInv => ScheduledUpdateIsRequested
  BY DEF SchedulingInv
<1>2. QED
  BY <1>1, SchedulingCorrect, PTL

(* ... and a visible view is never left stopped (RunsWhenVisible). *)
THEOREM VisibleViewsRun == SafeSpec => []RunsWhenVisible
<1>1. SchedulingInv => RunsWhenVisible
  BY DEF SchedulingInv
<1>2. QED
  BY <1>1, SchedulingCorrect, PTL

-----------------------------------------------------------------------------
(***************************************************************************)
(* Surface news.  Tasks of other kinds may be posted and taken anywhere    *)
(* among them: what counts is the order of the news themselves.            *)
(***************************************************************************)
IsNews(task) == task.method \in SurfaceMethods

(* From s1 to s2 news are only renumbered: f finds them again. *)
Renumbers(f, s1, s2) ==
    /\ f \in [NewsIn(s2) -> NewsIn(s1)]
    /\ \A i, j \in NewsIn(s2) : i < j <=> f[i] < f[j]
    /\ \A k \in NewsIn(s1) : \E i \in NewsIn(s2) : f[i] = k
    /\ \A i \in NewsIn(s2) : NewsWindow(s2[i]) = NewsWindow(s1[f[i]])

LEMMA NewsAreNumbered ==
    ASSUME NEW T, NEW s \in Seq(T)
    PROVE  NewsIn(s) \subseteq Nat
  BY DEF NewsIn

LEMMA Renumbered ==
    ASSUME NEW T, NEW s1 \in Seq(T), NEW s2 \in Seq(T), NEW f, Renumbers(f, s1, s2),
           NEW now, NEW end
    PROVE  /\ Alternate(s1, now) => Alternate(s2, now)
           /\ LeadTo(s1, now, end) => LeadTo(s2, now, end)
<1>1. NewsIn(s1) \subseteq Nat /\ NewsIn(s2) \subseteq Nat
  BY NewsAreNumbered
<1>2. \A i \in NewsIn(s2) : f[i] \in NewsIn(s1) /\ NewsWindow(s2[i]) = NewsWindow(s1[f[i]])
  BY DEF Renumbers
<1>3. \A i, j \in NewsIn(s2) : i < j <=> f[i] < f[j]
  BY DEF Renumbers
<1>4. \A k \in NewsIn(s1) : \E i \in NewsIn(s2) : f[i] = k
  BY DEF Renumbers
<1>5. \A i, j \in NewsIn(s2) : i <= j <=> f[i] <= f[j]
  BY <1>1, <1>2, <1>3
<1>6. ASSUME NEW i \in NewsIn(s2), \A j \in NewsIn(s2) : i <= j
      PROVE  \A k \in NewsIn(s1) : f[i] <= k
  BY <1>4, <1>5, <1>6
<1>7. ASSUME NEW i \in NewsIn(s2), \A j \in NewsIn(s2) : j <= i
      PROVE  \A k \in NewsIn(s1) : k <= f[i]
  BY <1>4, <1>5, <1>7
<1>8. ASSUME NEW i \in NewsIn(s2), NEW j \in NewsIn(s2), j < i,
             \A k \in NewsIn(s2) : k <= j \/ i <= k
      PROVE  f[j] < f[i] /\ \A k \in NewsIn(s1) : k <= f[j] \/ f[i] <= k
  BY <1>3, <1>4, <1>5, <1>8
<1>9. ASSUME Alternate(s1, now) PROVE Alternate(s2, now)
  <2>1. ASSUME NEW i \in NewsIn(s2), \A j \in NewsIn(s2) : i <= j
        PROVE  Changes(now, NewsWindow(s2[i]))
    BY <1>2, <1>6, <1>9, <2>1 DEF Alternate
  <2>2. ASSUME NEW i \in NewsIn(s2), NEW j \in NewsIn(s2), j < i,
               \A k \in NewsIn(s2) : k <= j \/ i <= k
        PROVE  Changes(NewsWindow(s2[j]), NewsWindow(s2[i]))
    <3>1. /\ f[i] \in NewsIn(s1) /\ f[j] \in NewsIn(s1)
          /\ f[j] < f[i] /\ \A k \in NewsIn(s1) : k <= f[j] \/ f[i] <= k
      BY <1>2, <1>8, <2>2
    <3>2. Changes(NewsWindow(s1[f[j]]), NewsWindow(s1[f[i]]))
      BY <1>9, <3>1, Zenon DEF Alternate
    <3>. QED  BY <1>2, <3>2
  <2>. QED  BY <2>1, <2>2 DEF Alternate
<1>10. ASSUME LeadTo(s1, now, end) PROVE LeadTo(s2, now, end)
  BY <1>2, <1>4, <1>7, <1>10 DEF LeadTo
<1>. QED  BY <1>9, <1>10

(* One task that is no news is taken out at p, ... *)
LEMMA OtherTaken ==
    ASSUME NEW T, NEW s1 \in Seq(T), NEW s2 \in Seq(T), NEW p \in 1 .. Len(s1),
           ~IsNews(s1[p]),
           Len(s2) = Len(s1) - 1,
           \A i \in 1 .. Len(s2) : s2[i] = s1[IF i < p THEN i ELSE i + 1],
           NEW now, NEW end
    PROVE  /\ Alternate(s1, now) => Alternate(s2, now)
           /\ LeadTo(s1, now, end) => LeadTo(s2, now, end)
<1>. DEFINE f == [i \in NewsIn(s2) |-> IF i < p THEN i ELSE i + 1]
<1>1. /\ DOMAIN s1 = 1 .. Len(s1)
      /\ DOMAIN s2 = 1 .. Len(s1) - 1
      /\ Len(s1) \in Nat
  OBVIOUS
<1>2. ASSUME NEW i \in NewsIn(s2) PROVE f[i] \in NewsIn(s1) /\ s2[i] = s1[f[i]]
  BY <1>1 DEF NewsIn
<1>3. \A i, j \in NewsIn(s2) : i < j <=> f[i] < f[j]
  BY <1>1 DEF NewsIn
<1>4. ASSUME NEW k \in NewsIn(s1) PROVE \E i \in NewsIn(s2) : f[i] = k
  <2>1. k \in 1 .. Len(s1) /\ k # p /\ IsNews(s1[k])
    BY <1>1 DEF NewsIn, IsNews
  <2>2. CASE k < p
    <3>1. k \in NewsIn(s2) /\ f[k] = k
      BY <1>1, <2>1, <2>2 DEF NewsIn, IsNews
    <3>. QED  BY <3>1
  <2>3. CASE k > p
    <3>1. k - 1 \in NewsIn(s2) /\ f[k - 1] = k
      BY <1>1, <2>1, <2>3 DEF NewsIn, IsNews
    <3>. QED  BY <3>1
  <2>. QED  BY <1>1, <2>1, <2>2, <2>3
<1>5. Renumbers(f, s1, s2)
  BY <1>2, <1>3, <1>4 DEF Renumbers
<1>. QED  BY <1>5, Renumbered

(* ... or put in at p, ... *)
LEMMA OtherPutIn ==
    ASSUME NEW T, NEW s1 \in Seq(T), NEW s2 \in Seq(T), NEW p \in 1 .. Len(s2),
           ~IsNews(s2[p]),
           Len(s1) = Len(s2) - 1,
           \A i \in 1 .. Len(s1) : s1[i] = s2[IF i < p THEN i ELSE i + 1],
           NEW now, NEW end
    PROVE  /\ Alternate(s1, now) => Alternate(s2, now)
           /\ LeadTo(s1, now, end) => LeadTo(s2, now, end)
<1>. DEFINE f == [i \in NewsIn(s2) |-> IF i < p THEN i ELSE i - 1]
<1>1. /\ DOMAIN s2 = 1 .. Len(s2)
      /\ DOMAIN s1 = 1 .. Len(s2) - 1
      /\ Len(s2) \in Nat
  OBVIOUS
<1>2. ASSUME NEW i \in NewsIn(s2) PROVE f[i] \in NewsIn(s1) /\ s2[i] = s1[f[i]]
  <2>1. i \in 1 .. Len(s2) /\ i # p /\ IsNews(s2[i])
    BY <1>1 DEF NewsIn, IsNews
  <2>2. f[i] \in 1 .. Len(s1) /\ s1[f[i]] = s2[i]
    <3>1. CASE i < p
      BY <1>1, <2>1, <3>1
    <3>2. CASE i > p
      BY <1>1, <2>1, <3>2
    <3>. QED  BY <1>1, <2>1, <3>1, <3>2
  <2>. QED  BY <1>1, <2>1, <2>2 DEF NewsIn, IsNews
<1>3. \A i, j \in NewsIn(s2) : i < j <=> f[i] < f[j]
  <2>1. \A i \in NewsIn(s2) : i \in Nat /\ i # p
    BY <1>1 DEF NewsIn, IsNews
  <2>. QED  BY <1>1, <2>1
<1>4. ASSUME NEW k \in NewsIn(s1) PROVE \E i \in NewsIn(s2) : f[i] = k
  <2>1. k \in 1 .. Len(s1) /\ IsNews(s1[k])
    BY <1>1 DEF NewsIn, IsNews
  <2>2. CASE k < p
    <3>1. k \in NewsIn(s2) /\ f[k] = k
      BY <1>1, <2>1, <2>2 DEF NewsIn, IsNews
    <3>. QED  BY <3>1
  <2>3. CASE k >= p
    <3>1. k + 1 \in NewsIn(s2) /\ f[k + 1] = k
      BY <1>1, <2>1, <2>3 DEF NewsIn, IsNews
    <3>. QED  BY <3>1
  <2>. QED  BY <1>1, <2>1, <2>2, <2>3
<1>5. Renumbers(f, s1, s2)
  BY <1>2, <1>3, <1>4 DEF Renumbers
<1>. QED  BY <1>5, Renumbered

(* ... or replaced one by one by tasks that mean the same, ... *)
LEMMA SameNews ==
    ASSUME NEW T, NEW s1 \in Seq(T), NEW s2 \in Seq(T),
           Len(s2) = Len(s1),
           \A i \in 1 .. Len(s1) :
               /\ IsNews(s2[i]) <=> IsNews(s1[i])
               /\ IsNews(s1[i]) => NewsWindow(s2[i]) = NewsWindow(s1[i]),
           NEW now, NEW end
    PROVE  /\ Alternate(s1, now) => Alternate(s2, now)
           /\ LeadTo(s1, now, end) => LeadTo(s2, now, end)
<1>. DEFINE f == [i \in NewsIn(s2) |-> i]
<1>1. DOMAIN s1 = 1 .. Len(s1) /\ DOMAIN s2 = 1 .. Len(s1)
  OBVIOUS
<1>2. NewsIn(s2) = NewsIn(s1) /\ \A i \in NewsIn(s1) : NewsWindow(s2[i]) = NewsWindow(s1[i])
  BY <1>1 DEF NewsIn, IsNews
<1>3. Renumbers(f, s1, s2)
  BY <1>2 DEF Renumbers
<1>. QED  BY <1>3, Renumbered

(* ... or posted at the end. *)
LEMMA OtherPosted ==
    ASSUME NEW T, NEW s \in Seq(T), NEW t \in T, ~IsNews(t), NEW now, NEW end
    PROVE  /\ Alternate(s, now) => Alternate(Append(s, t), now)
           /\ LeadTo(s, now, end) => LeadTo(Append(s, t), now, end)
<1>. DEFINE s2 == Append(s, t)
            f == [i \in NewsIn(s2) |-> i]
<1>1. /\ DOMAIN s2 = 1 .. Len(s) + 1
      /\ DOMAIN s = 1 .. Len(s)
      /\ Len(s) \in Nat
      /\ \A i \in 1 .. Len(s) : s2[i] = s[i]
      /\ s2[Len(s) + 1] = t
  OBVIOUS
<1>2. s2 \in Seq(T)
  OBVIOUS
<1>. HIDE DEF s2
<1>3. NewsIn(s2) = NewsIn(s) /\ \A i \in NewsIn(s) : s2[i] = s[i]
  BY <1>1 DEF NewsIn, IsNews
<1>4. Renumbers(f, s, s2)
  BY <1>3 DEF Renumbers
<1>5. /\ Alternate(s, now) => Alternate(s2, now)
      /\ LeadTo(s, now, end) => LeadTo(s2, now, end)
  BY <1>2, <1>4, Renumbered
<1>. QED  BY <1>5 DEF s2

(* News are posted: they must change what all before them lead to. *)
LEMMA NewsPosted ==
    ASSUME NEW T, NEW s \in Seq(T), NEW t \in T, IsNews(t), NEW now, NEW end,
           Alternate(s, now), LeadTo(s, now, end), Changes(end, NewsWindow(t))
    PROVE  /\ Alternate(Append(s, t), now)
           /\ LeadTo(Append(s, t), now, NewsWindow(t))
<1>. DEFINE s2 == Append(s, t)
            n == Len(s) + 1
<1>1. /\ DOMAIN s2 = 1 .. n
      /\ DOMAIN s = 1 .. Len(s)
      /\ Len(s) \in Nat
      /\ \A i \in 1 .. Len(s) : s2[i] = s[i]
      /\ s2[n] = t
  OBVIOUS
<1>. HIDE DEF s2
<1>2. /\ NewsIn(s2) = NewsIn(s) \cup {n}
      /\ \A i \in NewsIn(s) : s2[i] = s[i] /\ i < n
      /\ NewsIn(s2) \subseteq Nat
  BY <1>1 DEF NewsIn, IsNews
<1>. HIDE DEF n
<1>3. ASSUME NEW i \in NewsIn(s2), \A j \in NewsIn(s2) : i <= j
      PROVE  Changes(now, NewsWindow(s2[i]))
  <2>1. CASE i = n
    <3>1. NewsIn(s) = {}
      BY <1>2, <1>3, <2>1
    <3>. QED  BY <1>1, <2>1, <3>1 DEF LeadTo
  <2>2. CASE i \in NewsIn(s)
    BY <1>2, <1>3, <2>2 DEF Alternate
  <2>. QED  BY <1>2, <2>1, <2>2
<1>4. ASSUME NEW i \in NewsIn(s2), NEW j \in NewsIn(s2), j < i,
             \A k \in NewsIn(s2) : k <= j \/ i <= k
      PROVE  Changes(NewsWindow(s2[j]), NewsWindow(s2[i]))
  <2>1. j \in NewsIn(s)
    BY <1>2, <1>4
  <2>2. CASE i = n
    <3>1. ASSUME NEW k \in NewsIn(s) PROVE k <= j
      <4>1. k \in NewsIn(s2) /\ k \in Nat /\ n \in Nat /\ k < n
        BY <1>2
      <4>2. k <= j \/ n <= k
        BY <1>4, <2>2, <4>1
      <4>. QED  BY <4>1, <4>2
    <3>2. NewsWindow(s2[j]) = end
      BY <1>2, <2>1, <3>1 DEF LeadTo
    <3>. QED  BY <1>1, <2>2, <3>2
  <2>3. CASE i \in NewsIn(s)
    <3>1. Changes(NewsWindow(s[j]), NewsWindow(s[i]))
      BY <1>2, <1>4, <2>1, <2>3 DEF Alternate
    <3>. QED  BY <1>2, <2>1, <2>3, <3>1
  <2>. QED  BY <1>2, <2>2, <2>3
<1>5. Alternate(s2, now)
  BY <1>3, <1>4 DEF Alternate
<1>6. LeadTo(s2, now, NewsWindow(t))
  <2>1. NewsIn(s2) # {}
    BY <1>2
  <2>2. ASSUME NEW i \in NewsIn(s2), \A j \in NewsIn(s2) : j <= i
        PROVE  NewsWindow(s2[i]) = NewsWindow(t)
    <3>1. i = n
      BY <1>2, <2>2
    <3>. QED  BY <1>1, <3>1
  <2>. QED  BY <2>1, <2>2 DEF LeadTo
<1>. QED  BY <1>5, <1>6 DEF s2

(* The first of the news takes effect. *)
LEMMA NewsTaken ==
    ASSUME NEW T, NEW s \in Seq(T), s # <<>>, IsNews(Head(s)), NEW now, NEW end,
           Alternate(s, now)
    PROVE  /\ Changes(now, NewsWindow(Head(s)))
           /\ Alternate(Tail(s), NewsWindow(Head(s)))
           /\ LeadTo(s, now, end) => LeadTo(Tail(s), NewsWindow(Head(s)), end)
<1>. DEFINE rest == Tail(s)
<1>1. /\ DOMAIN s = 1 .. Len(s)
      /\ Len(s) \in Nat \ {0}
      /\ DOMAIN rest = 1 .. Len(s) - 1
      /\ \A i \in 1 .. Len(s) - 1 : rest[i] = s[i + 1]
      /\ Head(s) = s[1]
  OBVIOUS
<1>. HIDE DEF rest
<1>2. /\ 1 \in NewsIn(s)
      /\ \A i \in NewsIn(s) : i \in Nat /\ 1 <= i
      /\ \A i \in NewsIn(rest) : i \in Nat /\ 1 <= i /\ i + 1 \in NewsIn(s) /\ rest[i] = s[i + 1]
      /\ \A i \in NewsIn(s) : i = 1 \/ i - 1 \in NewsIn(rest)
  BY <1>1 DEF NewsIn, IsNews
<1>3. Changes(now, NewsWindow(Head(s)))
  BY <1>1, <1>2 DEF Alternate
<1>4. ASSUME NEW i \in NewsIn(rest), \A j \in NewsIn(rest) : i <= j
      PROVE  Changes(NewsWindow(s[1]), NewsWindow(rest[i]))
  <2>1. \A k \in NewsIn(s) : k <= 1 \/ i + 1 <= k
    BY <1>2, <1>4
  <2>2. i + 1 \in NewsIn(s) /\ 1 < i + 1
    BY <1>2
  <2>3. Changes(NewsWindow(s[1]), NewsWindow(s[i + 1]))
    BY <1>2, <2>1, <2>2 DEF Alternate
  <2>. QED  BY <1>2, <2>3
<1>5. ASSUME NEW i \in NewsIn(rest), NEW j \in NewsIn(rest), j < i,
             \A k \in NewsIn(rest) : k <= j \/ i <= k
      PROVE  Changes(NewsWindow(rest[j]), NewsWindow(rest[i]))
  <2>1. ASSUME NEW k \in NewsIn(s) PROVE k <= j + 1 \/ i + 1 <= k
    <3>1. k \in Nat /\ i \in Nat /\ j \in Nat
      BY <1>2
    <3>2. CASE k = 1
      BY <3>1, <3>2
    <3>3. CASE k - 1 \in NewsIn(rest)
      <4>1. k - 1 <= j \/ i <= k - 1
        BY <1>5, <3>3
      <4>. QED  BY <3>1, <4>1
    <3>. QED  BY <1>2, <3>2, <3>3
  <2>2. i + 1 \in NewsIn(s) /\ j + 1 \in NewsIn(s) /\ j + 1 < i + 1
    BY <1>2, <1>5
  <2>3. Changes(NewsWindow(s[j + 1]), NewsWindow(s[i + 1]))
    BY <2>1, <2>2 DEF Alternate
  <2>. QED  BY <1>2, <2>3
<1>6. Alternate(rest, NewsWindow(Head(s)))
  BY <1>1, <1>4, <1>5 DEF Alternate
<1>7. ASSUME LeadTo(s, now, end) PROVE LeadTo(rest, NewsWindow(Head(s)), end)
  <2>1. ASSUME NewsIn(rest) = {} PROVE NewsWindow(s[1]) = end
    <3>1. \A j \in NewsIn(s) : j <= 1
      BY <1>2, <2>1
    <3>. QED  BY <1>2, <1>7, <3>1 DEF LeadTo
  <2>2. ASSUME NEW i \in NewsIn(rest), \A j \in NewsIn(rest) : j <= i
        PROVE  NewsWindow(rest[i]) = end
    <3>1. \A j \in NewsIn(s) : j <= i + 1
      BY <1>2, <2>2
    <3>2. i + 1 \in NewsIn(s)
      BY <1>2
    <3>. QED  BY <1>2, <1>7, <3>1, <3>2 DEF LeadTo
  <2>. QED  BY <1>1, <2>1, <2>2 DEF LeadTo
<1>. QED  BY <1>3, <1>6, <1>7 DEF rest

-----------------------------------------------------------------------------
(* Both loops, in the order in which their news take effect. *)
Tasks == UITasks \cup GPUTasks

LEMMA Joined ==
    ASSUME NEW g \in Seq(Tasks), NEW u \in Seq(Tasks)
    PROVE  /\ g \o u \in Seq(Tasks)
           /\ Len(g \o u) = Len(g) + Len(u)
           /\ Len(g) \in Nat /\ Len(u) \in Nat
           /\ \A i \in 1 .. Len(g) : (g \o u)[i] = g[i]
           /\ \A i \in Len(g) + 1 .. Len(g) + Len(u) : (g \o u)[i] = u[i - Len(g)]
  OBVIOUS

LEMMA Loops ==
    ASSUME TypeOK
    PROVE  gpu_loop \in Seq(Tasks) /\ ui_loop \in Seq(Tasks)
  BY DEF TypeOK, Tasks

(* The news of the GPU loop alternate with those of both. *)
LEMMA FirstLoop ==
    ASSUME NEW g \in Seq(Tasks), NEW u \in Seq(Tasks), NEW now, Alternate(g \o u, now)
    PROVE  Alternate(g, now)
<1>. DEFINE s == g \o u
<1>1. /\ Len(s) = Len(g) + Len(u)
      /\ Len(g) \in Nat /\ Len(u) \in Nat
      /\ DOMAIN s = 1 .. Len(s) /\ DOMAIN g = 1 .. Len(g)
      /\ \A i \in 1 .. Len(g) : s[i] = g[i]
  BY Joined
<1>. HIDE DEF s
<1>2. /\ \A i \in NewsIn(g) : i \in NewsIn(s) /\ s[i] = g[i]
      /\ \A i \in NewsIn(g), k \in NewsIn(s) : k \in NewsIn(g) \/ i <= k
  BY <1>1 DEF NewsIn
<1>3. Alternate(s, now)
  BY DEF s
<1>4. ASSUME NEW i \in NewsIn(g), \A j \in NewsIn(g) : i <= j
      PROVE  Changes(now, NewsWindow(g[i]))
  BY <1>2, <1>3, <1>4 DEF Alternate
<1>5. ASSUME NEW i \in NewsIn(g), NEW j \in NewsIn(g), j < i,
             \A k \in NewsIn(g) : k <= j \/ i <= k
      PROVE  Changes(NewsWindow(g[j]), NewsWindow(g[i]))
  <2>1. i \in NewsIn(s) /\ j \in NewsIn(s) /\ \A k \in NewsIn(s) : k <= j \/ i <= k
    BY <1>2, <1>5
  <2>2. Changes(NewsWindow(s[j]), NewsWindow(s[i]))
    BY <1>3, <1>5, <2>1 DEF Alternate
  <2>. QED  BY <1>2, <2>2
<1>. QED  BY <1>4, <1>5 DEF Alternate

(* What happens to the loops: a task without news is taken from the GPU loop, ... *)
LEMMA GPUTakesOther ==
    ASSUME NEW g \in Seq(Tasks), NEW u \in Seq(Tasks), g # <<>>, ~IsNews(Head(g)),
           NEW now, NEW end
    PROVE  /\ Alternate(g, now) => Alternate(Tail(g), now)
           /\ Alternate(g \o u, now) => Alternate(Tail(g) \o u, now)
           /\ LeadTo(g \o u, now, end) => LeadTo(Tail(g) \o u, now, end)
<1>1. /\ Tail(g) \in Seq(Tasks)
      /\ Len(g) \in Nat \ {0} /\ Len(Tail(g)) = Len(g) - 1
      /\ \A i \in 1 .. Len(g) - 1 : Tail(g)[i] = g[i + 1]
      /\ Head(g) = g[1]
  OBVIOUS
<1>2. Alternate(g, now) => Alternate(Tail(g), now)
  <2>1. /\ 1 \in 1 .. Len(g) /\ ~IsNews(g[1])
        /\ \A i \in 1 .. Len(Tail(g)) : Tail(g)[i] = g[IF i < 1 THEN i ELSE i + 1]
    BY <1>1
  <2>. QED  BY <1>1, <2>1, OtherTaken
<1>3. /\ Len(Tail(g) \o u) = Len(g \o u) - 1
      /\ 1 \in 1 .. Len(g \o u)
      /\ (g \o u)[1] = g[1]
      /\ \A i \in 1 .. Len(Tail(g) \o u) : (Tail(g) \o u)[i] = (g \o u)[IF i < 1 THEN i ELSE i + 1]
  BY <1>1, Joined
<1>4. ~IsNews((g \o u)[1]) /\ g \o u \in Seq(Tasks) /\ Tail(g) \o u \in Seq(Tasks)
  BY <1>1, <1>3, Joined
<1>5. /\ Alternate(g \o u, now) => Alternate(Tail(g) \o u, now)
      /\ LeadTo(g \o u, now, end) => LeadTo(Tail(g) \o u, now, end)
  BY <1>3, <1>4, OtherTaken
<1>. QED  BY <1>2, <1>5

(* ... or from the UI loop, ... *)
LEMMA UITakesOther ==
    ASSUME NEW g \in Seq(Tasks), NEW u \in Seq(Tasks), u # <<>>, ~IsNews(Head(u)),
           NEW now, NEW end
    PROVE  /\ Alternate(g \o u, now) => Alternate(g \o Tail(u), now)
           /\ LeadTo(g \o u, now, end) => LeadTo(g \o Tail(u), now, end)
<1>1. /\ Tail(u) \in Seq(Tasks)
      /\ Len(u) \in Nat \ {0} /\ Len(Tail(u)) = Len(u) - 1
      /\ \A i \in 1 .. Len(u) - 1 : Tail(u)[i] = u[i + 1]
      /\ Head(u) = u[1]
  OBVIOUS
<1>. DEFINE p == Len(g) + 1
<1>2. /\ Len(g \o Tail(u)) = Len(g \o u) - 1
      /\ p \in 1 .. Len(g \o u)
      /\ (g \o u)[p] = u[1]
      /\ \A i \in 1 .. Len(g \o Tail(u)) : (g \o Tail(u))[i] = (g \o u)[IF i < p THEN i ELSE i + 1]
  <2>1. \A i \in 1 .. Len(g) : (g \o u)[i] = g[i] /\ (g \o Tail(u))[i] = g[i]
    BY <1>1, Joined
  <2>2. \A i \in Len(g) + 1 .. Len(g) + Len(u) : (g \o u)[i] = u[i - Len(g)]
    BY <1>1, Joined
  <2>3. \A i \in Len(g) + 1 .. Len(g) + Len(Tail(u)) : (g \o Tail(u))[i] = Tail(u)[i - Len(g)]
    BY <1>1, Joined
  <2>4. Len(g \o u) = Len(g) + Len(u) /\ Len(g \o Tail(u)) = Len(g) + Len(Tail(u)) /\ Len(g) \in Nat
    BY <1>1, Joined
  <2>5. ASSUME NEW i \in 1 .. Len(g \o Tail(u))
        PROVE  (g \o Tail(u))[i] = (g \o u)[IF i < p THEN i ELSE i + 1]
    <3>1. CASE i < p
      BY <2>1, <2>4, <3>1
    <3>2. CASE i >= p
      <4>1. (g \o Tail(u))[i] = Tail(u)[i - Len(g)]
        BY <2>3, <2>4, <3>2
      <4>2. Tail(u)[i - Len(g)] = u[i - Len(g) + 1]
        BY <1>1, <2>4, <3>2
      <4>3. (g \o u)[i + 1] = u[i + 1 - Len(g)]
        BY <1>1, <2>2, <2>4, <3>2
      <4>4. i - Len(g) + 1 = i + 1 - Len(g) /\ ~(i < p)
        BY <2>4, <3>2
      <4>. QED  BY <4>1, <4>2, <4>3, <4>4
    <3>. QED  BY <2>4, <3>1, <3>2
  <2>6. (g \o u)[p] = u[1]
    BY <1>1, <2>2, <2>4
  <2>. QED  BY <1>1, <2>4, <2>5, <2>6
<1>3. ~IsNews((g \o u)[p]) /\ g \o u \in Seq(Tasks) /\ g \o Tail(u) \in Seq(Tasks)
  BY <1>1, <1>2, Joined
<1>. HIDE DEF p
<1>. QED  BY <1>2, <1>3, OtherTaken

(* ... or posted to the UI loop; ... *)
LEMMA UIPosts ==
    ASSUME NEW g \in Seq(Tasks), NEW u \in Seq(Tasks), NEW t \in Tasks
    PROVE  g \o Append(u, t) = Append(g \o u, t)
  OBVIOUS

(* ... the engine takes a task and posts one to the GPU loop that means the same; ... *)
LEMMA EnginePasses ==
    ASSUME NEW g \in Seq(Tasks), NEW u \in Seq(Tasks), u # <<>>, NEW t \in Tasks,
           IsNews(t) <=> IsNews(Head(u)),
           IsNews(t) => NewsWindow(t) = NewsWindow(Head(u)),
           NEW now, NEW end
    PROVE  /\ Alternate(g \o u, now) => Alternate(Append(g, t) \o Tail(u), now)
           /\ LeadTo(g \o u, now, end) => LeadTo(Append(g, t) \o Tail(u), now, end)
<1>. DEFINE g2 == Append(g, t)
            u2 == Tail(u)
            p == Len(g) + 1
<1>1. /\ u2 \in Seq(Tasks)
      /\ Len(u) \in Nat \ {0} /\ Len(u2) = Len(u) - 1
      /\ \A i \in 1 .. Len(u) - 1 : u2[i] = u[i + 1]
      /\ Head(u) = u[1]
  OBVIOUS
<1>2. /\ g2 \in Seq(Tasks)
      /\ Len(g) \in Nat /\ Len(g2) = p
      /\ \A i \in 1 .. Len(g) : g2[i] = g[i]
      /\ g2[p] = t
  OBVIOUS
<1>. HIDE DEF g2, u2
<1>3. /\ g \o u \in Seq(Tasks) /\ Len(g \o u) = Len(g) + Len(u)
      /\ \A i \in 1 .. Len(g) : (g \o u)[i] = g[i]
      /\ \A i \in Len(g) + 1 .. Len(g) + Len(u) : (g \o u)[i] = u[i - Len(g)]
  BY Joined
<1>4. /\ g2 \o u2 \in Seq(Tasks) /\ Len(g2 \o u2) = Len(g2) + Len(u2)
      /\ \A i \in 1 .. Len(g2) : (g2 \o u2)[i] = g2[i]
      /\ \A i \in Len(g2) + 1 .. Len(g2) + Len(u2) : (g2 \o u2)[i] = u2[i - Len(g2)]
  BY <1>1, <1>2, Joined
<1>5. Len(g2 \o u2) = Len(g \o u)
  BY <1>1, <1>2, <1>3, <1>4
<1>6. ASSUME NEW i \in 1 .. Len(g \o u)
      PROVE  (i # p /\ (g2 \o u2)[i] = (g \o u)[i]) \/ (i = p /\ (g2 \o u2)[i] = t /\ (g \o u)[i] = Head(u))
  <2>1. CASE i < p
    BY <1>2, <1>3, <1>4, <2>1
  <2>2. CASE i = p
    BY <1>1, <1>2, <1>3, <1>4, <2>2
  <2>3. CASE i > p
    <3>0. /\ i \in Nat /\ Len(g) \in Nat /\ Len(u) \in Nat
          /\ i > Len(g) + 1 /\ i <= Len(g) + Len(u)
          /\ Len(g2) = Len(g) + 1 /\ Len(u2) = Len(u) - 1
      BY <1>1, <1>2, <1>3, <2>3
    <3>. DEFINE k == i - (Len(g) + 1)
    <3>2. /\ k \in 1 .. Len(u) - 1
          /\ k \in 1 .. Len(u2)
          /\ i - Len(g2) = k
          /\ i - Len(g) = k + 1
          /\ i \in Len(g2) + 1 .. Len(g2) + Len(u2)
          /\ i \in Len(g) + 1 .. Len(g) + Len(u)
      BY <3>0
    <3>. HIDE DEF k
    <3>3. (g2 \o u2)[i] = u2[k]
      BY <1>4, <3>2
    <3>4. u2[k] = u[k + 1]
      BY <1>1, <3>2
    <3>5. (g \o u)[i] = u[k + 1]
      BY <1>3, <3>2
    <3>. QED  BY <1>2, <2>3, <3>3, <3>4, <3>5
  <2>4. i \in Nat /\ p \in Nat
    BY <1>1, <1>2, <1>3
  <2>5. i < p \/ i = p \/ i > p
    BY <2>4
  <2>. QED  BY <2>1, <2>2, <2>3, <2>5
<1>7. \A i \in 1 .. Len(g \o u) :
          /\ IsNews((g2 \o u2)[i]) <=> IsNews((g \o u)[i])
          /\ IsNews((g \o u)[i]) => NewsWindow((g2 \o u2)[i]) = NewsWindow((g \o u)[i])
  <2>1. ASSUME NEW i \in 1 .. Len(g \o u)
        PROVE  /\ IsNews((g2 \o u2)[i]) <=> IsNews((g \o u)[i])
               /\ IsNews((g \o u)[i]) => NewsWindow((g2 \o u2)[i]) = NewsWindow((g \o u)[i])
    <3>1. CASE (g2 \o u2)[i] = (g \o u)[i]
      BY <3>1
    <3>2. CASE (g2 \o u2)[i] = t /\ (g \o u)[i] = Head(u)
      BY <3>2
    <3>. QED  BY <1>6, <3>1, <3>2
  <2>. QED  BY <2>1
<1>8. /\ Alternate(g \o u, now) => Alternate(g2 \o u2, now)
      /\ LeadTo(g \o u, now, end) => LeadTo(g2 \o u2, now, end)
  BY <1>3, <1>4, <1>5, <1>7, SameNews
<1>. QED  BY <1>8 DEF g2, u2

(* ... the rasterizer takes news. *)
LEMMA GPUTakesNews ==
    ASSUME NEW g \in Seq(Tasks), NEW u \in Seq(Tasks), g # <<>>
    PROVE  /\ Tail(g) \o u = Tail(g \o u)
           /\ Head(g) = Head(g \o u)
           /\ g \o u # <<>>
  OBVIOUS

(* ... the platform posts to the GPU loop; ... *)
LEMMA GPUGetsOther ==
    ASSUME NEW g \in Seq(Tasks), NEW u \in Seq(Tasks), NEW t \in Tasks, ~IsNews(t),
           NEW now, NEW end
    PROVE  /\ Alternate(g, now) => Alternate(Append(g, t), now)
           /\ Alternate(g \o u, now) => Alternate(Append(g, t) \o u, now)
           /\ LeadTo(g \o u, now, end) => LeadTo(Append(g, t) \o u, now, end)
<1>. DEFINE g2 == Append(g, t)
            p == Len(g) + 1
<1>1. /\ g2 \in Seq(Tasks)
      /\ Len(g) \in Nat /\ Len(u) \in Nat /\ Len(g2) = Len(g) + 1
      /\ \A i \in 1 .. Len(g) : g2[i] = g[i]
      /\ g2[Len(g) + 1] = t
  OBVIOUS
<1>. HIDE DEF g2
<1>2. /\ g \o u \in Seq(Tasks) /\ Len(g \o u) = Len(g) + Len(u)
      /\ \A i \in 1 .. Len(g) : (g \o u)[i] = g[i]
      /\ \A i \in Len(g) + 1 .. Len(g) + Len(u) : (g \o u)[i] = u[i - Len(g)]
  BY Joined
<1>3. /\ g2 \o u \in Seq(Tasks) /\ Len(g2 \o u) = Len(g2) + Len(u)
      /\ \A i \in 1 .. Len(g2) : (g2 \o u)[i] = g2[i]
      /\ \A i \in Len(g2) + 1 .. Len(g2) + Len(u) : (g2 \o u)[i] = u[i - Len(g2)]
  BY <1>1, Joined
<1>4. ASSUME NEW i \in 1 .. Len(g \o u)
      PROVE  (g \o u)[i] = (g2 \o u)[IF i < p THEN i ELSE i + 1]
  <2>0. i \in Nat /\ 1 <= i /\ i <= Len(g) + Len(u)
    BY <1>1, <1>2
  <2>1. CASE i < p
    BY <1>1, <1>2, <1>3, <2>0, <2>1
  <2>2. CASE i >= p
    <3>1. /\ i - Len(g) = i + 1 - Len(g2)
          /\ i \in Len(g) + 1 .. Len(g) + Len(u)
          /\ i + 1 \in Len(g2) + 1 .. Len(g2) + Len(u)
          /\ ~(i < p)
      BY <1>1, <2>0, <2>2
    <3>. QED  BY <1>2, <1>3, <3>1
  <2>. QED  BY <1>1, <2>0, <2>1, <2>2
<1>5. /\ p \in 1 .. Len(g2 \o u)
      /\ (g2 \o u)[p] = t
      /\ Len(g \o u) = Len(g2 \o u) - 1
  BY <1>1, <1>2, <1>3
<1>. HIDE DEF p
<1>6. /\ Alternate(g \o u, now) => Alternate(g2 \o u, now)
      /\ LeadTo(g \o u, now, end) => LeadTo(g2 \o u, now, end)
  BY <1>2, <1>3, <1>4, <1>5, OtherPutIn
<1>7. Alternate(g, now) => Alternate(g2, now)
  BY OtherPosted DEF g2
<1>. QED  BY <1>6, <1>7 DEF g2

-----------------------------------------------------------------------------
(***************************************************************************)
(* The news, as long as there is a rasterizer to take them: those in the   *)
(* GPU loop alternate even after the engine is gone.                       *)
(***************************************************************************)
Consistent(g, u, now, end) == Alternate(g \o u, now) /\ LeadTo(g \o u, now, end)

NewsInv ==
    ProcessRuns /\ rasterizer_alive =>
        /\ Alternate(gpu_loop, surface)
        /\ engine_alive => Consistent(gpu_loop, ui_loop, surface, window)

(* A loop of the engine gets a task that is no news. *)
LEMMA UIGetsOther ==
    ASSUME NEW g \in Seq(Tasks), NEW u \in Seq(Tasks), NEW t \in Tasks, ~IsNews(t),
           NEW now, NEW end, Consistent(g, u, now, end)
    PROVE  Consistent(g, Append(u, t), now, end)
<1>1. g \o u \in Seq(Tasks)
  BY Joined
<1>2. Alternate(Append(g \o u, t), now) /\ LeadTo(Append(g \o u, t), now, end)
  BY <1>1, OtherPosted DEF Consistent
<1>. QED  BY <1>2, UIPosts DEF Consistent

(* A request for a frame posts no news. *)
LEMMA RequestIsNoNews ==
    ASSUME TypeOK, NEW rest \in Seq(UITasks), RequestFrame(rest),
           NEW g \in Seq(Tasks), NEW now, NEW end, Consistent(g, rest, now, end)
    PROVE  Consistent(g, ui_loop', now, end)
<1>1. BeginFrameTask \in Tasks /\ ~IsNews(BeginFrameTask)
  BY DEF BeginFrameTask, Task, Tasks, UITasks, IsNews, SurfaceMethods, WindowMethods
<1>2. rest \in Seq(Tasks)
  BY DEF Tasks
<1>3. Consistent(g, Append(rest, BeginFrameTask), now, end)
  BY <1>1, <1>2, UIGetsOther
<1>4. ui_loop' = rest \/ ui_loop' = Append(rest, BeginFrameTask)
  BY Zenon DEF RequestFrame
<1>. QED  BY <1>3, <1>4, Zenon

(* The tasks that the shell posts beside the news. *)
LEMMA OtherTasksAreNoNews ==
    /\ \A size \in Sizes \cup {EmptySize} : DrawTask(size) \in Tasks /\ ~IsNews(DrawTask(size))
    /\ FrameCompleteTask \in Tasks /\ ~IsNews(FrameCompleteTask)
    /\ Task("Drop<Engine>", NoArg) \in Tasks /\ ~IsNews(Task("Drop<Engine>", NoArg))
    /\ Task("Drop<Rasterizer>", NoArg) \in Tasks /\ ~IsNews(Task("Drop<Rasterizer>", NoArg))
BY DEF DrawTask, FrameCompleteTask, Task, Tasks, UITasks, GPUTasks, IsNews, SurfaceMethods,
       WindowMethods

(* No step but those of the news themselves changes what the news lead to. *)
LEMMA NewsCorrect == SafeSpec => []NewsInv
<1>1. Init => NewsInv
  <2> SUFFICES ASSUME Init PROVE NewsInv
    OBVIOUS
  <2>1. NewsIn(gpu_loop) = {} /\ NewsIn(gpu_loop \o ui_loop) = {}
    BY DEF Init, Task, NewsIn, SurfaceMethods, WindowMethods
  <2>2. surface = window
    BY DEF Init, RasterizerInit
  <2>. QED  BY <2>1, <2>2 DEF NewsInv, Consistent, Alternate, LeadTo
<1>2. TypeOK /\ NewsInv /\ [Next]_vars => NewsInv'
  <2> SUFFICES ASSUME TypeOK, NewsInv, [Next]_vars, ProcessRuns', rasterizer_alive'
               PROVE  /\ Alternate(gpu_loop', surface')
                      /\ engine_alive' => Consistent(gpu_loop', ui_loop', surface', window')
    BY Zenon DEF NewsInv
  <2>1. /\ gpu_loop \in Seq(Tasks) /\ ui_loop \in Seq(Tasks)
        /\ ui_loop \in Seq(UITasks) /\ gpu_loop \in Seq(GPUTasks)
        /\ physical_size \in Sizes \cup {EmptySize}
    BY Loops DEF TypeOK
  <2>2. ASSUME UNCHANGED rasterizer_alive, ProcessRuns
        PROVE  /\ Alternate(gpu_loop, surface)
               /\ engine_alive => Consistent(gpu_loop, ui_loop, surface, window)
    BY <2>2, Zenon DEF NewsInv
  <2>3. CASE SurfaceCreated
    <3>1. PICK w \in Windows :
              /\ window' = w
              /\ ui_loop' = Append(ui_loop, Task("Engine::OnAcceleratedWidgetAvailable", w))
      BY <2>3 DEF SurfaceCreated
    <3>. DEFINE t == Task("Engine::OnAcceleratedWidgetAvailable", w)
    <3>2. t \in Tasks /\ IsNews(t) /\ NewsWindow(t) = w /\ w # NoWindow
      BY MessageLoopsAssumption DEF Task, Tasks, UITasks, IsNews, SurfaceMethods, WindowMethods,
                                    NewsWindow
    <3>3. /\ ProcessRuns /\ window = NoWindow
          /\ UNCHANGED <<gpu_loop, surface, engine_alive, rasterizer_alive>>
      BY <2>3 DEF SurfaceCreated, rasterizer
    <3>4. Changes(window, NewsWindow(t))
      BY <3>2, <3>3 DEF Changes
    <3>. HIDE DEF t
    <3>5. ASSUME engine_alive PROVE Consistent(gpu_loop, Append(ui_loop, t), surface, w)
      <4>1. Alternate(gpu_loop \o ui_loop, surface) /\ LeadTo(gpu_loop \o ui_loop, surface, window)
        BY <2>2, <3>3, <3>5, Zenon DEF Consistent
      <4>2. gpu_loop \o ui_loop \in Seq(Tasks)
        BY <2>1, Joined
      <4>3. /\ Alternate(Append(gpu_loop \o ui_loop, t), surface)
            /\ LeadTo(Append(gpu_loop \o ui_loop, t), surface, NewsWindow(t))
        BY <3>2, <3>4, <4>1, <4>2, NewsPosted
      <4>. QED  BY <2>1, <3>2, <4>3, UIPosts DEF Consistent
    <3>6. ui_loop' = Append(ui_loop, t)
      BY <3>1 DEF t
    <3>. QED  BY <2>2, <3>1, <3>3, <3>5, <3>6, Zenon
  <2>4. CASE SurfaceDestroyed
    <3>. DEFINE t == Task("Engine::OnOutputSurfaceDestroyed", NoArg)
    <3>2. t \in Tasks /\ IsNews(t) /\ NewsWindow(t) = NoWindow
      BY DEF Task, Tasks, UITasks, IsNews, SurfaceMethods, WindowMethods, NewsWindow
    <3>3. /\ ProcessRuns /\ window # NoWindow
          /\ window' = NoWindow
          /\ ui_loop' = Append(ui_loop, t)
          /\ UNCHANGED <<gpu_loop, surface, engine_alive, rasterizer_alive>>
      BY <2>4 DEF SurfaceDestroyed, rasterizer
    <3>4. Changes(window, NewsWindow(t))
      BY <3>2, <3>3 DEF Changes
    <3>. HIDE DEF t
    <3>5. ASSUME engine_alive PROVE Consistent(gpu_loop, Append(ui_loop, t), surface, NoWindow)
      <4>1. Alternate(gpu_loop \o ui_loop, surface) /\ LeadTo(gpu_loop \o ui_loop, surface, window)
        BY <2>2, <3>3, <3>5, Zenon DEF Consistent
      <4>2. gpu_loop \o ui_loop \in Seq(Tasks)
        BY <2>1, Joined
      <4>3. /\ Alternate(Append(gpu_loop \o ui_loop, t), surface)
            /\ LeadTo(Append(gpu_loop \o ui_loop, t), surface, NewsWindow(t))
        BY <3>2, <3>4, <4>1, <4>2, NewsPosted
      <4>. QED  BY <2>1, <3>2, <4>3, UIPosts DEF Consistent
    <3>. QED  BY <2>2, <3>3, <3>5, Zenon
  <2>5. CASE Detach
    <3>. DEFINE d == Task("Drop<Rasterizer>", NoArg)
                e == Task("Drop<Engine>", NoArg)
    <3>1. /\ ProcessRuns
          /\ gpu_loop' = Append(gpu_loop, d)
          /\ ui_loop' = Append(ui_loop, e)
          /\ UNCHANGED <<window, surface, engine_alive, rasterizer_alive>>
      BY <2>5 DEF Detach, rasterizer
    <3>2. d \in Tasks /\ ~IsNews(d) /\ e \in Tasks /\ ~IsNews(e)
      BY OtherTasksAreNoNews
    <3>. HIDE DEF d, e
    <3>3. /\ Alternate(gpu_loop', surface)
          /\ engine_alive => Consistent(gpu_loop', ui_loop, surface, window)
      BY <2>1, <2>2, <3>1, <3>2, GPUGetsOther DEF Consistent
    <3>4. gpu_loop' \in Seq(Tasks)
      BY <2>1, <3>1, <3>2
    <3>5. engine_alive => Consistent(gpu_loop', ui_loop', surface, window)
      BY <2>1, <3>1, <3>2, <3>3, <3>4, UIGetsOther
    <3>. QED  BY <3>1, <3>3, <3>5, Zenon
  <2>6. CASE SendActivityChange \/ SendMetrics \/ SendRun
    <3>1. /\ ProcessRuns
          /\ UNCHANGED <<gpu_loop, ui_loop, window, surface, engine_alive, rasterizer_alive>>
      BY <2>6 DEF SendActivityChange, SendMetrics, SendRun, SendToEngine, rasterizer
    <3>. QED  BY <2>2, <3>1, Zenon
  <2>7. CASE RunConnectToEngine
    <3>1. /\ ProcessRuns
          /\ ui_loop # <<>> /\ ui_loop' = Tail(ui_loop)
          /\ ~IsNews(Head(ui_loop))
          /\ UNCHANGED <<gpu_loop, window, surface, engine_alive, rasterizer_alive>>
      BY <2>7 DEF RunConnectToEngine, AtHead, OutsideEngine, platform, rasterizer, IsNews,
                  SurfaceMethods, WindowMethods
    <3>2. engine_alive => Consistent(gpu_loop, Tail(ui_loop), surface, window)
      BY <2>1, <2>2, <3>1, UITakesOther DEF Consistent
    <3>. QED  BY <2>2, <3>1, <3>2, Zenon
  <2>8. CASE RunWidgetAvailable
    <3>. DEFINE t == Task("Rasterizer::OnAcceleratedWidgetAvailable", Head(ui_loop).arg)
    <3>1. /\ ProcessRuns /\ engine_alive
          /\ ui_loop # <<>> /\ Head(ui_loop).method = "Engine::OnAcceleratedWidgetAvailable"
          /\ gpu_loop' = Append(gpu_loop, t)
          /\ UNCHANGED <<window, surface, engine_alive, rasterizer_alive>>
      BY <2>8 DEF RunWidgetAvailable, OnAcceleratedWidgetAvailable, AtHead, OutsideEngine,
                  platform, rasterizer
    <3>2. Head(ui_loop) \in UITasks /\ Tail(ui_loop) \in Seq(UITasks) /\ Tail(ui_loop) \in Seq(Tasks)
      BY <2>1, <3>1
    <3>3. /\ t \in Tasks
          /\ IsNews(t) /\ IsNews(Head(ui_loop))
          /\ NewsWindow(t) = NewsWindow(Head(ui_loop))
      <4>1. Head(ui_loop).arg \in Windows
        BY <3>1, <3>2 DEF UITasks
      <4>. QED  BY <3>1, <4>1 DEF Task, Tasks, GPUTasks, IsNews, SurfaceMethods, WindowMethods,
                                  NewsWindow
    <3>. HIDE DEF t
    <3>4. Consistent(gpu_loop', Tail(ui_loop), surface, window)
      BY <2>1, <2>2, <3>1, <3>3, EnginePasses DEF Consistent
    <3>5. gpu_loop' \in Seq(Tasks)
      BY <2>1, <3>1, <3>3
    <3>6. Alternate(gpu_loop', surface)
      BY <3>2, <3>4, <3>5, FirstLoop DEF Consistent
    <3>7. RequestFrame(Tail(ui_loop)) \/ ui_loop' = Tail(ui_loop)
      BY <2>8, Zenon DEF RunWidgetAvailable, OnAcceleratedWidgetAvailable, Start
    <3>8. Consistent(gpu_loop', ui_loop', surface, window)
      BY <3>2, <3>4, <3>5, <3>7, RequestIsNoNews
    <3>. QED  BY <3>1, <3>6, <3>8, Zenon
  <2>9. CASE RunOutputSurfaceDestroyed
    <3>. DEFINE t == Task("Rasterizer::OnOutputSurfaceDestroyed", NoArg)
    <3>1. /\ ProcessRuns /\ engine_alive
          /\ ui_loop # <<>> /\ Head(ui_loop).method = "Engine::OnOutputSurfaceDestroyed"
          /\ gpu_loop' = Append(gpu_loop, t)
          /\ ui_loop' = Tail(ui_loop)
          /\ UNCHANGED <<window, surface, engine_alive, rasterizer_alive>>
      BY <2>9 DEF RunOutputSurfaceDestroyed, OnOutputSurfaceDestroyed, AtHead, OutsideEngine,
                  platform, rasterizer
    <3>2. Tail(ui_loop) \in Seq(Tasks)
      BY <2>1, <3>1
    <3>3. /\ t \in Tasks
          /\ IsNews(t) /\ IsNews(Head(ui_loop))
          /\ NewsWindow(t) = NewsWindow(Head(ui_loop))
      BY <3>1 DEF Task, Tasks, GPUTasks, IsNews, SurfaceMethods, WindowMethods, NewsWindow
    <3>. HIDE DEF t
    <3>4. Consistent(gpu_loop', Tail(ui_loop), surface, window)
      BY <2>1, <2>2, <3>1, <3>3, EnginePasses DEF Consistent
    <3>5. gpu_loop' \in Seq(Tasks)
      BY <2>1, <3>1, <3>3
    <3>6. Alternate(gpu_loop', surface)
      BY <3>2, <3>4, <3>5, FirstLoop DEF Consistent
    <3>. QED  BY <3>1, <3>4, <3>6, Zenon
  <2>10. CASE RunBeginFrame \/ RunOnFrameComplete
    <3>1. /\ ProcessRuns /\ engine_alive
          /\ ui_loop # <<>> /\ ~IsNews(Head(ui_loop))
          /\ UNCHANGED <<window, surface, engine_alive, rasterizer_alive>>
      BY <2>10 DEF RunBeginFrame, RunOnFrameComplete, FrameEffect, AtHead, OutsideEngine,
                   platform, rasterizer, IsNews, SurfaceMethods, WindowMethods
    <3>2. /\ ui_loop' = Tail(ui_loop)
          /\ \/ gpu_loop' = gpu_loop
             \/ gpu_loop' = Append(gpu_loop, DrawTask(physical_size))
      BY <2>10, Zenon DEF RunBeginFrame, RunOnFrameComplete, BeginFrame, OnFrameComplete,
                          ProduceFrame
    <3>3. DrawTask(physical_size) \in Tasks /\ ~IsNews(DrawTask(physical_size))
      BY <2>1, OtherTasksAreNoNews
    <3>4. CASE gpu_loop' = gpu_loop
      <4>1. Consistent(gpu_loop, Tail(ui_loop), surface, window)
        BY <2>1, <2>2, <3>1, UITakesOther DEF Consistent
      <4>. QED  BY <2>2, <3>1, <3>2, <3>4, <4>1, Zenon
    <3>5. CASE gpu_loop' = Append(gpu_loop, DrawTask(physical_size))
      <4>1. Consistent(gpu_loop', Tail(ui_loop), surface, window)
        BY <2>1, <2>2, <3>1, <3>3, <3>5, EnginePasses DEF Consistent
      <4>2. Alternate(gpu_loop', surface)
        BY <2>1, <2>2, <3>1, <3>3, <3>5, OtherPosted
      <4>. QED  BY <3>1, <3>2, <4>1, <4>2, Zenon
    <3>. QED  BY <3>2, <3>4, <3>5
  <2>11. CASE DropEngine \/ SkipUITask
    <3>1. /\ ProcessRuns
          /\ UNCHANGED <<gpu_loop, surface, rasterizer_alive>>
      BY <2>11 DEF DropEngine, SkipUITask, OutsideEngine, rasterizer
    <3>2. ~engine_alive'
      BY <2>11, Zenon DEF DropEngine, SkipUITask
    <3>. QED  BY <2>2, <3>1, <3>2, Zenon
  <2>12. CASE DeliverMessage \/ RunDart
    <3>1. /\ ProcessRuns /\ engine_alive
          /\ UNCHANGED <<gpu_loop, window, surface, engine_alive, rasterizer_alive>>
      BY <2>12 DEF DeliverMessage, RunDart, DartMain, EnsureVisualUpdate, OnActivityPaused,
                   OnActivityResumed, OnViewportMetricsChanged, RunProgram, OutsideEngine,
                   platform, rasterizer
    <3>2. RequestFrame(ui_loop) \/ ui_loop' = ui_loop
      BY <2>12, Zenon DEF DeliverMessage, RunDart, DartMain, EnsureVisualUpdate, OnActivityPaused,
                          OnActivityResumed, OnViewportMetricsChanged, RunProgram, Start
    <3>3. Consistent(gpu_loop, ui_loop', surface, window)
      BY <2>1, <2>2, <3>1, <3>2, RequestIsNoNews
    <3>. QED  BY <2>2, <3>1, <3>3, Zenon
  <2>13. CASE RunCreateSurface \/ RunDestroySurface
    <3>. DEFINE h == Head(gpu_loop)
    <3>1. /\ ProcessRuns
          /\ gpu_loop # <<>> /\ gpu_loop' = Tail(gpu_loop)
          /\ IsNews(h)
          /\ UNCHANGED <<ui_loop, window, engine_alive, rasterizer_alive>>
      BY <2>13 DEF RunCreateSurface, RunDestroySurface, AtHead, OutsideRasterizer, platform,
                   IsNews, SurfaceMethods, WindowMethods
    <3>2. surface' = NewsWindow(h)
      <4>1. CASE RunCreateSurface
        <5>1. /\ h.method = "Rasterizer::OnAcceleratedWidgetAvailable"
              /\ surface' = h.arg \/ abort' = GLSurfaceRequired
          BY <4>1, Zenon DEF RunCreateSurface, CreateSurface, AtHead
        <5>. QED  BY <5>1 DEF ProcessRuns, Running, GLSurfaceRequired, NewsWindow, WindowMethods
      <4>2. CASE RunDestroySurface
        <5>1. /\ h.method = "Rasterizer::OnOutputSurfaceDestroyed"
              /\ surface' = NoWindow \/ abort' = NoContext
          BY <4>2, Zenon DEF RunDestroySurface, DestroySurface, AtHead
        <5>. QED  BY <5>1 DEF ProcessRuns, Running, NoContext, NewsWindow, WindowMethods
      <4>. QED  BY <2>13, <4>1, <4>2
    <3>3. Alternate(Tail(gpu_loop), NewsWindow(h))
      BY <2>1, <2>2, <3>1, NewsTaken
    <3>4. ASSUME engine_alive PROVE Consistent(Tail(gpu_loop), ui_loop, NewsWindow(h), window)
      <4>1. /\ gpu_loop \o ui_loop \in Seq(Tasks)
            /\ gpu_loop \o ui_loop # <<>>
            /\ Head(gpu_loop \o ui_loop) = h
            /\ Tail(gpu_loop \o ui_loop) = Tail(gpu_loop) \o ui_loop
        BY <2>1, <3>1, Joined, GPUTakesNews
      <4>2. /\ Alternate(gpu_loop \o ui_loop, surface)
            /\ LeadTo(gpu_loop \o ui_loop, surface, window)
        BY <2>2, <3>1, <3>4 DEF Consistent
      <4>3. /\ Alternate(Tail(gpu_loop \o ui_loop), NewsWindow(h))
            /\ LeadTo(Tail(gpu_loop \o ui_loop), NewsWindow(h), window)
        BY <3>1, <4>1, <4>2, NewsTaken
      <4>. QED  BY <4>1, <4>3 DEF Consistent
    <3>. QED  BY <3>1, <3>2, <3>3, <3>4, Zenon
  <2>14. CASE RunDraw
    <3>1. /\ ProcessRuns
          /\ gpu_loop # <<>> /\ ~IsNews(Head(gpu_loop))
          /\ gpu_loop' = Tail(gpu_loop)
          /\ ui_loop' = Append(ui_loop, FrameCompleteTask)
          /\ UNCHANGED <<window, surface, engine_alive, rasterizer_alive>>
      BY <2>14 DEF RunDraw, Draw, AtHead, OutsideRasterizer, platform, rasterizer, IsNews,
                   SurfaceMethods, WindowMethods
    <3>2. /\ Alternate(gpu_loop', surface)
          /\ engine_alive => Consistent(gpu_loop', ui_loop, surface, window)
      BY <2>1, <2>2, <3>1, GPUTakesOther DEF Consistent
    <3>3. gpu_loop' \in Seq(Tasks)
      BY <2>1, <3>1
    <3>4. engine_alive => Consistent(gpu_loop', ui_loop', surface, window)
      BY <2>1, <3>1, <3>2, <3>3, UIGetsOther, OtherTasksAreNoNews
    <3>. QED  BY <3>1, <3>2, <3>4, Zenon
  <2>15. CASE DropRasterizer \/ SkipGPUTask
    BY <2>15, Zenon DEF DropRasterizer, SkipGPUTask, OutsideRasterizer
  <2>16. CASE UNCHANGED vars
    <3>1. /\ UNCHANGED <<gpu_loop, ui_loop, window, surface, engine_alive, rasterizer_alive>>
          /\ ProcessRuns
      BY <2>16 DEF vars, platform, rasterizer, ProcessRuns
    <3>. QED  BY <2>2, <3>1, Zenon
  <2>. QED
    BY <2>3, <2>4, <2>5, <2>6, <2>7, <2>8, <2>9, <2>10, <2>11, <2>12, <2>13, <2>14, <2>15, <2>16
       DEF Next, PlatformThread, UILoop, GPULoop
<1>. QED  BY <1>1, <1>2, TypeCorrect, PTL DEF SafeSpec

(***************************************************************************)
(* What OnAcceleratedWidgetAvailable and OnOutputSurfaceDestroyed tell the *)
(* engine (sky/shell/ui/engine.cc) reaches the rasterizer once and in      *)
(* order, and leads to the window of the platform view, for any windows    *)
(* and however many tasks are posted between.                              *)
(***************************************************************************)
THEOREM NewsReachRasterizer == SafeSpec => []SurfaceNewsLeadToWindow
<1>1. NewsInv => SurfaceNewsLeadToWindow
  BY Zenon DEF NewsInv, Consistent, SurfaceNewsLeadToWindow
<1>. QED  BY <1>1, NewsCorrect, PTL

(***************************************************************************)
(* A GL context exists only on a surface and a Skia surface only in a      *)
(* context (sky/shell/gpu/rasterizer.cc): since news alternate, a surface  *)
(* is made only where there was none.                                      *)
(***************************************************************************)
THEOREM GLObjectsLiveOnSurface == SafeSpec => []GLObjectsNeedSurface
<1>1. Init => GLObjectsNeedSurface
  BY DEF Init, RasterizerInit, GLObjectsNeedSurface
<1>2. TypeOK /\ NewsInv /\ GLObjectsNeedSurface /\ [Next]_vars => GLObjectsNeedSurface'
  <2> SUFFICES ASSUME TypeOK, NewsInv, GLObjectsNeedSurface, [Next]_vars
               PROVE  GLObjectsNeedSurface'
    OBVIOUS
  <2>1. CASE RunCreateSurface
    <3>. DEFINE h == Head(gpu_loop)
    <3>1. /\ gpu_loop # <<>> /\ IsNews(h)
          /\ h.method = "Rasterizer::OnAcceleratedWidgetAvailable"
          /\ ProcessRuns /\ rasterizer_alive
      BY <2>1 DEF RunCreateSurface, AtHead, IsNews, SurfaceMethods, WindowMethods
    <3>2. gpu_loop \in Seq(Tasks) /\ h \in GPUTasks
      BY <3>1, Loops DEF TypeOK
    <3>3. Changes(surface, NewsWindow(h))
      BY <3>1, <3>2, NewsTaken DEF NewsInv
    <3>4. NewsWindow(h) \in Windows
      BY <3>1, <3>2 DEF NewsWindow, WindowMethods, GPUTasks
    <3>5. surface = NoWindow
      BY <3>3, <3>4, MessageLoopsAssumption DEF Changes
    <3>6. UNCHANGED <<context, ganesh_surface>>
      BY <2>1, Zenon DEF RunCreateSurface, CreateSurface
    <3>. QED  BY <3>5, <3>6 DEF GLObjectsNeedSurface
  <2>2. CASE RunDraw
    BY <2>2 DEF RunDraw, Draw, rasterizer, GLObjectsNeedSurface
  <2>3. CASE RunDestroySurface
    BY <2>3 DEF RunDestroySurface, DestroySurface, rasterizer, GLObjectsNeedSurface
  <2>4. CASE UNCHANGED rasterizer
    BY <2>4 DEF rasterizer, GLObjectsNeedSurface
  <2>5. RunCreateSurface \/ RunDraw \/ RunDestroySurface \/ UNCHANGED rasterizer
    BY DEF Next, PlatformThread, UILoop, GPULoop, SurfaceCreated, SurfaceDestroyed, Detach,
           SendActivityChange, SendMetrics, SendRun, SendToEngine, RunConnectToEngine,
           RunWidgetAvailable, RunOutputSurfaceDestroyed, RunBeginFrame, RunOnFrameComplete,
           FrameEffect, DropEngine, SkipUITask, DeliverMessage, RunDart, DropRasterizer,
           SkipGPUTask, OutsideEngine, vars
  <2>. QED  BY <2>1, <2>2, <2>3, <2>4, <2>5
<1>. QED  BY <1>1, <1>2, TypeCorrect, NewsCorrect, PTL DEF SafeSpec
-----------------------------------------------------------------------------
(* ShellView implements FrameScheduler. *)

Carries(loop, method) == \E i \in DOMAIN loop : loop[i].method = method

(* A frame that began is drawn or is to be acknowledged. *)
InFlight == \/ Carries(gpu_loop, "Rasterizer::Draw")
            \/ Carries(ui_loop, "Animator::OnFrameComplete")

LEMMA PostCarries ==
    ASSUME NEW T, NEW loop \in Seq(T), NEW t \in T, NEW m
    PROVE  Carries(Append(loop, t), m) <=> Carries(loop, m) \/ t.method = m
<1>1. /\ \A i \in 1 .. Len(loop) : Append(loop, t)[i] = loop[i]
      /\ Append(loop, t)[Len(loop) + 1] = t
      /\ DOMAIN Append(loop, t) = 1 .. Len(loop) + 1
      /\ DOMAIN loop = 1 .. Len(loop)
      /\ Len(loop) \in Nat
  OBVIOUS
<1>. QED  BY <1>1 DEF Carries

LEMMA TakeCarries ==
    ASSUME NEW T, NEW loop \in Seq(T), loop # <<>>, NEW m
    PROVE  Carries(loop, m) <=> Carries(Tail(loop), m) \/ Head(loop).method = m
<1>1. /\ Head(loop) = loop[1]
      /\ Len(loop) \in Nat \ {0}
      /\ DOMAIN loop = 1 .. Len(loop)
      /\ DOMAIN Tail(loop) = 1 .. Len(loop) - 1
      /\ \A i \in 1 .. Len(loop) - 1 : Tail(loop)[i] = loop[i + 1]
  OBVIOUS
<1>2. ASSUME NEW i \in DOMAIN loop, loop[i].method = m
      PROVE  Carries(Tail(loop), m) \/ Head(loop).method = m
  <2>1. CASE i = 1
    BY <1>1, <1>2, <2>1
  <2>2. CASE i # 1
    <3>1. i - 1 \in 1 .. Len(loop) - 1 /\ (i - 1) + 1 = i
      BY <1>1, <2>2
    <3>. QED  BY <1>1, <1>2, <3>1 DEF Carries
  <2>. QED  BY <2>1, <2>2
<1>3. ASSUME NEW i \in DOMAIN Tail(loop), Tail(loop)[i].method = m PROVE Carries(loop, m)
  <2>1. i + 1 \in DOMAIN loop /\ loop[i + 1].method = m
    BY <1>1, <1>3
  <2>. QED  BY <2>1 DEF Carries
<1>4. Head(loop).method = m => Carries(loop, m)
  BY <1>1 DEF Carries
<1>. QED  BY <1>2, <1>3, <1>4 DEF Carries

(* Where there is at most one frame task, counting is asking whether there is one. *)
LEMMA CountIs ==
    ASSUME NEW loop, AtMostOneFrame(loop), NEW m \in FrameMethods
    PROVE  CountOf(loop, m) = IF Carries(loop, m) THEN 1 ELSE 0
<1> DEFINE S == {i \in DOMAIN loop : loop[i].method = m}
<1>1. CASE Carries(loop, m)
  <2>1. PICK i \in DOMAIN loop : loop[i].method = m
    BY <1>1 DEF Carries
  <2>2. S = {i}
    BY <2>1 DEF AtMostOneFrame
  <2>3. Cardinality(S) = 1
    BY <2>2, FS_Singleton, Zenon
  <2>. QED  BY <1>1, <2>3 DEF CountOf
<1>2. CASE ~Carries(loop, m)
  <2>1. S = {}
    BY <1>2 DEF Carries
  <2>2. Cardinality(S) = 0
    BY <2>1, FS_EmptySet, Zenon
  <2>. QED  BY <1>2, <2>2 DEF CountOf
<1>. QED  BY <1>1, <1>2

LEMMA CarriesSome ==
    ASSUME NEW loop, NEW m \in FrameMethods, Carries(loop, m)
    PROVE  CarriesFrame(loop)
BY DEF Carries, CarriesFrame

LEMMA FramesInFlight ==
    ASSUME NEW gpu, NEW ui, AtMostOneFrame(gpu), AtMostOneFrame(ui),
           ~(CarriesFrame(ui) /\ CarriesFrame(gpu))
    PROVE  CountOf(gpu, "Rasterizer::Draw") + CountOf(ui, "Animator::OnFrameComplete")
               = IF \/ Carries(gpu, "Rasterizer::Draw")
                    \/ Carries(ui, "Animator::OnFrameComplete") THEN 1 ELSE 0
<1>1. "Rasterizer::Draw" \in FrameMethods /\ "Animator::OnFrameComplete" \in FrameMethods
  BY DEF FrameMethods
<1>2. /\ CountOf(gpu, "Rasterizer::Draw")
           = IF Carries(gpu, "Rasterizer::Draw") THEN 1 ELSE 0
      /\ CountOf(ui, "Animator::OnFrameComplete")
           = IF Carries(ui, "Animator::OnFrameComplete") THEN 1 ELSE 0
  BY <1>1, CountIs
<1>3. ~(Carries(gpu, "Rasterizer::Draw") /\ Carries(ui, "Animator::OnFrameComplete"))
  BY <1>1, CarriesSome, Zenon
<1>. QED  BY <1>2, <1>3

(* What a step has to be like to be one of the frame scheduler. *)
LEMMA SchedulerStep ==
    ASSUME OneFrameTask, OneFrameTask', engine_requested_frame \in BOOLEAN,
           engine_requested_frame' \in BOOLEAN,
           \/ (InFlight' <=> InFlight) /\ frame' = frame
           \/ /\ InFlight /\ ~InFlight' /\ frame' = frame
              /\ engine_requested_frame' = engine_requested_frame
           \/ engine_requested_frame /\ InFlight' /\ frame' = 1 - frame
    PROVE  [FS!Next]_(FS!vars)
<1> DEFINE n == CountOf(gpu_loop, "Rasterizer::Draw")
                   + CountOf(ui_loop, "Animator::OnFrameComplete")
<1>1. n = IF InFlight THEN 1 ELSE 0
  BY FramesInFlight, Zenon DEF OneFrameTask, InFlight
<1>2. n' = IF InFlight' THEN 1 ELSE 0
  BY FramesInFlight, Zenon DEF OneFrameTask, InFlight
<1> HIDE DEF n
<1>3. CASE (InFlight' <=> InFlight) /\ frame' = frame
  <2>1. n' = n
    BY <1>1, <1>2, <1>3, Zenon
  <2>2. engine_requested_frame' = TRUE \/ engine_requested_frame' = FALSE
    BY Zenon
  <2>. QED  BY <1>3, <2>1, <2>2, Zenon DEF FS!Next, FS!Request, FS!Cancel, n
<1>4. CASE /\ InFlight /\ ~InFlight' /\ frame' = frame
           /\ engine_requested_frame' = engine_requested_frame
  <2>1. n = 1 /\ n' = 0
    BY <1>1, <1>2, <1>4, Zenon
  <2>. QED  BY <1>4, <2>1, Zenon DEF FS!Next, FS!Finish, n
<1>5. CASE engine_requested_frame /\ InFlight' /\ frame' = 1 - frame
  <2>1. CASE InFlight
    <3>1. n = 1 /\ n' = 1
      BY <1>1, <1>2, <1>5, <2>1, Zenon
    <3>. QED  BY <1>5, <3>1, Zenon DEF FS!Next, FS!FinishAndBegin, n
  <2>2. CASE ~InFlight
    <3>1. n = 0 /\ n' = 1
      BY <1>1, <1>2, <1>5, <2>2, Zenon
    <3>. QED  BY <1>5, <3>1, Zenon DEF FS!Next, FS!Begin, n
  <2>. QED  BY <2>1, <2>2
<1>. QED  BY <1>3, <1>4, <1>5, Zenon

(* Posting and taking tasks that neither draw nor acknowledge. *)
LEMMA OtherFlight ==
    ASSUME TypeOK, frame' = frame,
           \/ ui_loop' = ui_loop
           \/ \E t \in UITasks : /\ t.method # "Animator::OnFrameComplete"
                                  /\ \/ ui_loop' = Append(ui_loop, t)
                                     \/ /\ ui_loop # <<>>
                                        /\ Head(ui_loop).method # "Animator::OnFrameComplete"
                                        /\ ui_loop' = Append(Tail(ui_loop), t)
           \/ /\ ui_loop # <<>> /\ ui_loop' = Tail(ui_loop)
              /\ Head(ui_loop).method # "Animator::OnFrameComplete",
           \/ gpu_loop' = gpu_loop
           \/ \E t \in GPUTasks : /\ t.method # "Rasterizer::Draw"
                                   /\ gpu_loop' = Append(gpu_loop, t)
           \/ /\ gpu_loop # <<>> /\ gpu_loop' = Tail(gpu_loop)
              /\ Head(gpu_loop).method # "Rasterizer::Draw"
    PROVE  (InFlight' <=> InFlight) /\ frame' = frame
<1>1. ui_loop \in Seq(UITasks) /\ gpu_loop \in Seq(GPUTasks)
  BY DEF TypeOK
<1> DEFINE done == "Animator::OnFrameComplete"
           draw == "Rasterizer::Draw"
<1> HIDE DEF done, draw
<1>2. Carries(ui_loop', done) <=> Carries(ui_loop, done)
  <2>1. \A t \in UITasks : Carries(Append(ui_loop, t), done)
                               <=> Carries(ui_loop, done) \/ t.method = done
    BY <1>1, PostCarries
  <2>2. ASSUME ui_loop # <<>>
        PROVE  /\ Carries(ui_loop, done) <=> Carries(Tail(ui_loop), done) \/ Head(ui_loop).method = done
               /\ \A t \in UITasks : Carries(Append(Tail(ui_loop), t), done)
                               <=> Carries(Tail(ui_loop), done) \/ t.method = done
    <3>1. Tail(ui_loop) \in Seq(UITasks)
      BY <1>1, <2>2
    <3>2. \A t \in UITasks : Carries(Append(Tail(ui_loop), t), done)
                               <=> Carries(Tail(ui_loop), done) \/ t.method = done
      BY <3>1, PostCarries
    <3>3. Carries(ui_loop, done) <=> Carries(Tail(ui_loop), done) \/ Head(ui_loop).method = done
      BY <1>1, <2>2, TakeCarries
    <3>. QED  BY <3>2, <3>3
  <2>. QED  BY <2>1, <2>2, Zenon DEF done
<1>3. Carries(gpu_loop', draw) <=> Carries(gpu_loop, draw)
  <2>1. \A t \in GPUTasks : Carries(Append(gpu_loop, t), draw)
                               <=> Carries(gpu_loop, draw) \/ t.method = draw
    BY <1>1, PostCarries
  <2>2. ASSUME gpu_loop # <<>>
        PROVE  Carries(gpu_loop, draw) <=> Carries(Tail(gpu_loop), draw) \/ Head(gpu_loop).method = draw
    BY <1>1, <2>2, TakeCarries
  <2>. QED  BY <2>1, <2>2, Zenon DEF draw
<1>. QED  BY <1>2, <1>3, Zenon DEF InFlight, done, draw

(* Both kinds of tasks the loops pass on without a frame. *)
LEMMA RequestFlight ==
    ASSUME NEW rest, RequestFrame(rest)
    PROVE  /\ ui_loop' = rest \/ ui_loop' = Append(rest, BeginFrameTask)
           /\ BeginFrameTask \in UITasks /\ BeginFrameTask.method # "Animator::OnFrameComplete"
<1>1. ui_loop' = rest \/ ui_loop' = Append(rest, BeginFrameTask)
  BY DEF RequestFrame
<1>2. BeginFrameTask \in UITasks /\ BeginFrameTask.method # "Animator::OnFrameComplete"
  BY DEF BeginFrameTask, Task, UITasks
<1>. QED  BY <1>1, <1>2

(* A frame of the animator: its task is the only one in flight, or to be. *)
LEMMA FrameFlight ==
    ASSUME TypeOK, OneFrameTask, OneFrameTask', ui_loop # <<>>,
           Head(ui_loop).method \in {"Animator::BeginFrame", "Animator::OnFrameComplete"},
           NEW again \in BOOLEAN,
           \/ /\ Head(ui_loop).method = "Animator::BeginFrame"
              /\ BeginFrame(Tail(ui_loop), again, physical_size)
           \/ /\ Head(ui_loop).method = "Animator::OnFrameComplete"
              /\ OnFrameComplete(Tail(ui_loop), again, physical_size)
    PROVE  \/ (InFlight' <=> InFlight) /\ frame' = frame
           \/ /\ InFlight /\ ~InFlight' /\ frame' = frame
              /\ engine_requested_frame' = engine_requested_frame
           \/ engine_requested_frame /\ InFlight' /\ frame' = 1 - frame
<1>1. ui_loop \in Seq(UITasks) /\ gpu_loop \in Seq(GPUTasks)
  BY DEF TypeOK
<1> DEFINE t == DrawTask(physical_size)
<1>2. t \in GPUTasks /\ t.method = "Rasterizer::Draw"
  BY DEF DrawTask, Task, GPUTasks, TypeOK
<1>3. CASE ProduceFrame(Tail(ui_loop), again, physical_size) /\ engine_requested_frame
  <2>1. Carries(gpu_loop', "Rasterizer::Draw") /\ frame' = 1 - frame
    <3>1. gpu_loop' = Append(gpu_loop, t) /\ frame' = 1 - frame
      BY <1>3 DEF ProduceFrame
    <3> HIDE DEF t
    <3>. QED  BY <1>1, <1>2, <3>1, PostCarries
  <2>. QED  BY <1>3, <2>1, Zenon DEF InFlight
<1>4. CASE /\ ui_loop' = Tail(ui_loop) /\ gpu_loop' = gpu_loop /\ frame' = frame
           /\ engine_requested_frame' = engine_requested_frame
  <2>1. /\ CarriesFrame(ui_loop) /\ ~CarriesFrame(Tail(ui_loop))
        /\ ~CarriesFrame(gpu_loop)
    <3>1. Head(ui_loop).method \in FrameMethods
      BY DEF FrameMethods
    <3>. QED  BY <1>1, <3>1, TakeTask, Zenon DEF OneFrameTask
  <2>2. ~Carries(ui_loop', "Animator::OnFrameComplete") /\ ~Carries(gpu_loop', "Rasterizer::Draw")
    <3>1. "Rasterizer::Draw" \in FrameMethods /\ "Animator::OnFrameComplete" \in FrameMethods
      BY DEF FrameMethods
    <3>. QED  BY <1>4, <2>1, <3>1, CarriesSome, Zenon
  <2>. QED  BY <1>4, <2>2, Zenon DEF InFlight
<1>5. \/ ProduceFrame(Tail(ui_loop), again, physical_size) /\ engine_requested_frame
      \/ /\ ui_loop' = Tail(ui_loop) /\ gpu_loop' = gpu_loop /\ frame' = frame
         /\ engine_requested_frame' = engine_requested_frame
  BY Zenon DEF BeginFrame, OnFrameComplete
<1>. QED  BY <1>3, <1>4, <1>5, Zenon

LEMMA RefinementStep ==
    ASSUME TypeOK, TypeOK', OneFrameTask, OneFrameTask', [Next]_vars
    PROVE  [FS!Next]_(FS!vars)
<1> DEFINE Same == (InFlight' <=> InFlight) /\ frame' = frame
           Steps == \/ Same
                    \/ /\ InFlight /\ ~InFlight' /\ frame' = frame
                       /\ engine_requested_frame' = engine_requested_frame
                    \/ engine_requested_frame /\ InFlight' /\ frame' = 1 - frame
<1>0. ui_loop \in Seq(UITasks) /\ gpu_loop \in Seq(GPUTasks)
  BY DEF TypeOK
<1>1. CASE SurfaceCreated \/ SurfaceDestroyed \/ Detach
  <2>1. \A w \in Windows :
            /\ Task("Engine::OnAcceleratedWidgetAvailable", w) \in UITasks
            /\ Task("Engine::OnAcceleratedWidgetAvailable", w).method # "Animator::OnFrameComplete"
    BY DEF Task, UITasks
  <2>2. /\ Task("Engine::OnOutputSurfaceDestroyed", NoArg) \in UITasks
        /\ Task("Engine::OnOutputSurfaceDestroyed", NoArg).method # "Animator::OnFrameComplete"
        /\ Task("Drop<Engine>", NoArg) \in UITasks
        /\ Task("Drop<Engine>", NoArg).method # "Animator::OnFrameComplete"
        /\ Task("Drop<Rasterizer>", NoArg) \in GPUTasks
        /\ Task("Drop<Rasterizer>", NoArg).method # "Rasterizer::Draw"
    BY DEF Task, UITasks, GPUTasks
  <2>3. /\ \E t \in UITasks : t.method # "Animator::OnFrameComplete" /\ ui_loop' = Append(ui_loop, t)
        /\ \/ gpu_loop' = gpu_loop
           \/ \E t \in GPUTasks : t.method # "Rasterizer::Draw" /\ gpu_loop' = Append(gpu_loop, t)
        /\ frame' = frame
    BY <1>1, <2>1, <2>2, Zenon DEF SurfaceCreated, SurfaceDestroyed, Detach, animator
  <2>4. Same
    BY <2>3, OtherFlight, Zenon
  <2>. QED  BY <2>4, SchedulerStep, Zenon DEF TypeOK
<1>2. CASE SendActivityChange \/ SendMetrics \/ SendRun \/ UNCHANGED vars
  <2>1. ui_loop' = ui_loop /\ gpu_loop' = gpu_loop /\ frame' = frame
    BY <1>2, Zenon DEF SendActivityChange, SendMetrics, SendRun, SendToEngine, animator, vars
  <2>. QED  BY <2>1, OtherFlight, SchedulerStep, Zenon DEF TypeOK
<1>3. CASE RunConnectToEngine \/ DropEngine
  <2>1. /\ ui_loop # <<>> /\ ui_loop' = Tail(ui_loop)
        /\ Head(ui_loop).method # "Animator::OnFrameComplete"
        /\ gpu_loop' = gpu_loop /\ frame' = frame
    BY <1>3 DEF RunConnectToEngine, DropEngine, AtHead, animator
  <2>. QED  BY <2>1, OtherFlight, SchedulerStep, Zenon DEF TypeOK
<1>4. CASE RunWidgetAvailable
  <2> DEFINE t == Task("Rasterizer::OnAcceleratedWidgetAvailable", Head(ui_loop).arg)
  <2>1. /\ ui_loop # <<>> /\ Head(ui_loop).method = "Engine::OnAcceleratedWidgetAvailable"
        /\ Head(ui_loop).method # "Animator::OnFrameComplete"
        /\ gpu_loop' = Append(gpu_loop, t)
    BY <1>4 DEF RunWidgetAvailable, OnAcceleratedWidgetAvailable, AtHead
  <2>2. t \in GPUTasks /\ t.method # "Rasterizer::Draw"
    <3>1. Head(ui_loop) \in UITasks
      BY <1>0, <2>1
    <3>. QED  BY <2>1, <3>1 DEF UITasks, GPUTasks, Task
  <2>3. frame' = frame
    BY <1>4 DEF RunWidgetAvailable, OnAcceleratedWidgetAvailable, Start, animator
  <2>4. ui_loop' = Tail(ui_loop) \/ RequestFrame(Tail(ui_loop))
    BY <1>4, Zenon DEF RunWidgetAvailable, OnAcceleratedWidgetAvailable, Start
  <2>5. \/ ui_loop' = Tail(ui_loop)
        \/ ui_loop' = Append(Tail(ui_loop), BeginFrameTask)
    BY <2>4, RequestFlight, Zenon
  <2>6. BeginFrameTask \in UITasks /\ BeginFrameTask.method # "Animator::OnFrameComplete"
    BY DEF BeginFrameTask, Task, UITasks
  <2> HIDE DEF t
  <2>7. Same
    BY <2>1, <2>2, <2>3, <2>5, <2>6, OtherFlight, Zenon
  <2>. QED  BY <2>7, SchedulerStep, Zenon DEF TypeOK
<1>5. CASE RunOutputSurfaceDestroyed
  <2>1. /\ Task("Rasterizer::OnOutputSurfaceDestroyed", NoArg) \in GPUTasks
        /\ Task("Rasterizer::OnOutputSurfaceDestroyed", NoArg).method # "Rasterizer::Draw"
    BY DEF Task, GPUTasks
  <2>2. /\ ui_loop # <<>> /\ ui_loop' = Tail(ui_loop)
        /\ Head(ui_loop).method # "Animator::OnFrameComplete"
        /\ gpu_loop' = Append(gpu_loop, Task("Rasterizer::OnOutputSurfaceDestroyed", NoArg))
        /\ frame' = frame
    BY <1>5 DEF RunOutputSurfaceDestroyed, OnOutputSurfaceDestroyed, Stop, AtHead
  <2>. QED  BY <2>1, <2>2, OtherFlight, SchedulerStep, Zenon DEF TypeOK
<1>6. CASE RunBeginFrame \/ RunOnFrameComplete
  <2>1. PICK again \in BOOLEAN :
            \/ /\ AtHead(ui_loop, "Animator::BeginFrame")
               /\ BeginFrame(Tail(ui_loop), again, physical_size)
            \/ /\ AtHead(ui_loop, "Animator::OnFrameComplete")
               /\ OnFrameComplete(Tail(ui_loop), again, physical_size)
    BY <1>6 DEF RunBeginFrame, RunOnFrameComplete
  <2>2. Steps
    <3>1. /\ ui_loop # <<>>
          /\ Head(ui_loop).method \in {"Animator::BeginFrame", "Animator::OnFrameComplete"}
          /\ \/ /\ Head(ui_loop).method = "Animator::BeginFrame"
                /\ BeginFrame(Tail(ui_loop), again, physical_size)
             \/ /\ Head(ui_loop).method = "Animator::OnFrameComplete"
                /\ OnFrameComplete(Tail(ui_loop), again, physical_size)
      BY <2>1, Zenon DEF AtHead
    <3>. QED  BY <3>1, FrameFlight, Zenon
  <2>. QED  BY <2>2, SchedulerStep, Zenon DEF TypeOK
(* What is left in the loops is skipped when the engine is gone: an acknowledgement, too. *)
<1>7. CASE SkipUITask
  <2>1. /\ ui_loop # <<>> /\ ui_loop' = Tail(ui_loop) /\ gpu_loop' = gpu_loop
        /\ frame' = frame /\ engine_requested_frame' = engine_requested_frame
    BY <1>7 DEF SkipUITask, animator
  <2>2. Carries(ui_loop', "Animator::OnFrameComplete") => Carries(ui_loop, "Animator::OnFrameComplete")
    BY <1>0, <2>1, TakeCarries
  <2>3. InFlight' => InFlight
    BY <2>1, <2>2, Zenon DEF InFlight
  <2>4. Steps
    BY <2>1, <2>3, Zenon
  <2>. QED  BY <2>4, SchedulerStep, Zenon DEF TypeOK
<1>8. CASE DeliverMessage \/ RunDart
  <2>1. /\ gpu_loop' = gpu_loop /\ frame' = frame
        /\ ui_loop' = ui_loop \/ RequestFrame(ui_loop)
    <3>1. CASE DeliverMessage
      BY <3>1, Zenon DEF DeliverMessage, OnActivityPaused, OnActivityResumed,
         OnViewportMetricsChanged, RunProgram, Stop, Start, animator
    <3>2. CASE RunDart
      BY <3>2, Zenon DEF RunDart, DartMain, EnsureVisualUpdate, animator
    <3>. QED  BY <1>8, <3>1, <3>2
  <2>2. ui_loop' = ui_loop \/ ui_loop' = Append(ui_loop, BeginFrameTask)
    BY <2>1, RequestFlight, Zenon
  <2>3. BeginFrameTask \in UITasks /\ BeginFrameTask.method # "Animator::OnFrameComplete"
    BY DEF BeginFrameTask, Task, UITasks
  <2>4. Same
    BY <2>1, <2>2, <2>3, OtherFlight, Zenon
  <2>. QED  BY <2>4, SchedulerStep, Zenon DEF TypeOK
<1>9. CASE RunCreateSurface \/ RunDestroySurface \/ DropRasterizer \/ SkipGPUTask
  <2>1. /\ gpu_loop # <<>> /\ gpu_loop' = Tail(gpu_loop)
        /\ Head(gpu_loop).method # "Rasterizer::Draw"
        /\ ui_loop' = ui_loop /\ frame' = frame
    BY <1>9 DEF RunCreateSurface, RunDestroySurface, DropRasterizer, SkipGPUTask, AtHead,
       OutsideRasterizer, animator
  <2>. QED  BY <2>1, OtherFlight, SchedulerStep, Zenon DEF TypeOK
(* The frame that was to be drawn is to be acknowledged. *)
<1>10. CASE RunDraw
  <2>1. /\ gpu_loop # <<>> /\ Head(gpu_loop).method = "Rasterizer::Draw"
        /\ ui_loop' = Append(ui_loop, FrameCompleteTask)
        /\ frame' = frame
    BY <1>10 DEF RunDraw, AtHead, OutsideRasterizer, animator
  <2>2. FrameCompleteTask \in UITasks /\ FrameCompleteTask.method = "Animator::OnFrameComplete"
    BY DEF FrameCompleteTask, Task, UITasks
  <2>3. Carries(ui_loop', "Animator::OnFrameComplete") /\ Carries(gpu_loop, "Rasterizer::Draw")
    BY <1>0, <2>1, <2>2, PostCarries, TakeCarries
  <2>4. Same
    BY <2>1, <2>3, Zenon DEF InFlight
  <2>. QED  BY <2>4, SchedulerStep, Zenon DEF TypeOK
<1>. QED
  BY <1>1, <1>2, <1>3, <1>4, <1>5, <1>6, <1>7, <1>8, <1>9, <1>10, Zenon
     DEF Next, PlatformThread, UILoop, GPULoop

(***************************************************************************)
(* Every behaviour of the shell is one of the frame scheduler, for any     *)
(* windows, sizes and number of messages: however the engine is stopped,   *)
(* started and dropped around Animator::BeginFrame and OnFrameComplete, a  *)
(* frame begins only on request and when none is in flight.                *)
(***************************************************************************)
THEOREM ShellIsFrameScheduler == SafeSpec => AnimatorIsFrameScheduler
<1>1. Init => FS!Init
  <2> SUFFICES ASSUME Init PROVE FS!Init
    OBVIOUS
  <2>1. /\ AtMostOneFrame(gpu_loop) /\ ~CarriesFrame(gpu_loop)
        /\ AtMostOneFrame(ui_loop) /\ ~CarriesFrame(ui_loop)
    BY DEF Init, AtMostOneFrame, CarriesFrame, FrameMethods, Task
  <2>2. ~Carries(gpu_loop, "Rasterizer::Draw") /\ ~Carries(ui_loop, "Animator::OnFrameComplete")
    BY DEF Init, Carries, Task
  <2>3. CountOf(gpu_loop, "Rasterizer::Draw") + CountOf(ui_loop, "Animator::OnFrameComplete") = 0
    BY <2>1, <2>2, FramesInFlight, Zenon
  <2>4. engine_requested_frame = FALSE /\ frame = 0
    BY DEF Init, EngineInit, AnimatorInit
  <2>. QED  BY <2>3, <2>4, Zenon DEF FS!Init
<1>2. TypeOK /\ TypeOK' /\ OneFrameTask /\ OneFrameTask' /\ [Next]_vars => [FS!Next]_(FS!vars)
  BY RefinementStep
<1>. QED  BY <1>1, <1>2, TypeCorrect, OneTaskCarriesTheFrame, PTL
          DEF SafeSpec, AnimatorIsFrameScheduler, FS!SafeSpec
=============================================================================
