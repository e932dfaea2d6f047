------------------------------ MODULE ShellView ------------------------------
(***************************************************************************)
(* One view of the shell, sky/shell: the platform view on the platform     *)
(* thread, the engine and its animator on the UI thread, the rasterizer on *)
(* the GPU thread.  Threads share nothing: they post tasks to each other's *)
(* message loops, which run them in order, and the embedder's SkyEngine    *)
(* messages arrive on the UI thread over a pipe of their own.              *)
(*                                                                         *)
(* Tasks are bound to weak pointers: one that runs after its target was    *)
(* dropped does nothing.  A failed CHECK ends the process (abort).         *)
(***************************************************************************)
EXTENDS Engine, Rasterizer, FiniteSets

CONSTANTS
    MaxTasks,     \* posted tasks at which the platform waits before it makes a surface
    MaxMessages   \* SkyEngine messages that may be on their way

ASSUME ShellViewAssumption == MaxTasks \in Nat /\ MaxMessages \in Nat

VARIABLES
    window,             \* PlatformView::window_
    attached,           \* the platform view exists
    resumed,            \* what the activity last told the engine
    engine_pipe,        \* SkyEngine messages sent and not delivered
    bound,              \* ConnectToEngine has bound the pipe
    rasterizer_alive

platform == <<window, attached, resumed>>
vars == <<animator, ui_loop, gpu_loop, engine_alive, engine, rasterizer, abort,
          platform, engine_pipe, bound, rasterizer_alive>>

Init == /\ EngineInit
        /\ RasterizerInit
        /\ window = NoWindow
        /\ attached = TRUE
        /\ resumed = FALSE
        /\ engine_pipe = <<>>
        /\ bound = FALSE
        /\ rasterizer_alive = TRUE
        /\ ui_loop = <<Task("Engine::ConnectToEngine", NoArg)>>
        /\ gpu_loop = <<>>

(* No CHECK has failed. *)
ProcessRuns == abort = Running

-----------------------------------------------------------------------------
(* Platform thread *)

(* PlatformViewAndroid::SurfaceCreated. *)
SurfaceCreated ==
    /\ ProcessRuns
    /\ attached
    /\ window = NoWindow
    /\ Len(ui_loop) + Len(gpu_loop) < MaxTasks
    /\ window' \in Windows
    /\ ui_loop' = Append(ui_loop, Task("Engine::OnAcceleratedWidgetAvailable", window'))
    /\ UNCHANGED <<animator, gpu_loop, engine_alive, engine, rasterizer, abort,
                   attached, resumed, engine_pipe, bound, rasterizer_alive>>

(***************************************************************************)
(* PlatformViewAndroid::SurfaceDestroyed posts the news and releases the   *)
(* window at once, without waiting for the threads that use it.            *)
(***************************************************************************)
SurfaceDestroyed ==
    /\ ProcessRuns
    /\ attached
    /\ window # NoWindow
    /\ window' = NoWindow
    /\ ui_loop' = Append(ui_loop, Task("Engine::OnOutputSurfaceDestroyed", NoArg))
    /\ UNCHANGED <<animator, gpu_loop, engine_alive, engine, rasterizer, abort,
                   attached, resumed, engine_pipe, bound, rasterizer_alive>>

(* Mistake: ~ShellView drops the rasterizer on the UI thread too. *)
DetachDropsOnUIThread ==
    /\ ProcessRuns
    /\ attached
    /\ window = NoWindow
    /\ attached' = FALSE
    /\ ui_loop' = ui_loop \o <<Task("Drop<Rasterizer>", NoArg), Task("Drop<Engine>", NoArg)>>
    /\ UNCHANGED <<animator, gpu_loop, engine_alive, engine, rasterizer, abort, window,
                   resumed, engine_pipe, bound, rasterizer_alive>>

(***************************************************************************)
(* PlatformViewAndroid::Detach, after Android has taken the surface away   *)
(* (DCHECK(!window_)): ~ShellView drops the rasterizer and the engine on   *)
(* the threads they live on.                                               *)
(***************************************************************************)
Detach ==
    /\ ProcessRuns
    /\ attached
    /\ window = NoWindow
    /\ attached' = FALSE
    /\ gpu_loop' = Append(gpu_loop, Task("Drop<Rasterizer>", NoArg))
    /\ ui_loop' = Append(ui_loop, Task("Drop<Engine>", NoArg))
    /\ UNCHANGED <<animator, engine_alive, engine, rasterizer, abort, window,
                   resumed, engine_pipe, bound, rasterizer_alive>>

SendToEngine(message) ==
    /\ ProcessRuns
    /\ Len(engine_pipe) < MaxMessages
    /\ engine_pipe' = Append(engine_pipe, message)
    /\ UNCHANGED <<animator, ui_loop, gpu_loop, engine_alive, engine, rasterizer,
                   abort, window, attached, bound, rasterizer_alive>>

(* SkyActivity::onPause and onPostResume, which Android calls in turn. *)
SendActivityChange ==
    /\ resumed' = ~resumed
    /\ SendToEngine(Task(IF resumed THEN "OnActivityPaused" ELSE "OnActivityResumed", NoArg))

(* PlatformViewAndroid.surfaceChanged *)
SendMetrics ==
    /\ attached
    /\ window # NoWindow
    /\ \E size \in Sizes \cup {EmptySize} :
           SendToEngine(Task("OnViewportMetricsChanged", size))
    /\ UNCHANGED resumed

(* SkyActivity.onSkyReady, loadUrl and loadBundleByName *)
SendRun ==
    /\ SendToEngine(Task("Run", NoArg))
    /\ UNCHANGED resumed

-----------------------------------------------------------------------------
(* UI thread *)

(* What no UI task of the engine touches. *)
OutsideEngine == <<rasterizer, abort, platform, engine_pipe, rasterizer_alive>>

RunConnectToEngine ==
    /\ ProcessRuns
    /\ AtHead(ui_loop, "Engine::ConnectToEngine")
    /\ engine_alive
    /\ bound' = TRUE
    /\ ui_loop' = Tail(ui_loop)
    /\ UNCHANGED <<animator, gpu_loop, engine_alive, engine, OutsideEngine>>

RunWidgetAvailable ==
    /\ ProcessRuns
    /\ AtHead(ui_loop, "Engine::OnAcceleratedWidgetAvailable")
    /\ engine_alive
    /\ OnAcceleratedWidgetAvailable(Tail(ui_loop), Head(ui_loop).arg)
    /\ UNCHANGED <<engine_alive, bound, OutsideEngine>>

RunOutputSurfaceDestroyed ==
    /\ ProcessRuns
    /\ AtHead(ui_loop, "Engine::OnOutputSurfaceDestroyed")
    /\ engine_alive
    /\ OnOutputSurfaceDestroyed(Tail(ui_loop))
    /\ UNCHANGED <<engine_alive, bound, OutsideEngine>>

(***************************************************************************)
(* A task of the animator runs; when it produces a frame, the engine's     *)
(* BeginFrame and Paint run inside it.                                     *)
(***************************************************************************)
FrameEffect(again) ==
    /\ IF frame' # frame THEN EngineBeginFrame(again)
                         ELSE UNCHANGED have_scheduled_visual_update
    /\ UNCHANGED <<paused, engine_alive, activity_running, have_surface,
                   physical_size, sky_view, bound, OutsideEngine>>

RunBeginFrame ==
    /\ ProcessRuns
    /\ AtHead(ui_loop, "Animator::BeginFrame")
    /\ engine_alive
    /\ \E again \in BOOLEAN :
           /\ BeginFrame(Tail(ui_loop), again, physical_size)
           /\ FrameEffect(again)

RunOnFrameComplete ==
    /\ ProcessRuns
    /\ AtHead(ui_loop, "Animator::OnFrameComplete")
    /\ engine_alive
    /\ \E again \in BOOLEAN :
           /\ OnFrameComplete(Tail(ui_loop), again, physical_size)
           /\ FrameEffect(again)

DropEngine ==
    /\ ProcessRuns
    /\ AtHead(ui_loop, "Drop<Engine>")
    /\ engine_alive' = FALSE
    /\ ui_loop' = Tail(ui_loop)
    /\ UNCHANGED <<animator, gpu_loop, engine, bound, OutsideEngine>>

(* The weak pointer to a dropped engine or animator is null. *)
SkipUITask ==
    /\ ProcessRuns
    /\ ui_loop # <<>>
    /\ ~engine_alive
    /\ ui_loop' = Tail(ui_loop)
    /\ UNCHANGED <<animator, gpu_loop, engine_alive, engine, bound, OutsideEngine>>

(* A SkyEngine message reaches the engine that bound the pipe. *)
DeliverMessage ==
    /\ ProcessRuns
    /\ bound /\ engine_alive
    /\ engine_pipe # <<>>
    /\ engine_pipe' = Tail(engine_pipe)
    /\ \/ AtHead(engine_pipe, "OnActivityPaused") /\ OnActivityPaused
       \/ AtHead(engine_pipe, "OnActivityResumed") /\ OnActivityResumed
       \/ /\ AtHead(engine_pipe, "OnViewportMetricsChanged")
          /\ OnViewportMetricsChanged(Head(engine_pipe).arg)
       \/ AtHead(engine_pipe, "Run") /\ RunProgram
    /\ UNCHANGED <<engine_alive, rasterizer, abort, platform, bound,
                   rasterizer_alive>>

RunDart ==
    /\ ProcessRuns
    /\ engine_alive
    /\ DartMain \/ EnsureVisualUpdate
    /\ UNCHANGED <<engine_alive, bound, OutsideEngine>>

-----------------------------------------------------------------------------
(* GPU thread *)

OutsideRasterizer == <<animator, engine_alive, engine, platform, engine_pipe,
                       bound, rasterizer_alive>>

(***************************************************************************)
(* Making a surface for a window the platform has released meanwhile is    *)
(* undefined: it may work or fail.                                         *)
(***************************************************************************)
RunCreateSurface ==
    /\ ProcessRuns
    /\ AtHead(gpu_loop, "Rasterizer::OnAcceleratedWidgetAvailable")
    /\ rasterizer_alive
    /\ \E created \in {TRUE, window = Head(gpu_loop).arg} :
           CreateSurface(Head(gpu_loop).arg, created)
    /\ gpu_loop' = Tail(gpu_loop)
    /\ UNCHANGED <<ui_loop, OutsideRasterizer>>

(* The GPU half of the animator's PostTaskAndReply: the reply is posted in any case. *)
RunDraw ==
    /\ ProcessRuns
    /\ AtHead(gpu_loop, "Rasterizer::Draw")
    /\ IF rasterizer_alive THEN Draw(Head(gpu_loop).arg)
                           ELSE UNCHANGED <<rasterizer, abort>>
    /\ gpu_loop' = Tail(gpu_loop)
    /\ ui_loop' = Append(ui_loop, FrameCompleteTask)
    /\ UNCHANGED OutsideRasterizer

RunDestroySurface ==
    /\ ProcessRuns
    /\ AtHead(gpu_loop, "Rasterizer::OnOutputSurfaceDestroyed")
    /\ rasterizer_alive
    /\ DestroySurface
    /\ gpu_loop' = Tail(gpu_loop)
    /\ UNCHANGED <<ui_loop, OutsideRasterizer>>

DropRasterizer ==
    /\ ProcessRuns
    /\ AtHead(gpu_loop, "Drop<Rasterizer>")
    /\ rasterizer_alive' = FALSE
    /\ gpu_loop' = Tail(gpu_loop)
    /\ UNCHANGED <<ui_loop, rasterizer, abort, animator, engine_alive, engine,
                   platform, engine_pipe, bound>>

(* The weak pointer to the dropped rasterizer is null. *)
SkipGPUTask ==
    /\ ProcessRuns
    /\ gpu_loop # <<>>
    /\ Head(gpu_loop).method # "Rasterizer::Draw"
    /\ ~rasterizer_alive
    /\ gpu_loop' = Tail(gpu_loop)
    /\ UNCHANGED <<ui_loop, rasterizer, abort, OutsideRasterizer>>

-----------------------------------------------------------------------------

PlatformThread == \/ SurfaceCreated \/ SurfaceDestroyed \/ Detach
                  \/ SendActivityChange \/ SendMetrics \/ SendRun

UILoop == \/ RunConnectToEngine \/ RunWidgetAvailable \/ RunOutputSurfaceDestroyed
          \/ RunBeginFrame \/ RunOnFrameComplete
          \/ DropEngine \/ SkipUITask

GPULoop == \/ RunCreateSurface \/ RunDraw \/ RunDestroySurface
           \/ DropRasterizer \/ SkipGPUTask

Next == PlatformThread \/ UILoop \/ DeliverMessage \/ RunDart \/ GPULoop

SafeSpec == Init /\ [][Next]_vars

(***************************************************************************)
(* Both loops keep running and messages are delivered; neither the         *)
(* platform nor the program has to do anything.                            *)
(***************************************************************************)
Fairness == /\ WF_vars(UILoop)
            /\ WF_vars(GPULoop)
            /\ WF_vars(DeliverMessage)

Spec == SafeSpec /\ Fairness

-----------------------------------------------------------------------------
(* Properties *)

UITasks == [method : {"Engine::ConnectToEngine", "Engine::OnOutputSurfaceDestroyed",
                      "Animator::BeginFrame", "Animator::OnFrameComplete",
                      "Drop<Engine>"}, arg : {NoArg}]
           \cup [method : {"Engine::OnAcceleratedWidgetAvailable"}, arg : Windows]

GPUTasks == [method : {"Rasterizer::OnOutputSurfaceDestroyed", "Drop<Rasterizer>"},
             arg : {NoArg}]
            \cup [method : {"Rasterizer::OnAcceleratedWidgetAvailable"}, arg : Windows]
            \cup [method : {"Rasterizer::Draw"}, arg : Sizes \cup {EmptySize}]

EngineMessages == [method : {"OnActivityPaused", "OnActivityResumed", "Run"}, arg : {NoArg}]
                  \cup [method : {"OnViewportMetricsChanged"},
                        arg : Sizes \cup {EmptySize}]

(* Every variable holds a value the program can hold. *)
TypeOK ==
    /\ ui_loop \in Seq(UITasks)
    /\ gpu_loop \in Seq(GPUTasks)
    /\ engine_pipe \in Seq(EngineMessages)
    /\ engine_requested_frame \in BOOLEAN
    /\ frame_in_progress \in BOOLEAN
    /\ paused \in BOOLEAN
    /\ frame \in {0, 1}
    /\ engine_alive \in BOOLEAN
    /\ activity_running \in BOOLEAN
    /\ have_surface \in BOOLEAN
    /\ physical_size \in Sizes \cup {EmptySize}
    /\ sky_view \in {NoView, Loading, RunsProgram}
    /\ have_scheduled_visual_update \in BOOLEAN
    /\ surface \in Windows \cup {NoWindow}
    /\ context \in BOOLEAN
    /\ ganesh_surface \in Sizes \cup {EmptySize}
    /\ abort \in {Running, GLSurfaceRequired, NoContext}
    /\ window \in Windows \cup {NoWindow}
    /\ attached \in BOOLEAN
    /\ resumed \in BOOLEAN
    /\ bound \in BOOLEAN
    /\ rasterizer_alive \in BOOLEAN

FrameMethods == {"Animator::BeginFrame", "Animator::OnFrameComplete", "Rasterizer::Draw"}

CarriesFrame(loop) == \E i \in DOMAIN loop : loop[i].method \in FrameMethods

AtMostOneFrame(loop) ==
    \A i, j \in DOMAIN loop :
        loop[i].method \in FrameMethods /\ loop[j].method \in FrameMethods => i = j

(***************************************************************************)
(* One task carries the frame from thread to thread: while the engine      *)
(* lives, frame_in_progress_ is set exactly when one of BeginFrame, Draw   *)
(* or OnFrameComplete is posted, and there is never a second.  This is     *)
(* what makes DCHECK(frame_in_progress_) hold in BeginFrame (52) and       *)
(* OnFrameComplete (70) whatever Stop, Start and surface changes happened  *)
(* between the posting and the running.                                    *)
(***************************************************************************)
OneFrameTask ==
    /\ AtMostOneFrame(ui_loop)
    /\ AtMostOneFrame(gpu_loop)
    /\ ~(CarriesFrame(ui_loop) /\ CarriesFrame(gpu_loop))
    /\ engine_alive =>
           (frame_in_progress <=> CarriesFrame(ui_loop) \/ CarriesFrame(gpu_loop))

(***************************************************************************)
(* The surface notifications on their way from the platform to the         *)
(* rasterizer, in the order in which they will take effect: those posted   *)
(* to the GPU thread, then those the engine has still to pass on.          *)
(***************************************************************************)
WindowMethods == {"Engine::OnAcceleratedWidgetAvailable",
                  "Rasterizer::OnAcceleratedWidgetAvailable"}

SurfaceMethods == WindowMethods \cup {"Engine::OnOutputSurfaceDestroyed",
                                      "Rasterizer::OnOutputSurfaceDestroyed"}

NewsIn(tasks) == {i \in DOMAIN tasks : tasks[i].method \in SurfaceMethods}

(* The window there will be after a notification. *)
NewsWindow(task) == IF task.method \in WindowMethods THEN task.arg ELSE NoWindow

Changes(from, to) == (from = NoWindow) # (to = NoWindow)

(* Each notification makes or takes away a surface, and the first one follows on from now. *)
Alternate(tasks, now) ==
    \A i \in NewsIn(tasks) :
        /\ (\A j \in NewsIn(tasks) : i <= j) => Changes(now, NewsWindow(tasks[i]))
        /\ \A j \in NewsIn(tasks) :
               (j < i /\ \A k \in NewsIn(tasks) : k <= j \/ i <= k)
                   => Changes(NewsWindow(tasks[j]), NewsWindow(tasks[i]))

(* What all of them lead to from now. *)
LeadTo(tasks, now, end) ==
    /\ NewsIn(tasks) = {} => now = end
    /\ \A i \in NewsIn(tasks) :
           (\A j \in NewsIn(tasks) : j <= i) => NewsWindow(tasks[i]) = end

(***************************************************************************)
(* No notification is lost, duplicated or reordered on the way through two *)
(* threads: they alternate, starting from what the rasterizer has now, and *)
(* once they have all run the rasterizer has the platform's window.        *)
(***************************************************************************)
SurfaceNewsLeadToWindow ==
    ProcessRuns /\ engine_alive /\ rasterizer_alive =>
        /\ Alternate(gpu_loop \o ui_loop, surface)
        /\ LeadTo(gpu_loop \o ui_loop, surface, window)

(***************************************************************************)
(* The framework's scheduler asks only once and relies on the answer: a    *)
(* program whose visual update is scheduled has a request standing with    *)
(* the animator, unless the animator is stopped (and will request one      *)
(* itself when it starts), across pauses, surface changes and navigation.  *)
(***************************************************************************)
ScheduledUpdateIsRequested ==
    have_scheduled_visual_update /\ ~paused => engine_requested_frame

(***************************************************************************)
(* Surface and activity come and go over two channels, in any order, and   *)
(* either of them stops the animator: it is never left stopped once both   *)
(* are back, whichever comes last.                                         *)
(***************************************************************************)
RunsWhenVisible ==
    activity_running /\ have_surface => ~paused

(***************************************************************************)
(* GL objects exist only on a surface: a context without a surface could   *)
(* not be made current, and a Skia surface without a context would draw    *)
(* into a window that is gone.                                             *)
(***************************************************************************)
GLObjectsNeedSurface ==
    /\ ganesh_surface # EmptySize => context
    /\ context => surface # NoWindow

-----------------------------------------------------------------------------

CountOf(loop, method) == Cardinality({i \in DOMAIN loop : loop[i].method = method})

FS == INSTANCE FrameScheduler WITH
          pending <- engine_requested_frame,
          in_flight <- CountOf(gpu_loop, "Rasterizer::Draw")
                       + CountOf(ui_loop, "Animator::OnFrameComplete"),
          frame <- frame

(***************************************************************************)
(* The animator is a frame scheduler even when its engine is stopped,      *)
(* started and dropped around it: step by step, frames begin only on       *)
(* request and one at a time.                                              *)
(***************************************************************************)
AnimatorIsFrameScheduler == FS!SafeSpec

(* Frames are wanted and nothing keeps them from the screen. *)
WantsFrames == /\ have_scheduled_visual_update
               /\ activity_running /\ have_surface
               /\ engine_alive
               /\ ProcessRuns

FrameBegins == frame' # frame

(***************************************************************************)
(* Unless a request was made while the animator was stopped, a program     *)
(* that goes on wanting frames in a visible view goes on getting them,     *)
(* whatever pauses and surface changes came before.                        *)
(***************************************************************************)
FramesKeepComing ==
    [](paused => ~engine_requested_frame) /\ <>[]WantsFrames
        => []<><<FrameBegins>>_vars

(***************************************************************************)
(* A program that wants a frame while the view is visible gets one.  The   *)
(* code breaks it: a request made while paused, with a frame still in      *)
(* progress, stays set after the frame completes, and Start returns early. *)
(***************************************************************************)
WantedFramesBegin ==
    <>[]WantsFrames => []<><<FrameBegins>>_vars

(* CHECK(surface_) << "GLSurface required." (rasterizer.cc, line 43) holds. *)
SurfaceIsCreated == abort # GLSurfaceRequired

(* CHECK(context_->MakeCurrent(surface_.get())) (rasterizer.cc, line 74) has a context to ask. *)
ContextExistsAtDestroy == abort # NoContext
=============================================================================
