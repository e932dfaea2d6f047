------------------------------- MODULE Engine -------------------------------
(***************************************************************************)
(* sky/shell/ui/engine.cc: the engine of one view, with the part of the    *)
(* framework's scheduler (sky/sdk/lib/base/scheduler.dart) that decides    *)
(* when Dart code asks the engine for a frame.  Handlers run on the UI     *)
(* thread; rest is the UI loop without the task that runs them.            *)
(***************************************************************************)
EXTENDS Animator

VARIABLES
    engine_alive,
    activity_running,
    have_surface,
    physical_size,
    sky_view,                        \* absent, loading its program, or running it
    have_scheduled_visual_update     \* of the program that sky_view runs

engine == <<activity_running, have_surface, physical_size, sky_view,
            have_scheduled_visual_update>>

NoView == "absent"
Loading == "loading"
RunsProgram == "running"

EngineInit == /\ AnimatorInit
              /\ engine_alive = TRUE
              /\ activity_running = FALSE
              /\ have_surface = FALSE
              /\ physical_size = EmptySize
              /\ sky_view = NoView
              /\ have_scheduled_visual_update = FALSE

-----------------------------------------------------------------------------
(* Handlers of tasks posted by the platform view *)

(***************************************************************************)
(* Engine::OnAcceleratedWidgetAvailable: the GPU thread learns of the      *)
(* window first; then the animator starts if the activity runs, and a view *)
(* that exists is scheduled for a frame even if it does not.               *)
(***************************************************************************)
OnAcceleratedWidgetAvailable(rest, window) ==
    /\ gpu_loop' = Append(gpu_loop, Task("Rasterizer::OnAcceleratedWidgetAvailable", window))
    /\ have_surface' = TRUE
    /\ \/ /\ activity_running
          /\ Start(rest)
       \/ /\ ~activity_running
          /\ sky_view # NoView
          /\ RequestFrame(rest)
          /\ UNCHANGED <<paused, frame>>
       \/ /\ ~activity_running
          /\ sky_view = NoView
          /\ ui_loop' = rest
          /\ UNCHANGED animator
    /\ UNCHANGED <<activity_running, physical_size, sky_view,
                   have_scheduled_visual_update>>

(* Mistake: the rasterizer is not told that its surface is gone. *)
OnOutputSurfaceDestroyedKeepsRasterizer(rest) ==
    /\ have_surface' = FALSE
    /\ Stop
    /\ ui_loop' = rest
    /\ UNCHANGED <<gpu_loop, activity_running, physical_size, sky_view,
                   have_scheduled_visual_update>>

OnOutputSurfaceDestroyed(rest) ==
    /\ have_surface' = FALSE
    /\ Stop
    /\ gpu_loop' = Append(gpu_loop, Task("Rasterizer::OnOutputSurfaceDestroyed", NoArg))
    /\ ui_loop' = rest
    /\ UNCHANGED <<activity_running, physical_size, sky_view,
                   have_scheduled_visual_update>>

-----------------------------------------------------------------------------
(* Messages of the SkyEngine interface *)

OnActivityPaused ==
    /\ activity_running' = FALSE
    /\ Stop
    /\ UNCHANGED <<ui_loop, gpu_loop, have_surface, physical_size, sky_view,
                   have_scheduled_visual_update>>

(* Mistake: it is left to the next surface to start the animator. *)
OnActivityResumedWithoutStart ==
    /\ activity_running' = TRUE
    /\ UNCHANGED <<animator, ui_loop, gpu_loop, have_surface, physical_size, sky_view,
                   have_scheduled_visual_update>>

OnActivityResumed ==
    /\ activity_running' = TRUE
    /\ IF have_surface THEN Start(ui_loop)
                       ELSE UNCHANGED <<animator, ui_loop>>
    /\ UNCHANGED <<gpu_loop, have_surface, physical_size, sky_view,
                   have_scheduled_visual_update>>

OnViewportMetricsChanged(size) ==
    /\ physical_size' = size
    /\ UNCHANGED <<animator, ui_loop, gpu_loop, activity_running, have_surface,
                   sky_view, have_scheduled_visual_update>>

(***************************************************************************)
(* Engine::RunFromLibrary and RunFromSnapshotStream: a new view replaces   *)
(* the old one and loads its program; the old view's requests die with it. *)
(***************************************************************************)
RunProgram ==
    /\ sky_view' = Loading
    /\ have_scheduled_visual_update' = FALSE
    /\ UNCHANGED <<animator, ui_loop, gpu_loop, activity_running, have_surface,
                   physical_size>>

-----------------------------------------------------------------------------
(* The program in the view *)

(* The loaded program's main installs its frame callback (scheduler.dart, init). *)
DartMain ==
    /\ sky_view = Loading
    /\ sky_view' = RunsProgram
    /\ UNCHANGED <<animator, ui_loop, gpu_loop, activity_running, have_surface,
                   physical_size, have_scheduled_visual_update>>

(***************************************************************************)
(* scheduler.dart, ensureVisualUpdate: from a timer, an event, an answer   *)
(* of the network.  Only the first call after a frame reaches the engine.  *)
(***************************************************************************)
EnsureVisualUpdate ==
    /\ sky_view = RunsProgram
    /\ ~have_scheduled_visual_update
    /\ have_scheduled_visual_update' = TRUE
    /\ RequestFrame(ui_loop)
    /\ UNCHANGED <<paused, frame, gpu_loop, activity_running, have_surface,
                   physical_size, sky_view>>

(***************************************************************************)
(* Engine::BeginFrame, called while the animator produces a frame: the     *)
(* framework's _beginFrame clears its flag and runs callbacks, which may   *)
(* call ensureVisualUpdate (again).                                        *)
(***************************************************************************)
EngineBeginFrame(again) ==
    /\ again => sky_view = RunsProgram
    /\ have_scheduled_visual_update' =
           IF sky_view = RunsProgram THEN again ELSE have_scheduled_visual_update
=============================================================================
