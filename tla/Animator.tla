------------------------------ MODULE Animator ------------------------------
(***************************************************************************)
(* sky/shell/ui/animator.cc: the frame clock of the shell, as handlers     *)
(* that run on the UI thread.  A handler receives in rest what is left of  *)
(* the UI loop once the task that runs it has been taken off.              *)
(*                                                                         *)
(* ShellView composes these handlers with the engine and the rasterizer.   *)
(***************************************************************************)
EXTENDS MessageLoops

VARIABLES
    engine_requested_frame,
    frame_in_progress,
    paused,
    frame     \* history: parity of the number of frames begun

animator == <<engine_requested_frame, frame_in_progress, paused, frame>>

BeginFrameTask == Task("Animator::BeginFrame", NoArg)
DrawTask(size) == Task("Rasterizer::Draw", size)
FrameCompleteTask == Task("Animator::OnFrameComplete", NoArg)

AnimatorInit == /\ engine_requested_frame = FALSE
                /\ frame_in_progress = FALSE
                /\ paused = FALSE
                /\ frame = 0

-----------------------------------------------------------------------------

(* Mistake: RequestFrame posts although a frame is in progress. *)
RequestFrameAlwaysPosts(rest) ==
    \/ /\ engine_requested_frame
       /\ ui_loop' = rest
       /\ UNCHANGED <<engine_requested_frame, frame_in_progress>>
    \/ /\ ~engine_requested_frame
       /\ engine_requested_frame' = TRUE
       /\ frame_in_progress' = TRUE
       /\ ui_loop' = Append(rest, BeginFrameTask)

(***************************************************************************)
(* Animator::RequestFrame.  Requests coalesce; while a frame is in         *)
(* progress its completion will find the request.                          *)
(***************************************************************************)
RequestFrame(rest) ==
    \/ /\ engine_requested_frame
       /\ ui_loop' = rest
       /\ UNCHANGED <<engine_requested_frame, frame_in_progress>>
    \/ /\ ~engine_requested_frame
       /\ engine_requested_frame' = TRUE
       /\ frame_in_progress' = TRUE
       /\ ui_loop' = IF frame_in_progress THEN rest
                                          ELSE Append(rest, BeginFrameTask)

(* Animator::Stop cancels the request, not the task already posted for it. *)
Stop == /\ paused' = TRUE
        /\ engine_requested_frame' = FALSE
        /\ UNCHANGED <<frame_in_progress, frame>>

(* Mistake: Start leaves it to the engine to ask for a frame. *)
StartWithoutRequest(rest) ==
    /\ paused' = FALSE
    /\ ui_loop' = rest
    /\ UNCHANGED <<engine_requested_frame, frame_in_progress, frame>>

Start(rest) == /\ paused' = FALSE
               /\ RequestFrame(rest)
               /\ UNCHANGED frame

(***************************************************************************)
(* The part of Animator::BeginFrame that makes a frame: the engine runs    *)
(* the framework, which may ask for the next frame (again), and paints a   *)
(* picture of the given size for the GPU thread.                           *)
(***************************************************************************)
ProduceFrame(rest, again, size) ==
    /\ engine_requested_frame' = again
    /\ frame_in_progress' = TRUE
    /\ frame' = 1 - frame
    /\ ui_loop' = rest
    /\ gpu_loop' = Append(gpu_loop, DrawTask(size))

(* Mistake: BeginFrame draws although the request was cancelled. *)
BeginFrameIgnoresCancel(rest, again, size) == ProduceFrame(rest, again, size)

(***************************************************************************)
(* Animator::BeginFrame, from the loop: the request may have been          *)
(* cancelled since the task was posted.                                    *)
(***************************************************************************)
BeginFrame(rest, again, size) ==
    \/ /\ engine_requested_frame
       /\ ProduceFrame(rest, again, size)
    \/ /\ ~engine_requested_frame
       /\ ~again
       /\ frame_in_progress' = FALSE
       /\ ui_loop' = rest
       /\ UNCHANGED <<engine_requested_frame, frame, gpu_loop>>

(* Mistake: a request made during the frame is not begun when the frame completes. *)
OnFrameCompleteOnlyClears(rest, again, size) ==
    /\ ~again
    /\ frame_in_progress' = FALSE
    /\ ui_loop' = rest
    /\ UNCHANGED <<engine_requested_frame, frame, gpu_loop>>

(***************************************************************************)
(* Animator::OnFrameComplete.  While paused the request, if there is one,  *)
(* stays set and nothing is posted for it.                                 *)
(***************************************************************************)
OnFrameComplete(rest, again, size) ==
    \/ /\ engine_requested_frame
       /\ ~paused
       /\ ProduceFrame(rest, again, size)
    \/ /\ paused \/ ~engine_requested_frame
       /\ ~again
       /\ frame_in_progress' = FALSE
       /\ ui_loop' = rest
       /\ UNCHANGED <<engine_requested_frame, frame, gpu_loop>>
=============================================================================
