--------------------------- MODULE FrameScheduler ---------------------------
(***************************************************************************)
(* What both frame pipelines of the engine promise to the framework that   *)
(* asks them for frames: the animator of the shell (sky/shell/ui) and the  *)
(* layer host of the compositor (services/sky/compositor).                 *)
(*                                                                         *)
(* A client asks for a frame at any time; requests made before the frame   *)
(* begins coalesce into one.  A frame begins only when it was asked for,   *)
(* and never while an earlier frame is still on its way to the screen.     *)
(***************************************************************************)
EXTENDS Naturals

VARIABLES
    pending,      \* a frame was asked for and has not begun
    in_flight,    \* frames that began and are not yet acknowledged
    frame         \* parity of the number of frames begun: tells one from the next

vars == <<pending, in_flight, frame>>

Init == /\ pending = FALSE
        /\ in_flight = 0
        /\ frame = 0

(***************************************************************************)
(* The client asks for a frame, or an owner that hides the output cancels  *)
(* the request.                                                            *)
(***************************************************************************)
Request == pending' = TRUE  /\ UNCHANGED <<in_flight, frame>>
Cancel  == pending' = FALSE /\ UNCHANGED <<in_flight, frame>>

(***************************************************************************)
(* A frame begins.  The client runs inside this step, so it may already    *)
(* have asked for the next frame when the step ends.                       *)
(***************************************************************************)
Begin == /\ pending
         /\ in_flight = 0
         /\ in_flight' = 1
         /\ frame' = 1 - frame
         /\ pending' \in BOOLEAN

Finish == /\ in_flight = 1
          /\ in_flight' = 0
          /\ UNCHANGED <<pending, frame>>

(* The acknowledgement of a frame begins the next one in the same turn. *)
FinishAndBegin == /\ pending
                  /\ in_flight = 1
                  /\ frame' = 1 - frame
                  /\ pending' \in BOOLEAN
                  /\ UNCHANGED in_flight

Next == Request \/ Cancel \/ Begin \/ Finish \/ FinishAndBegin

SafeSpec == Init /\ [][Next]_vars

(***************************************************************************)
(* A pending request is not left waiting in an idle pipeline for ever, and *)
(* a frame that began is eventually acknowledged or continued.             *)
(***************************************************************************)
Spec == SafeSpec /\ WF_vars(Begin) /\ WF_vars(Finish \/ FinishAndBegin)
=============================================================================
