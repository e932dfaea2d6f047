----------------------------- MODULE Rasterizer -----------------------------
(***************************************************************************)
(* sky/shell/gpu/rasterizer.cc: the objects that put a picture on a        *)
(* window, as handlers that run on the GPU thread.                         *)
(***************************************************************************)

EXTENDS MessageLoops

VARIABLES
    surface,          \* the window surface_ draws to, or NoWindow
    context,          \* a GL context exists
    ganesh_surface,   \* the size of ganesh_surface_, EmptySize if there is none
    abort             \* the CHECK that failed, if one did

rasterizer == <<surface, context, ganesh_surface>>

Running == "running"
GLSurfaceRequired == "GLSurface required."
NoContext == "context_ is null"

RasterizerInit == /\ surface = NoWindow
                  /\ context = FALSE
                  /\ ganesh_surface = EmptySize
                  /\ abort = Running

(***************************************************************************)
(* Rasterizer::OnAcceleratedWidgetAvailable.  created tells whether the    *)
(* platform could make a GL surface for the window.                        *)
(***************************************************************************)
CreateSurface(window, created) ==
    \/ /\ created
       /\ surface' = window
       /\ UNCHANGED <<context, ganesh_surface, abort>>
    \/ /\ ~created
       /\ abort' = GLSurfaceRequired
       /\ surface' = NoWindow
       /\ UNCHANGED <<context, ganesh_surface>>

(* Mistake: Draw does not look whether there still is a surface. *)
DrawWithoutSurface(size) ==
    /\ context' = TRUE
    /\ ganesh_surface' = size
    /\ UNCHANGED <<surface, abort>>

(***************************************************************************)
(* Rasterizer::Draw with EnsureGLContext and EnsureGaneshSurface: the      *)
(* context is made by the first picture that has an area.                  *)
(***************************************************************************)
Draw(size) ==
    \/ /\ surface = NoWindow \/ size = EmptySize
       /\ UNCHANGED <<rasterizer, abort>>
    \/ /\ surface # NoWindow /\ size # EmptySize
       /\ context' = TRUE
       /\ ganesh_surface' = size
       /\ UNCHANGED <<surface, abort>>

(***************************************************************************)
(* Rasterizer::OnOutputSurfaceDestroyed makes the context current before   *)
(* it drops it, and has no other branch.                                   *)
(***************************************************************************)
DestroySurface ==
    \/ /\ context
       /\ surface' = NoWindow
       /\ context' = FALSE
       /\ ganesh_surface' = EmptySize
       /\ UNCHANGED abort
    \/ /\ ~context
       /\ abort' = NoContext
       /\ UNCHANGED rasterizer
=============================================================================
