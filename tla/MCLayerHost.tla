---------------------------- MODULE MCLayerHost ----------------------------
(***************************************************************************)
(* A small instance of LayerHost.                                          *)
(***************************************************************************)
EXTENDS LayerHost

(* So that a resize can happen while textures of the other size are at the service. *)
MCSizes == {"portrait", "landscape"}

(* Ids wrap around, and one is given out again once its texture is back. *)
MCIdSpace == 2

(* One frame's texture at the service, another one cached, and new ones for the next frame. *)
MCMaxHeld == 2
=============================================================================
