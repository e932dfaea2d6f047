---------------------------- MODULE MCShellView ----------------------------
(***************************************************************************)
(* A small instance of ShellView.                                          *)
(***************************************************************************)
EXTENDS ShellView

(* A surface is made while at most one task is posted, so its news can meet a frame or old news. *)
MCMaxTasks == 2

(* Messages in the pipe to the engine. *)
MCMaxMessages == 1

(* One size is enough: only an empty one makes a difference to the rasterizer. *)
MCSizes == {"screen"}
=============================================================================
