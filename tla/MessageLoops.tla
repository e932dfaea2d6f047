---------------------------- MODULE MessageLoops ----------------------------
(***************************************************************************)
(* The message loops of the shell's UI and GPU threads (base::MessageLoop, *)
(* used by everything in sky/shell): sequences of posted tasks, run in the *)
(* order they were posted in, and what tasks carry.                        *)
(***************************************************************************)
EXTENDS Naturals, Sequences

CONSTANTS
    Windows,      \* native windows
    NoWindow,
    Sizes,        \* sizes a view or a picture can have
    EmptySize     \* the size without area

ASSUME MessageLoopsAssumption == NoWindow \notin Windows /\ EmptySize \notin Sizes

VARIABLES ui_loop, gpu_loop

NoArg == "none"

Task(method, arg) == [method |-> method, arg |-> arg]

(* The task at the head of a loop is a call of method. *)
AtHead(loop, method) == loop # <<>> /\ Head(loop).method = method
=============================================================================
