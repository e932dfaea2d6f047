------------------------------- MODULE TimerHeap -------------------------------
(***************************************************************************)
(* sky/engine/tonic/dart_timer_heap.cc, with the Timer of Dart programs    *)
(* (sky/engine/bindings/builtin_natives.dart): timers are run by tasks of  *)
(* the message loop, which cannot be taken back.  Delays are left out: a   *)
(* posted task may run at any time.                                        *)
(***************************************************************************)
EXTENDS Integers

CONSTANT MaxTimers      \* how many timers a program makes

ASSUME MaxTimersAssumption == MaxTimers \in Nat

VARIABLES
    next_timer_id,
    heap,           \* ids of timers that have a Task in heap_
    repeating,      \* ids of timers made by Timer.periodic
    posted,         \* ids that a posted task will run
    running,        \* the id whose closure runs, or 0
    active,         \* ids that their Timer still has: isActive
    cancels_itself  \* the program cancels repeating timers from their own closure

timers_vars == <<next_timer_id, heap, repeating, posted, running, active, cancels_itself>>

TimersInit == /\ next_timer_id = 1
        /\ heap = {}
        /\ repeating = {}
        /\ posted = {}
        /\ running = 0
        /\ active = {}
        /\ cancels_itself \in BOOLEAN

(* Timer_create and Add, between tasks or from a closure. *)
Add(repeats) ==
    /\ next_timer_id <= MaxTimers
    /\ next_timer_id' = next_timer_id + 1
    /\ heap' = heap \cup {next_timer_id}
    /\ repeating' = IF repeats THEN repeating \cup {next_timer_id} ELSE repeating
    /\ posted' = posted \cup {next_timer_id}
    /\ active' = active \cup {next_timer_id}
    /\ UNCHANGED <<running, cancels_itself>>

(* Mistake: the timer forgets its id and the heap keeps it. *)
RemoveNothing(id) == UNCHANGED heap

RemoveTimer(id) == heap' = heap \ {id}

(* cancel: Timer_cancel, which has nothing to remove while the closure runs. *)
Cancel(id) ==
    /\ id \in active
    /\ id = running => cancels_itself
    /\ RemoveTimer(id)
    /\ active' = active \ {id}
    /\ UNCHANGED <<next_timer_id, repeating, posted, running, cancels_itself>>

(* Run takes the task out of the heap and invokes its closure; a one-shot forgets its id. *)
Run(id) ==
    /\ running = 0
    /\ id \in posted
    /\ posted' = posted \ {id}
    /\ heap' = heap \ {id}
    /\ running' = IF id \in heap THEN id ELSE 0
    /\ active' = IF id \in heap \ repeating THEN active \ {id} ELSE active
    /\ UNCHANGED <<next_timer_id, repeating, cancels_itself>>

(* The closure returns; Schedule, if the timer repeats. *)
EndRun ==
    /\ running # 0
    /\ running' = 0
    /\ heap' = heap \cup (repeating \cap {running})
    /\ posted' = posted \cup (repeating \cap {running})
    /\ UNCHANGED <<next_timer_id, repeating, active, cancels_itself>>

TimersNext == \/ \E repeats \in BOOLEAN : Add(repeats)
        \/ \E id \in 1..MaxTimers : Cancel(id) \/ Run(id)
        \/ EndRun

TimersSpec == TimersInit /\ [][TimersNext]_timers_vars

-----------------------------------------------------------------------------

(***************************************************************************)
(* The timers that will run are those the program thinks are active:       *)
(* cancelled ones stay silent although their task is posted, the others    *)
(* have a task to come.  A repeating timer cancelled from its own closure  *)
(* breaks this in the code as it is: it runs for ever.                     *)
(***************************************************************************)
ActiveTimersRun ==
    ~cancels_itself => active = (heap \cap posted) \cup (repeating \cap {running})
=============================================================================
