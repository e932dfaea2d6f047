------------------------------ MODULE RootBundle ------------------------------
(***************************************************************************)
(* sky/shell/ui/engine.cc and services/asset_bundle: starting the program  *)
(* in a bundle.  A job unpacks the bundle on a worker and serves it; its   *)
(* snapshot was asked for at once and starts the program when it comes.    *)
(* The pipe to the bundle goes to the next isolate that is made.           *)
(*                                                                         *)
(* Programs are numbered in the order they are asked for, and a bundle     *)
(* has the number of its program; 0 is no program and no bundle.           *)
(***************************************************************************)
EXTENDS Integers

CONSTANT MaxPrograms

ASSUME MaxProgramsAssumption == MaxPrograms \in Nat

VARIABLES
    asked,          \* the number of programs asked for so far
    jobs,           \* what the job of a bundle is doing
    root_bundle,    \* the bundle the engine has a pipe to
    waiting,        \* bundles whose snapshot is awaited on an open pipe
    isolate,        \* the program that runs, and the bundle it was given
    mixes           \* whether programs are run from libraries too

bundles_vars == <<asked, jobs, root_bundle, waiting, isolate, mixes>>

BundlesInit == /\ asked = 0
        /\ jobs = [n \in 1..MaxPrograms |-> "none"]
        /\ root_bundle = 0
        /\ waiting = {}
        /\ isolate = [program |-> 0, bundle |-> 0]
        /\ mixes \in BOOLEAN

(* Mistake: who waited for the bundle before goes on waiting. *)
BindBesides(n) == /\ root_bundle' = n
                  /\ waiting' = waiting \cup {n}

(* GetProxy(&root_bundle_) closes the pipe the engine had, with what waits on it. *)
Bind(n) == /\ root_bundle' = n
           /\ waiting' = (waiting \ {root_bundle}) \cup {n}

(* RunFromBundle; the job gives up if it cannot make a file for the archive. *)
RunFromBundle ==
    /\ asked < MaxPrograms
    /\ asked' = asked + 1
    /\ Bind(asked + 1)
    /\ \E made \in BOOLEAN :
           jobs' = [jobs EXCEPT ![asked + 1] = IF made THEN "copying" ELSE "deleted"]
    /\ UNCHANGED <<isolate, mixes>>

OnZippedAssetsAvailable(n, success) ==
    /\ jobs[n] = "copying"
    /\ jobs' = [jobs EXCEPT ![n] = IF success THEN "unzipping" ELSE "deleted"]
    /\ UNCHANGED <<asked, root_bundle, waiting, isolate, mixes>>

(* UnzipAssets on the worker, and OnUnzippedAssetsAvailable: the bundle is served, or not. *)
OnUnzippedAssetsAvailable(n, success) ==
    /\ jobs[n] = "unzipping"
    /\ jobs' = [jobs EXCEPT ![n] = IF success THEN "serving" ELSE "deleted"]
    /\ UNCHANGED <<asked, root_bundle, waiting, isolate, mixes>>

(* SkyView::Create ends the isolate there was; DidCreateIsolate passes the bundle on. *)
CreateView(n) ==
    /\ isolate' = [program |-> n, bundle |-> root_bundle]
    /\ root_bundle' = 0
    /\ waiting' = waiting \ {n, isolate.bundle}

(* GetAsStream answers. *)
RunFromSnapshotStream(n) ==
    /\ jobs[n] = "serving"
    /\ n \in waiting
    /\ CreateView(n)
    /\ UNCHANGED <<asked, jobs, mixes>>

(* RunFromNetwork and RunFromFile. *)
RunFromLibrary ==
    /\ mixes
    /\ asked < MaxPrograms
    /\ asked' = asked + 1
    /\ CreateView(asked + 1)
    /\ UNCHANGED <<jobs, mixes>>

(* The program takes the pipe over, whoever waits for an answer on it. *)
TakeRootBundleHandle ==
    /\ isolate.bundle \in waiting
    /\ waiting' = waiting \ {isolate.bundle}
    /\ UNCHANGED <<asked, jobs, root_bundle, isolate, mixes>>

BundlesNext == \/ RunFromBundle \/ RunFromLibrary \/ TakeRootBundleHandle
        \/ \E n \in 1..MaxPrograms :
               \/ RunFromSnapshotStream(n)
               \/ \E success \in BOOLEAN : \/ OnZippedAssetsAvailable(n, success)
                                           \/ OnUnzippedAssetsAvailable(n, success)

BundlesSpec == BundlesInit /\ [][BundlesNext]_bundles_vars

-----------------------------------------------------------------------------

(***************************************************************************)
(* A program is never replaced by one that was asked for before it, in     *)
(* whatever order the jobs end.  An older bundle does replace a program    *)
(* from a library.                                                         *)
(***************************************************************************)
NeverGoesBack == [][~mixes => isolate'.program > isolate.program \/ isolate' = isolate]_bundles_vars

(***************************************************************************)
(* A program from a bundle finds its own assets (rootBundle).  A program   *)
(* from a library that starts meanwhile takes them away.                   *)
(***************************************************************************)
ProgramHasItsBundle == ~mixes => isolate.bundle = isolate.program
=============================================================================
