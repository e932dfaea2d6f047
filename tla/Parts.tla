--------------------------------- MODULE Parts ---------------------------------
(***************************************************************************)
(* Parts of a running application that share no state: a behaviour is one  *)
(* of one part, while the others stay as they began.                       *)
(***************************************************************************)
EXTENDS WidgetSync, Components, TimerHeap, RootBundle, Navigator

VARIABLE part       \* the part whose behaviour this is

all_vars == <<part, vars, components_vars, timers_vars, bundles_vars, navigator_vars>>

PartsInit ==
    /\ part \in {"children", "components", "timers", "bundles", "pages"}
    /\ Init /\ ComponentsInit /\ TimersInit /\ BundlesInit /\ NavigatorInit
    /\ part # "children" => program = {}
    /\ part # "components" => liberties = {}
    /\ part # "timers" => ~cancels_itself
    /\ part # "bundles" => ~mixes
    /\ part # "pages" => ~pops_in_frames

SyncChildren == /\ part = "children"
                /\ Next
                /\ UNCHANGED <<part, components_vars, timers_vars, bundles_vars,
                               navigator_vars>>

ComponentStep(Step) == /\ part = "components"
                       /\ Step
                       /\ UNCHANGED <<part, vars, timers_vars, bundles_vars, navigator_vars>>

TimerStep == /\ part = "timers"
             /\ TimersNext
             /\ UNCHANGED <<part, vars, components_vars, bundles_vars, navigator_vars>>

BundleStep == /\ part = "bundles"
              /\ BundlesNext
              /\ UNCHANGED <<part, vars, components_vars, timers_vars, navigator_vars>>

NavigatorStep(Step) == /\ part = "pages"
                       /\ Step
                       /\ UNCHANGED <<part, vars, components_vars, timers_vars, bundles_vars>>

PartsNext == \/ SyncChildren
             \/ ComponentStep(ComponentsNext)
             \/ TimerStep
             \/ BundleStep
             \/ NavigatorStep(NavigatorNext)

PartsSpec == /\ PartsInit /\ [][PartsNext]_all_vars
             /\ WF_all_vars(ComponentStep(Microtask))
             /\ WF_all_vars(NavigatorStep(BuildNavigator))
             /\ WF_all_vars(NavigatorStep(Frame))

(* DirtyGetsBuilt of Components, in the behaviours of that part. *)
DirtyComponentsGetBuilt == part = "components" => DirtyGetsBuilt
=============================================================================
