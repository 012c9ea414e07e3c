------------------------------- MODULE MCScriptHost -------------------------------
(* What the host does with the functions that scripts hand it.  Scenarios,  *)
(* one of which a behaviour keeps to: pointer events reach the listeners of *)
(* a page; an app becomes ready, opens and closes windows and quits; and    *)
(* pages call an app over IPC.                                              *)
EXTENDS EventDispatch, ElectronHost, TLC

CONSTANTS target, parent, Scenarios, MaxFunctions, MaxOpened

VARIABLE scenario
vars == <<dispatchVars, hostVars, scenario>>

MCChains == {<<target, parent>>, <<parent>>}
Symmetric == Permutations(Callbacks)

Init == DispatchInit /\ HostInit /\ scenario \in Scenarios

TypeOK == DispatchTypeOK /\ HostTypeOK

(* Calls, functions and windows of a scenario: the app's lifecycle needs    *)
(* functions, IPC needs calls.                                              *)
Bounded ==
    LET functions == Cardinality({fn \in Functions : used'[fn] # "no"})
    IN  CASE scenario = "lifecycle" -> functions <= MaxFunctions
          [] scenario = "ipc" -> functions <= 1 /\ created' <= MaxOpened

Next ==
    /\ UNCHANGED scenario
    /\ \/ scenario = "events" /\ EventStep /\ UNCHANGED hostVars
       \/ /\ scenario # "events" /\ UNCHANGED dispatchVars
          /\ LifecycleStep \/ (scenario = "ipc" /\ IpcStep)
          /\ Bounded

Spec == Init /\ [][Next]_vars
=============================================================================
