----------------------------- MODULE WorkerLifecycle -----------------------------
(***************************************************************************)
(* What the fallback supervisor promises its embedder (the policy of issue *)
(* #5 in the head of supervisor.rs), without the two clocks, the ids and   *)
(* the backend it keeps it with: the worker is there whenever something is *)
(* visible, and it is hibernated or terminated only after the load has     *)
(* been idle, in the same way, for the whole of the policy's delay.        *)
(***************************************************************************)
EXTENDS Integers

CONSTANTS HIBERNATE_AFTER, TERMINATE_AFTER, None

VARIABLES
    worker,      \* "Unloaded", "Active" or "Hibernated"
    live,        \* the surfaces there are
    visible,     \* those that are visible
    idleSince,   \* when the load became what it is, None while it is busy
    now

vars == <<worker, live, visible, idleSince, now>>

(* What the surfaces ask of the worker.                                    *)
LoadOf(L, V) == IF L = {} THEN "empty" ELSE IF V = {} THEN "occluded" ELSE "busy"
Load == LoadOf(live, visible)

Init ==
    /\ worker = "Unloaded"
    /\ live = {}
    /\ visible = {}
    /\ idleSince = None
    /\ now = 0

(* The surfaces change in any way.  Visible content has an active worker   *)
(* at once; anything else leaves the worker as it is.  The idle clock      *)
(* restarts exactly when the load changes its kind.                        *)
ChangeLoad ==
    /\ live' \subseteq Nat
    /\ visible' \subseteq live'
    /\ worker' = IF visible' # {} THEN "Active" ELSE worker
    /\ idleSince' = IF Load' = "busy" THEN None
                    ELSE IF Load' = Load THEN idleSince
                    ELSE now
    /\ UNCHANGED now

IdleFor(delay) == idleSince # None /\ now - idleSince >= delay

Hibernate ==
    /\ Load = "occluded"
    /\ worker = "Active"
    /\ IdleFor(HIBERNATE_AFTER)
    /\ worker' = "Hibernated"
    /\ UNCHANGED <<live, visible, idleSince, now>>

Terminate ==
    /\ Load = "empty"
    /\ worker # "Unloaded"
    /\ IdleFor(TERMINATE_AFTER)
    /\ worker' = "Unloaded"
    /\ idleSince' = None
    /\ UNCHANGED <<live, visible, now>>

Tick == now' = now + 1 /\ UNCHANGED <<worker, live, visible, idleSince>>

Next == ChangeLoad \/ Hibernate \/ Terminate \/ Tick

Spec == Init /\ [][Next]_vars

=============================================================================
