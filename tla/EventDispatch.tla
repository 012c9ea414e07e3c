------------------------------ MODULE EventDispatch ------------------------------
(***************************************************************************)
(* How a pointer event reaches JavaScript: the event driver sends the      *)
(* pointer event, its compatibility event and what default actions queue   *)
(* (strake-dom/src/events/driver.rs), and ScriptRuntime dispatches each to *)
(* the listeners along a chain of nodes (runtime.rs).                      *)
(*                                                                         *)
(* Listeners of one event type are kept.  A callback may change any list   *)
(* of listeners while the dispatch that called it goes on.  Chains are     *)
(* arbitrary: the driver asks the tree for one before each dispatch, and   *)
(* callbacks move nodes.                                                   *)
(***************************************************************************)
EXTENDS Naturals, FiniteSets, SequencesExt, Vectors

CONSTANTS
    Elements,       \* the nodes events are dispatched to
    Window,
    Callbacks,      \* JavaScript functions
    Chains,         \* what node_chain may answer, target first
    MaxChanges,     \* bound: changes of listeners and handlers
    MaxQueued       \* bound: events that default actions queue

Places == Elements \cup {Window}

ASSUME PlacesAssumption ==
    /\ Window \notin Elements
    /\ None \notin Callbacks \cup Places
    /\ \A chain \in Chains : chain \in Seq(Elements) /\ chain # <<>> /\ IsInjective(chain)
    /\ MaxChanges \in Nat /\ MaxQueued \in Nat

VARIABLES
    listeners,      \* node_listeners and window_listeners, in order of registration
    handlers,       \* the on<event> property of each element
    changes,        \* changes of listeners and handlers so far
    driver,         \* the event the driver handles: see Drivers
    dispatch,       \* the dispatch under way, or None: see Dispatches
    heard,          \* who was called in this dispatch, in order
    steady          \* who was registered when it began, and not removed since

dispatchVars == <<listeners, handlers, changes, driver, dispatch, heard, steady>>

Listeners == [callback : Callbacks, capture : BOOLEAN, once : BOOLEAN]

(* A place on the path of an event, and the listeners called there.  At    *)
(* the target of an event that does not bubble all of them are.            *)
Phases == {"capture", "bubble", "target", "window"}
Stops == [place : Places, phase : Phases]

(* The listener of a call: by its registration, or the on<event> handler.  *)
Registrations == [place : Places, callback : Callbacks, capture : BOOLEAN]
Heard == [place : Places, callback : Callbacks, phase : Phases, kind : {"capture", "plain", "handler"}]

Dispatches ==
    [chain : Chains, bubbles : BOOLEAN,
     path : Seq(Stops),                     \* stops ahead, the current one first
     pending : Seq([callback : Callbacks, kind : {"capture", "plain", "handler"}]),
     calling : BOOLEAN,                     \* a callback of this stop is running
     stopped : BOOLEAN, stopped_immediate : BOOLEAN, prevented : BOOLEAN,
     stopped_at : Nat]                      \* history: the call that stopped it, or 0

(* event is what is dispatched.  The pointer event and its compatibility   *)
(* event share a state; "direct" are events of other devices and of hover, *)
(* "queued" those of default actions and "change" follows an input event.  *)
Drivers ==
    [event : {"none", "direct", "pointer", "compat", "queued", "change"},
     cancelled : BOOLEAN,
     queue : 0..MaxQueued, queued : 0..MaxQueued,   \* now, and in all
     refused : BOOLEAN,                     \* history: preventDefault was called
     acted : BOOLEAN]                       \* history: the default action has run

DispatchTypeOK ==
    /\ listeners \in [Places -> Seq(Listeners)]
    /\ handlers \in [Elements -> Callbacks \cup {None}]
    /\ changes \in 0..MaxChanges
    /\ driver \in Drivers
    /\ dispatch = None \/ dispatch \in Dispatches
    /\ heard \in Seq(Heard)
    /\ steady \subseteq Registrations

NoDriver == [event |-> "none", cancelled |-> FALSE, queue |-> 0, queued |-> 0,
             refused |-> FALSE, acted |-> FALSE]

DispatchInit ==
    /\ listeners = [p \in Places |-> <<>>]
    /\ handlers = [n \in Elements |-> None]
    /\ changes = 0
    /\ driver = NoDriver
    /\ dispatch = None
    /\ heard = <<>>
    /\ steady = {}

-----------------------------------------------------------------------------
(* Dispatch.                                                               *)

Stop(place, phase) == [place |-> place, phase |-> phase]

(* dispatch_event_inner: root to target for capture listeners, target to   *)
(* root for the others, then the window; the target only if the event does *)
(* not bubble.  Mutant: the capture phase starts at the target.            *)
PathFromTarget(chain, bubbles) ==
    IF ~bubbles THEN <<Stop(Head(chain), "target")>>
    ELSE [i \in DOMAIN chain |-> Stop(chain[i], "capture")]
         \o [i \in DOMAIN chain |-> Stop(chain[i], "bubble")]
         \o <<Stop(Window, "window")>>
Path(chain, bubbles) ==
    IF ~bubbles THEN <<Stop(Head(chain), "target")>>
    ELSE [i \in DOMAIN chain |-> Stop(Reverse(chain)[i], "capture")]
         \o [i \in DOMAIN chain |-> Stop(chain[i], "bubble")]
         \o <<Stop(Window, "window")>>

(* Whether a listener is called at a stop.  Mutant: at_target_no_bubble is *)
(* forgotten.                                                              *)
CalledByPhase(l, phase) == l.capture = (phase = "capture")
CalledAt(l, phase) == l.capture = (phase = "capture") \/ phase = "target"

(* The callbacks of a stop: copied before the first of them is called, and *)
(* the on<event> handler after them.                                       *)
Gathered(stop) ==
    LET called == Filtered(listeners[stop.place], {l \in Listeners : CalledAt(l, stop.phase)})
        handler == IF stop.phase \in {"bubble", "target"} THEN handlers[stop.place] ELSE None
    IN  [i \in DOMAIN called |->
            [callback |-> called[i].callback,
             kind |-> IF called[i].capture THEN "capture" ELSE "plain"]]
        \o IF handler = None THEN <<>> ELSE <<[callback |-> handler, kind |-> "handler"]>>

(* once listeners are retired as they are copied.                          *)
Retired(stop) ==
    Filtered(listeners[stop.place], {l \in Listeners : ~(l.once /\ CalledAt(l, stop.phase))})

RegisteredOn(places) ==
    {r \in Registrations :
        /\ r.place \in places
        /\ \E l \in ToSet(listeners[r.place]) : l.callback = r.callback /\ l.capture = r.capture}

(* dispatch_dom_event along a chain, from the driver.                      *)
StartDispatch(chain, bubbles) ==
    /\ dispatch' = [chain |-> chain, bubbles |-> bubbles, path |-> Path(chain, bubbles),
                    pending |-> <<>>, calling |-> FALSE,
                    stopped |-> FALSE, stopped_immediate |-> FALSE, prevented |-> FALSE,
                    stopped_at |-> 0]
    /\ heard' = <<>>
    /\ steady' = RegisteredOn(IF bubbles THEN ToSet(chain) \cup {Window} ELSE {Head(chain)})

Between == dispatch # None /\ dispatch.pending = <<>>

(* The next stop of the path: gather.                                      *)
Visit ==
    /\ Between
    /\ dispatch.path # <<>> /\ ~dispatch.stopped
    /\ LET stop == Head(dispatch.path) IN
       /\ dispatch' = [dispatch EXCEPT !.pending = Gathered(stop), !.calling = FALSE,
                                       !.path = IF Gathered(stop) = <<>> THEN Tail(@) ELSE @]
       /\ listeners' = [listeners EXCEPT ![stop.place] = Retired(stop)]
    /\ UNCHANGED <<handlers, changes, driver, heard, steady>>

(* One callback is called.  stopImmediatePropagation has dropped those     *)
(* after it; once the last one has returned the stop is behind.            *)
Call ==
    /\ dispatch # None /\ dispatch.pending # <<>>
    /\ LET stop == Head(dispatch.path)
           call == Head(dispatch.pending)
       IN  /\ heard' = Append(heard, [place |-> stop.place, callback |-> call.callback,
                                      phase |-> stop.phase, kind |-> call.kind])
           /\ dispatch' = [dispatch EXCEPT
                  !.calling = TRUE,
                  !.pending = Tail(@),
                  !.path = IF Len(dispatch.pending) = 1 THEN Tail(@) ELSE @]
    /\ UNCHANGED <<listeners, handlers, changes, driver, steady>>

(* What a callback does to its event.                                      *)
Calling == dispatch # None /\ dispatch.calling
StopPropagation ==
    /\ Calling /\ ~dispatch.stopped
    /\ dispatch' = [dispatch EXCEPT !.stopped = TRUE, !.stopped_at = Len(heard)]
    /\ UNCHANGED <<listeners, handlers, changes, driver, heard, steady>>
StopImmediatePropagation ==
    /\ Calling /\ ~dispatch.stopped_immediate
    /\ dispatch' = [dispatch EXCEPT !.stopped = TRUE, !.stopped_immediate = TRUE,
                                    !.pending = <<>>,
                                    !.stopped_at = IF @ = 0 THEN Len(heard) ELSE @]
    /\ UNCHANGED <<listeners, handlers, changes, driver, heard, steady>>
PreventDefault ==
    /\ Calling /\ ~dispatch.prevented
    /\ dispatch' = [dispatch EXCEPT !.prevented = TRUE]
    /\ driver' = [driver EXCEPT !.refused = @ \/ driver.event # "change"]
    /\ UNCHANGED <<listeners, handlers, changes, heard, steady>>

(* What a callback, or any other script, does to the listeners.            *)
Script == changes < MaxChanges /\ (IF dispatch = None THEN TRUE ELSE dispatch.calling)
AddEventListener(p, l) ==
    /\ Script
    /\ p = Window => ~l.capture /\ ~l.once
    /\ \A k \in ToSet(listeners[p]) : k.callback # l.callback \/ k.capture # l.capture
    /\ listeners' = [listeners EXCEPT ![p] = Append(@, l)]
    /\ changes' = changes + 1
    /\ UNCHANGED <<handlers, driver, dispatch, heard, steady>>
RemoveEventListener(p, callback, capture) ==
    /\ Script
    /\ \E l \in ToSet(listeners[p]) : l.callback = callback /\ l.capture = capture
    /\ listeners' = [listeners EXCEPT ![p] =
           Filtered(@, {l \in Listeners : ~(l.callback = callback /\ l.capture = capture)})]
    /\ steady' = steady \ {[place |-> p, callback |-> callback, capture |-> capture]}
    /\ changes' = changes + 1
    /\ UNCHANGED <<handlers, driver, dispatch, heard>>
SetHandler(n, callback) ==
    /\ Script
    /\ handlers[n] # callback
    /\ handlers' = [handlers EXCEPT ![n] = callback]
    /\ changes' = changes + 1
    /\ UNCHANGED <<listeners, driver, dispatch, heard, steady>>

-----------------------------------------------------------------------------
(* The driver.                                                             *)

Idle == dispatch = None /\ driver.event = "none"

(* run_handler_event for an event of its own.                              *)
HandleEvent(event, chain, bubbles) ==
    /\ driver' = [driver EXCEPT !.event = event, !.cancelled = FALSE,
                                !.queue = IF event = "queued" THEN @ - 1 ELSE @,
                                !.refused = FALSE, !.acted = FALSE]
    /\ StartDispatch(chain, bubbles)
    /\ UNCHANGED <<listeners, handlers, changes>>

(* handle_dom_event: wheel, key and text events, and those of              *)
(* handle_pointer_move, of which leave and enter do not bubble.            *)
HandleDomEvent(chain, bubbles) ==
    Idle /\ driver.queue = 0 /\ HandleEvent("direct", chain, bubbles)

(* handle_pointer_event: the pointer event first.                          *)
HandlePointerEvent(chain) == Idle /\ driver.queue = 0 /\ HandleEvent("pointer", chain, TRUE)

(* process_queue.                                                          *)
ProcessQueue(chain) == Idle /\ driver.queue > 0 /\ HandleEvent("queued", chain, TRUE)

(* A dispatch is over: nothing is left of the path, or the event was       *)
(* stopped.  is_cancelled is preventDefault, of the shared state; that of  *)
(* a change event is dropped.                                              *)
Ended ==
    /\ dispatch # None
    /\ dispatch.pending = <<>>
    /\ dispatch.path = <<>> \/ dispatch.stopped
Cancelled == driver.cancelled \/ (dispatch.prevented /\ driver.event # "change")

(* The compatibility event of a pointer event, along a chain of its own.   *)
SendCompatibilityEvent(chain) ==
    /\ Ended /\ driver.event = "pointer" /\ ~Cancelled
    /\ driver' = [driver EXCEPT !.event = "compat"]
    /\ StartDispatch(chain, TRUE)
    /\ UNCHANGED <<listeners, handlers, changes>>

(* dispatch_dom_event: the change event of a checkbox follows its input    *)
(* event, along the same chain.                                            *)
SynthesiseChange ==
    /\ Ended /\ driver.event = "queued"
    /\ driver' = [driver EXCEPT !.event = "change", !.cancelled = Cancelled]
    /\ StartDispatch(dispatch.chain, TRUE)
    /\ UNCHANGED <<listeners, handlers, changes>>

(* The default action, which may queue an event (focus, click, input).     *)
DefaultRuns(n) ==
    /\ driver.queued + n <= MaxQueued
    /\ driver' = [driver EXCEPT !.event = "none", !.cancelled = FALSE, !.acted = TRUE,
                                !.queue = @ + n, !.queued = @ + n]
RunDefaultAction(n) ==
    /\ Ended
    /\ ~Cancelled /\ DefaultRuns(n)
    /\ dispatch' = None /\ heard' = <<>> /\ steady' = {}
    /\ UNCHANGED <<listeners, handlers, changes>>
SkipDefaultAction ==
    /\ Ended /\ Cancelled
    /\ driver' = [driver EXCEPT !.event = "none", !.cancelled = FALSE]
    /\ dispatch' = None /\ heard' = <<>> /\ steady' = {}
    /\ UNCHANGED <<listeners, handlers, changes>>

EventStep ==
    \/ \E chain \in Chains :
          \/ HandlePointerEvent(chain) \/ ProcessQueue(chain) \/ SendCompatibilityEvent(chain)
          \/ \E bubbles \in BOOLEAN : HandleDomEvent(chain, bubbles)
    \/ SynthesiseChange
    \/ Visit \/ Call
    \/ StopPropagation \/ StopImmediatePropagation \/ PreventDefault
    \/ \E p \in Places, l \in Listeners : AddEventListener(p, l)
    \/ \E p \in Places, c \in Callbacks, capture \in BOOLEAN : RemoveEventListener(p, c, capture)
    \/ \E n \in Elements, c \in Callbacks \cup {None} : SetHandler(n, c)
    \/ \E n \in 0..1 : RunDefaultAction(n)
    \/ SkipDefaultAction

DispatchSpec == DispatchInit /\ [][EventStep]_dispatchVars
-----------------------------------------------------------------------------
(* Properties.                                                             *)

(* Where a call stands on the way of an event: down from the root to the   *)
(* target, up again, and the window last.                                  *)
Rank(call) ==
    LET depth == IF call.place = Window THEN 0
                 ELSE CHOOSE i \in DOMAIN dispatch.chain : dispatch.chain[i] = call.place
    IN  CASE call.phase = "capture" -> Len(dispatch.chain) - depth
          [] call.phase = "window" -> 2 * Len(dispatch.chain) + 1
          [] OTHER -> Len(dispatch.chain) + depth

(* Calls follow that way whatever callbacks add and remove meanwhile; no   *)
(* registration is called twice in a dispatch, nobody further on is called *)
(* once the event is stopped, and an event that was refused in either of   *)
(* its forms has no default action (runtime.rs:1014-1182,                  *)
(* driver.rs:285-314).                                                     *)
DispatchFollowsPath ==
    dispatch # None =>
        /\ \A i, j \in DOMAIN heard : i < j =>
              /\ Rank(heard[i]) <= Rank(heard[j])
              /\ heard[i] # heard[j]
        /\ dispatch.stopped_at > 0 =>
              \A i \in DOMAIN heard :
                  i > dispatch.stopped_at => Rank(heard[i]) = Rank(heard[dispatch.stopped_at])
RefusedEventsDoNothing == driver.refused => ~driver.acted
DispatchIsOrderly == DispatchFollowsPath /\ RefusedEventsDoNothing

(* Unless the event is stopped, whoever was listening on its way when the  *)
(* dispatch began, and was not removed meanwhile, is called: capture       *)
(* listeners on the target of an event that does not bubble included, and  *)
(* once listeners after they are retired (runtime.rs:1077-1106).           *)
EveryListenerHears ==
    (Ended /\ ~dispatch.stopped) =>
        \A r \in steady : \E i \in DOMAIN heard :
            /\ heard[i].place = r.place /\ heard[i].callback = r.callback
            /\ heard[i].kind = IF r.capture THEN "capture" ELSE "plain"
=============================================================================
