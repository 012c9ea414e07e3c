--------------------------- MODULE FallbackSupervisor ---------------------------
(***************************************************************************)
(* The fallback worker's supervisor (strake-fallback-supervisor, module    *)
(* supervisor.rs) driving the scriptable backend of testing.rs.  One       *)
(* worker process serves every live fallback surface: it is spawned on     *)
(* first demand, hibernated once every surface has been occluded for       *)
(* HIBERNATE_AFTER and terminated once no surface has lived for            *)
(* TERMINATE_AFTER.                                                        *)
(*                                                                         *)
(* The HashMap of surfaces is the pair (live, visible): its keys, and the  *)
(* keys whose Surface is visible.  A frame is the number of the worker     *)
(* start (spawn or wake) it was composited after.  Time advances in ticks; *)
(* poll may be handed a timestamp up to Lag ticks old, which is what the   *)
(* saturating subtraction in the code is for.                              *)
(***************************************************************************)
EXTENDS Integers

CONSTANTS
    HIBERNATE_AFTER,   \* ticks of full occlusion before hibernation
    TERMINATE_AFTER,   \* ticks without a surface before termination
    None,              \* Option::None
    MaxSurfaces,       \* bound: surfaces ever added
    LastCall,          \* bound: the embedder adds, removes, shows, hides until here
    MaxTime,           \* bound: the clock stops here
    Lag                \* bound: how stale the timestamp given to poll may be

ASSUME ThresholdsAssumption ==
    /\ HIBERNATE_AFTER \in Nat \ {0}
    /\ TERMINATE_AFTER \in Nat \ {0}
ASSUME NoneAssumption == None \notin Nat
ASSUME BoundsAssumption ==
    /\ MaxSurfaces \in Nat
    /\ LastCall \in Nat
    /\ MaxTime \in Nat
    /\ Lag \in Nat

VARIABLES
    state,             \* WorkerState
    live,              \* ids of the registered surfaces
    visible,           \* the registered surfaces that are visible
    next_surface_id,
    occluded_since,
    emptied_at,
    epoch,
    backend,           \* the worker process behind FallbackBackend
    now                \* the embedder's clock

supervisorVars == <<state, live, visible, next_surface_id, occluded_since,
                    emptied_at, epoch>>
vars == <<supervisorVars, backend, now>>

Option(S) == S \cup {None}
Time == Nat
WorkerState == {"Unloaded", "Active", "Hibernated"}
Backend == [live : BOOLEAN, starts : Nat, next_frame : Option(Nat),
            fail_next_spawn : BOOLEAN]

TypeOK ==
    /\ state \in WorkerState
    /\ live \subseteq Nat
    /\ visible \subseteq live
    /\ next_surface_id \in Nat
    /\ occluded_since \in Option(Time)
    /\ emptied_at \in Option(Time)
    /\ epoch \in Nat
    /\ backend \in Backend
    /\ now \in Time

-----------------------------------------------------------------------------
(* The backend: what each lifecycle call does to the worker.               *)

StartWorker(b) == [b EXCEPT !.live = TRUE, !.starts = @ + 1]

StopWorker(b) == [b EXCEPT !.live = FALSE, !.next_frame = None]

RefuseSpawn(b) == [b EXCEPT !.fail_next_spawn = FALSE]
Frame(b) == IF b.live THEN b.next_frame ELSE None

-----------------------------------------------------------------------------
(* The pieces the handlers of the supervisor are made of.                  *)

SaturatingSub(a, b) == IF a >= b THEN a - b ELSE 0
Elapsed(since, t, limit) == since # None /\ SaturatingSub(t, since) >= limit

(* Mutant: every further hide restarts the clock.                          *)
RestartClock(option, t) == t
GetOrInsert(option, t) == IF option = None THEN t ELSE option

(* Mutant: a late call for a surface that was removed is not refused.      *)
OnceKnown(id) == id < next_surface_id
Known(id) == id \in live

(* Mutant: only a rendering worker is thought worth terminating.           *)
OnlyActive == state = "Active"
HasWorker == state # "Unloaded"

(* A newly visible surface wakes a hibernated worker.  Mutant: it does     *)
(* not.                                                                    *)
LeaveAsleep == UNCHANGED <<backend, state, epoch>>
WakeIfHibernated ==
    IF state = "Hibernated"
    THEN /\ backend' = StartWorker(backend)
         /\ state' = "Active"
         /\ epoch' = epoch + 1
    ELSE UNCHANGED <<backend, state, epoch>>

(* The watchdog hibernates or terminates the worker.  Mutant: terminating  *)
(* leaves the epoch alone, since there is no worker to be stale.           *)
EvictSilently(to) ==
    /\ backend' = StopWorker(backend)
    /\ state' = to
    /\ epoch' = IF to = "Unloaded" THEN epoch ELSE epoch + 1
Evict(to) ==
    /\ backend' = StopWorker(backend)
    /\ state' = to
    /\ epoch' = epoch + 1

Calling == now <= LastCall
-----------------------------------------------------------------------------

Init ==
    /\ state = "Unloaded"
    /\ live = {}
    /\ visible = {}
    /\ next_surface_id = 0
    /\ occluded_since = None
    /\ emptied_at = None
    /\ epoch = 0
    /\ backend = [live |-> FALSE, starts |-> 0, next_frame |-> None,
                  fail_next_spawn |-> FALSE]
    /\ now = 0

(* add_surface when the worker is missing and the backend refuses to spawn *)
(* it: SpawnFailed is returned before anything of the supervisor changed.  *)
AddSurfaceFails ==
    /\ Calling
    /\ state = "Unloaded"
    /\ backend.fail_next_spawn
    /\ backend' = RefuseSpawn(backend)
    /\ UNCHANGED <<supervisorVars, now>>

(* add_surface: spawn or wake the worker on demand, then register.         *)
AddSurface ==
    /\ Calling
    /\ next_surface_id < MaxSurfaces
    /\ \/ /\ state = "Unloaded"
          /\ ~backend.fail_next_spawn
          /\ backend' = StartWorker(backend)
          /\ state' = "Active"
          /\ UNCHANGED epoch
       \/ /\ state # "Unloaded"
          /\ WakeIfHibernated
    /\ live' = live \cup {next_surface_id}
    /\ visible' = visible \cup {next_surface_id}
    /\ next_surface_id' = next_surface_id + 1
    /\ occluded_since' = None
    /\ emptied_at' = None
    /\ UNCHANGED now

(* remove_surface of a known id (an unknown one returns an error).         *)
RemoveSurface(id) ==
    /\ Calling
    /\ Known(id)
    /\ live' = live \ {id}
    /\ visible' = visible \ {id}
    /\ \/ /\ live' = {}
          /\ emptied_at' = now
          /\ occluded_since' = None
       \/ /\ live' # {}
          /\ visible' = {}
          /\ occluded_since' = GetOrInsert(occluded_since, now)
          /\ UNCHANGED emptied_at
       \/ /\ visible' # {}
          /\ UNCHANGED <<occluded_since, emptied_at>>
    /\ UNCHANGED <<state, next_surface_id, epoch, backend, now>>

(* set_visible(id, true): wakes a hibernated worker at once.               *)
ShowSurface(id) ==
    /\ Calling
    /\ Known(id)
    /\ visible' = visible \cup {id}
    /\ occluded_since' = None
    /\ WakeIfHibernated
    /\ UNCHANGED <<live, next_surface_id, emptied_at, now>>

(* set_visible(id, false): starts the occlusion clock when it was the last *)
(* visible surface.                                                        *)
HideSurface(id) ==
    /\ Calling
    /\ Known(id)
    /\ visible' = visible \ {id}
    /\ occluded_since' = IF visible' = {} THEN GetOrInsert(occluded_since, now)
                                          ELSE occluded_since
    /\ UNCHANGED <<state, live, next_surface_id, emptied_at, epoch, backend, now>>

(* poll(t) with no surface left: terminate an idle worker.                 *)
PollTerminate(t) ==
    /\ live = {}
    /\ HasWorker
    /\ Elapsed(emptied_at, t, TERMINATE_AFTER)
    /\ Evict("Unloaded")
    /\ emptied_at' = None
    /\ UNCHANGED <<live, visible, next_surface_id, occluded_since, now>>

(* poll(t) with surfaces: hibernate a fully occluded worker.               *)
PollHibernate(t) ==
    /\ live # {}
    /\ state = "Active"
    /\ Elapsed(occluded_since, t, HIBERNATE_AFTER)
    /\ Evict("Hibernated")
    /\ UNCHANGED <<live, visible, next_surface_id, occluded_since, emptied_at, now>>

Poll(t) == PollTerminate(t) \/ PollHibernate(t)

(* The worker composites a frame of the current start.                     *)
CompositeFrame ==
    /\ backend.live
    /\ backend' = [backend EXCEPT !.next_frame = backend.starts]
    /\ UNCHANGED <<supervisorVars, now>>

(* The next spawn is going to fail (no browser binary, out of memory).     *)
BreakSpawn ==
    /\ Calling
    /\ state = "Unloaded"
    /\ backend' = [backend EXCEPT !.fail_next_spawn = TRUE]
    /\ UNCHANGED <<supervisorVars, now>>

Tick ==
    /\ now < MaxTime
    /\ now' = now + 1
    /\ UNCHANGED <<supervisorVars, backend>>

(* pump_frame: what the embedder is given to present.                      *)
PumpFrame == IF state = "Active" THEN Frame(backend) ELSE None

-----------------------------------------------------------------------------

StaleTimes == {t \in 0 .. now : now <= t + Lag}

(* Callers hold ids that were handed out, of removed surfaces too.         *)
IssuedIds == 0 .. next_surface_id - 1

SupervisorNext ==
    \/ AddSurface
    \/ AddSurfaceFails
    \/ \E id \in IssuedIds : RemoveSurface(id) \/ ShowSurface(id) \/ HideSurface(id)
    \/ \E t \in StaleTimes : Poll(t)
    \/ CompositeFrame
    \/ BreakSpawn
    \/ Tick

Spec == Init /\ [][SupervisorNext]_vars

-----------------------------------------------------------------------------
(* Properties.                                                             *)

(* No visible surface is ever left without a rendering worker: whatever    *)
(* the order of add, show, hide, remove and poll, a visible surface means  *)
(* an Active worker, and a live one a worker that was not terminated.      *)
VisibleIsServed ==
    /\ visible # {} => state = "Active"
    /\ live # {} => state # "Unloaded"

(* The two eviction clocks describe the surfaces: the occlusion clock runs *)
(* exactly while there are surfaces and all are hidden, the termination    *)
(* clock exactly while a worker is kept without any surface, so that no    *)
(* idle worker is forgotten and no busy one is condemned.                  *)
ClocksMatchSurfaces ==
    /\ (occluded_since # None) <=> (live # {} /\ visible = {})
    /\ (emptied_at # None) <=> (live = {} /\ state # "Unloaded")

(* Freshness contract of FallbackBackend::frame: pump_frame never yields a *)
(* bitmap of before the latest hibernation or termination.                 *)
PumpedFramesAreFresh == PumpFrame \in {None, backend.starts}

(* The supervisor implements the policy of WorkerLifecycle: a worker at    *)
(* once for visible content, and eviction only after the load has been     *)
(* idle in one way for the whole delay, over every order of calls.         *)
Lifecycle == INSTANCE WorkerLifecycle WITH
    worker <- state,
    idleSince <- IF occluded_since # None THEN occluded_since ELSE emptied_at
ImplementsLifecycle == Lifecycle!Spec

(* A worker without surfaces does not stay: it is terminated unless a new  *)
(* surface arrives.                                                        *)
IdleWorkerIsTerminated ==
    (live = {} /\ state # "Unloaded") ~> (state = "Unloaded" \/ live # {})

(* A fully occluded worker hibernates unless a surface is shown again or   *)
(* the surfaces go away.                                                   *)
OccludedWorkerHibernates ==
    (live # {} /\ visible = {}) ~> (state # "Active" \/ visible # {} \/ live = {})

=============================================================================
