------------------------ MODULE FallbackSupervisor_proofs ------------------------
(***************************************************************************)
(* Proofs about the fallback supervisor, for every threshold, number of    *)
(* surfaces, clock and lag: its safety invariants, that it implements the  *)
(* lifecycle policy, and that its epoch is all an embedder needs to know   *)
(* that the bitmap on its widget is current.                               *)
(***************************************************************************)
EXTENDS FallbackCompositing, TLAPS

(* The worker process runs exactly in the Active state, and a frame it     *)
(* holds is of its latest start: what pump_frame relies on.                *)
WorkerInStep ==
    /\ backend.live <=> state = "Active"
    /\ backend.next_frame \in {None, backend.starts}
    /\ backend.next_frame # None => backend.live

(* The inductive invariant.                                                *)
IInv ==
    /\ TypeOK
    /\ VisibleIsServed
    /\ ClocksMatchSurfaces
    /\ WorkerInStep

-----------------------------------------------------------------------------
(* What the lifecycle calls do to the worker.                              *)

LEMMA StartWorkerFacts ==
    ASSUME NEW b \in Backend
    PROVE  /\ StartWorker(b) \in Backend
           /\ StartWorker(b).live = TRUE
           /\ StartWorker(b).next_frame = b.next_frame
<1>1. b.starts + 1 \in Nat
    BY DEF Backend
<1> DEFINE running == [b EXCEPT !.live = TRUE]
<1>2. running \in Backend /\ running.live = TRUE /\ running.next_frame = b.next_frame
    BY DEF Backend, Option
<1>3. StartWorker(b) = [running EXCEPT !.starts = b.starts + 1]
    BY DEF StartWorker
<1> HIDE DEF running
<1> QED
    BY <1>1, <1>2, <1>3 DEF Backend, Option

LEMMA StopWorkerFacts ==
    ASSUME NEW b \in Backend
    PROVE  /\ StopWorker(b) \in Backend
           /\ StopWorker(b).live = FALSE
           /\ StopWorker(b).next_frame = None
BY DEF StopWorker, Backend, Option

LEMMA InitIInv == Init => IInv
BY DEF Init, IInv, TypeOK, VisibleIsServed, ClocksMatchSurfaces, WorkerInStep,
       WorkerState, Option, Time, Backend

(* Registering a surface keeps the invariant, whatever the worker's state. *)
LEMMA AddSurfaceIInv == IInv /\ AddSurface => IInv'
<1> SUFFICES ASSUME IInv, AddSurface PROVE IInv'
    OBVIOUS
<1> USE NoneAssumption DEF IInv, Option, Time, WorkerState
<1>1. /\ state' = "Active"
      /\ epoch' \in Nat
      /\ backend' = IF state = "Active" THEN backend ELSE StartWorker(backend)
    BY DEF AddSurface, WakeIfHibernated, TypeOK
<1>9. backend' \in Backend /\ WorkerInStep'
    BY <1>1, StartWorkerFacts DEF TypeOK, WorkerInStep
<1>2. TypeOK'
    BY <1>1, <1>9 DEF TypeOK, AddSurface
<1>3. VisibleIsServed' /\ ClocksMatchSurfaces'
    BY <1>1 DEF VisibleIsServed, ClocksMatchSurfaces, AddSurface, TypeOK
<1> QED
    BY <1>9, <1>2, <1>3

LEMMA RemoveSurfaceIInv == ASSUME NEW id PROVE IInv /\ RemoveSurface(id) => IInv'
<1> SUFFICES ASSUME IInv, RemoveSurface(id) PROVE IInv'
    OBVIOUS
<1> USE NoneAssumption DEF IInv, Option, Time, RemoveSurface, Known, GetOrInsert
<1>1. TypeOK'
    BY DEF TypeOK
<1>2. VisibleIsServed' /\ WorkerInStep'
    BY DEF VisibleIsServed, WorkerInStep, TypeOK
<1>3. ClocksMatchSurfaces'
    BY DEF ClocksMatchSurfaces, VisibleIsServed, TypeOK
<1> QED
    BY <1>1, <1>2, <1>3

LEMMA ShowSurfaceIInv == ASSUME NEW id PROVE IInv /\ ShowSurface(id) => IInv'
<1> SUFFICES ASSUME IInv, ShowSurface(id) PROVE IInv'
    OBVIOUS
<1> USE NoneAssumption DEF IInv, Option, Time, WorkerState, ShowSurface, Known
<1>1. /\ state' = "Active"
      /\ epoch' \in Nat
      /\ backend' = IF state = "Active" THEN backend ELSE StartWorker(backend)
    BY DEF WakeIfHibernated, TypeOK, VisibleIsServed
<1>9. backend' \in Backend /\ WorkerInStep'
    BY <1>1, StartWorkerFacts DEF TypeOK, WorkerInStep
<1>2. TypeOK'
    BY <1>1, <1>9 DEF TypeOK
<1>3. VisibleIsServed' /\ ClocksMatchSurfaces'
    BY <1>1 DEF VisibleIsServed, ClocksMatchSurfaces, TypeOK
<1> QED
    BY <1>9, <1>2, <1>3

LEMMA HideSurfaceIInv == ASSUME NEW id PROVE IInv /\ HideSurface(id) => IInv'
<1> SUFFICES ASSUME IInv, HideSurface(id) PROVE IInv'
    OBVIOUS
<1> USE NoneAssumption DEF IInv, Option, Time, HideSurface, Known, GetOrInsert
<1>1. TypeOK'
    BY DEF TypeOK
<1>2. VisibleIsServed' /\ WorkerInStep' /\ ClocksMatchSurfaces'
    BY DEF VisibleIsServed, WorkerInStep, ClocksMatchSurfaces, TypeOK
<1> QED
    BY <1>1, <1>2

LEMMA PollIInv == ASSUME NEW t \in Nat PROVE IInv /\ Poll(t) => IInv'
<1> SUFFICES ASSUME IInv, Poll(t) PROVE IInv'
    OBVIOUS
<1> USE NoneAssumption DEF IInv, Evict
<1>1. CASE PollTerminate(t)
    <2>0. backend' = StopWorker(backend) /\ backend \in Backend
        BY <1>1 DEF PollTerminate, TypeOK
    <2>1. TypeOK'
        <3>1. backend' \in Backend
            BY <2>0, StopWorkerFacts
        <3>2. epoch' \in Nat /\ UNCHANGED now
            BY <1>1 DEF PollTerminate, TypeOK
        <3> QED
            BY <1>1, <3>1, <3>2 DEF PollTerminate, TypeOK, WorkerState, Option
    <2>3. WorkerInStep'
        BY <1>1, <2>0, StopWorkerFacts DEF PollTerminate, WorkerInStep
    <2>2. VisibleIsServed' /\ ClocksMatchSurfaces'
        BY <1>1 DEF PollTerminate, VisibleIsServed, ClocksMatchSurfaces, TypeOK
    <2> QED
        BY <2>1, <2>2, <2>3
<1>2. CASE PollHibernate(t)
    <2>0. backend' = StopWorker(backend) /\ backend \in Backend
        BY <1>2 DEF PollHibernate, TypeOK
    <2>1. TypeOK'
        <3>1. backend' \in Backend
            BY <2>0, StopWorkerFacts
        <3>2. epoch' \in Nat /\ UNCHANGED now
            BY <1>2 DEF PollHibernate, TypeOK
        <3> QED
            BY <1>2, <3>1, <3>2 DEF PollHibernate, TypeOK, WorkerState, Option
    <2>3. WorkerInStep'
        BY <1>2, <2>0, StopWorkerFacts DEF PollHibernate, WorkerInStep
    <2>2. VisibleIsServed' /\ ClocksMatchSurfaces'
        BY <1>2 DEF PollHibernate, Elapsed, VisibleIsServed, ClocksMatchSurfaces, TypeOK
    <2> QED
        BY <2>1, <2>2, <2>3
<1> QED
    BY <1>1, <1>2 DEF Poll

(* The steps that are not calls of the embedder on the supervisor.         *)
LEMMA EnvironmentIInv ==
    IInv /\ (AddSurfaceFails \/ CompositeFrame \/ BreakSpawn \/ Tick) => IInv'
<1> SUFFICES ASSUME IInv, AddSurfaceFails \/ CompositeFrame \/ BreakSpawn \/ Tick
             PROVE  IInv'
    OBVIOUS
<1> USE DEF IInv, supervisorVars
<1>1. TypeOK'
    <2>1. CASE CompositeFrame
        <3>1. backend.starts \in Option(Nat)
            BY DEF TypeOK, Backend, Option
        <3> QED
            BY <2>1, <3>1 DEF CompositeFrame, TypeOK, Backend, Option
    <2>2. CASE AddSurfaceFails \/ BreakSpawn
        BY <2>2 DEF AddSurfaceFails, RefuseSpawn, BreakSpawn, TypeOK, Backend, Option
    <2>3. CASE Tick
        BY <2>3 DEF Tick, TypeOK, Time
    <2> QED
        BY <2>1, <2>2, <2>3
<1>2. WorkerInStep'
    <2>1. CASE CompositeFrame
        BY <2>1 DEF CompositeFrame, WorkerInStep, TypeOK, Backend
    <2>2. CASE AddSurfaceFails \/ BreakSpawn \/ Tick
        BY <2>2 DEF AddSurfaceFails, RefuseSpawn, BreakSpawn, Tick,
                    WorkerInStep, TypeOK, Backend
    <2> QED
        BY <2>1, <2>2
<1>3. VisibleIsServed' /\ ClocksMatchSurfaces'
    BY DEF AddSurfaceFails, CompositeFrame, BreakSpawn, Tick,
           VisibleIsServed, ClocksMatchSurfaces
<1> QED
    BY <1>1, <1>2, <1>3

(* Every step of the specification keeps the inductive invariant.          *)
LEMMA NextIInv == IInv /\ [SupervisorNext]_vars => IInv'
<1> SUFFICES ASSUME IInv, [SupervisorNext]_vars PROVE IInv'
    OBVIOUS
<1>1. CASE AddSurface
    BY <1>1, AddSurfaceIInv
<1>2. CASE \E id \in IssuedIds : RemoveSurface(id) \/ ShowSurface(id) \/ HideSurface(id)
    BY <1>2, RemoveSurfaceIInv, ShowSurfaceIInv, HideSurfaceIInv
<1>3. CASE \E t \in StaleTimes : Poll(t)
    <2>1. PICK t \in StaleTimes : Poll(t)
        BY <1>3
    <2>2. t \in Nat
        BY <2>1 DEF StaleTimes, IInv, TypeOK, Time
    <2> QED
        BY <2>1, <2>2, PollIInv
<1>4. CASE AddSurfaceFails \/ CompositeFrame \/ BreakSpawn \/ Tick
    BY <1>4, EnvironmentIInv
<1>5. CASE UNCHANGED vars
    BY <1>5 DEF vars, supervisorVars, IInv, TypeOK, VisibleIsServed,
                ClocksMatchSurfaces, WorkerInStep
<1> QED
    BY <1>1, <1>2, <1>3, <1>4, <1>5 DEF SupervisorNext

THEOREM InductiveInvariant == Spec => []IInv
BY InitIInv, NextIInv, PTL DEF Spec

-----------------------------------------------------------------------------

(* Refinement: the supervisor implements WorkerLifecycle.                  *)

IdleSince == IF occluded_since # None THEN occluded_since ELSE emptied_at

LEMMA RefinesInit == Init => Lifecycle!Init
BY DEF Init, Lifecycle!Init

(* Every call on the surfaces is one change of the abstract load.          *)
LEMMA RefinesCalls ==
    ASSUME IInv, IInv', NEW id \in Nat,
           AddSurface \/ RemoveSurface(id) \/ ShowSurface(id) \/ HideSurface(id)
    PROVE  Lifecycle!ChangeLoad
<1> USE NoneAssumption DEF Lifecycle!LoadOf, Lifecycle!Load
<1>1. live' \subseteq Nat /\ visible' \subseteq live' /\ UNCHANGED now
    BY DEF IInv, TypeOK, AddSurface, RemoveSurface, ShowSurface, HideSurface
<1>2. state' = IF visible' # {} THEN "Active" ELSE state
    <2>1. CASE AddSurface \/ ShowSurface(id)
        BY <2>1 DEF IInv, VisibleIsServed, TypeOK, AddSurface, ShowSurface, Known
    <2>2. CASE RemoveSurface(id) \/ HideSurface(id)
        BY <2>2 DEF IInv, VisibleIsServed, RemoveSurface, HideSurface
    <2> QED
        BY <2>1, <2>2
<1>3. IdleSince' = IF Lifecycle!Load' = "busy" THEN None
                   ELSE IF Lifecycle!Load' = Lifecycle!Load THEN IdleSince
                   ELSE now
    <2>1. CASE AddSurface \/ ShowSurface(id)
        BY <2>1 DEF IInv, ClocksMatchSurfaces, TypeOK, AddSurface, ShowSurface,
                    Known, IdleSince
    <2>2. CASE RemoveSurface(id)
        BY <2>2 DEF IInv, ClocksMatchSurfaces, VisibleIsServed, TypeOK, Time,
                    RemoveSurface, Known, GetOrInsert, IdleSince
    <2>3. CASE HideSurface(id)
        BY <2>3 DEF IInv, ClocksMatchSurfaces, VisibleIsServed, TypeOK, Time,
                    HideSurface, Known, GetOrInsert, IdleSince
    <2> QED
        BY <2>1, <2>2, <2>3
<1> QED
    BY <1>1, <1>2, <1>3 DEF Lifecycle!ChangeLoad, IdleSince

(* A poll that evicts, also one with a late timestamp, evicts a worker     *)
(* whose load has been idle for the whole delay.                           *)
LEMMA RefinesPoll ==
    ASSUME IInv, NEW t \in StaleTimes, Poll(t)
    PROVE  Lifecycle!Hibernate \/ Lifecycle!Terminate
<1> USE NoneAssumption, ThresholdsAssumption DEF Lifecycle!LoadOf, Lifecycle!Load
<1>1. t \in Nat /\ t <= now /\ now \in Nat
    BY DEF StaleTimes, IInv, TypeOK, Time
<1>2. ASSUME NEW since \in Nat, NEW limit \in Nat \ {0}, Elapsed(since, t, limit)
      PROVE  now - since >= limit
    BY <1>1, <1>2 DEF Elapsed, SaturatingSub
<1>3. CASE PollTerminate(t)
    <2>1. /\ emptied_at \in Nat
          /\ occluded_since = None
          /\ IdleSince = emptied_at
        BY <1>3 DEF PollTerminate, Elapsed, IInv, TypeOK, Option, Time,
                    ClocksMatchSurfaces, IdleSince
    <2>2. now - emptied_at >= TERMINATE_AFTER
        BY <1>2, <1>3, <2>1 DEF PollTerminate
    <2>3. Lifecycle!Terminate
        BY <1>3, <2>1, <2>2 DEF PollTerminate, Evict, HasWorker, Lifecycle!Terminate,
                                Lifecycle!IdleFor, IdleSince
    <2> QED
        BY <2>3
<1>4. CASE PollHibernate(t)
    <2>1. occluded_since \in Nat /\ visible = {} /\ IdleSince = occluded_since
        BY <1>4 DEF PollHibernate, Elapsed, IInv, TypeOK, Option, Time,
                    ClocksMatchSurfaces, IdleSince
    <2>2. now - occluded_since >= HIBERNATE_AFTER
        BY <1>2, <1>4, <2>1 DEF PollHibernate
    <2>3. Lifecycle!Hibernate
        BY <1>4, <2>1, <2>2 DEF PollHibernate, Evict, Lifecycle!Hibernate,
                                Lifecycle!IdleFor
    <2> QED
        BY <2>3
<1> QED
    BY <1>3, <1>4 DEF Poll

(* Every step of the supervisor is a step of the policy or leaves its      *)
(* state unchanged.                                                        *)
LEMMA RefinesNext ==
    IInv /\ IInv' /\ [SupervisorNext]_vars => [Lifecycle!Next]_(Lifecycle!vars)
<1> SUFFICES ASSUME IInv, IInv', [SupervisorNext]_vars
             PROVE  Lifecycle!Next \/ UNCHANGED Lifecycle!vars
    OBVIOUS
<1>1. CASE AddSurface
    BY <1>1, RefinesCalls, 0 \in Nat DEF Lifecycle!Next
<1>2. CASE \E id \in IssuedIds : RemoveSurface(id) \/ ShowSurface(id) \/ HideSurface(id)
    <2>1. PICK id \in IssuedIds : RemoveSurface(id) \/ ShowSurface(id) \/ HideSurface(id)
        BY <1>2
    <2>2. id \in Nat
        BY <2>1 DEF IssuedIds, IInv, TypeOK
    <2> QED
        BY <2>1, <2>2, RefinesCalls DEF Lifecycle!Next
<1>3. CASE \E t \in StaleTimes : Poll(t)
    BY <1>3, RefinesPoll DEF Lifecycle!Next
<1>4. CASE Tick
    BY <1>4 DEF Tick, supervisorVars, Lifecycle!Next, Lifecycle!Tick
<1>5. CASE AddSurfaceFails \/ CompositeFrame \/ BreakSpawn \/ UNCHANGED vars
    BY <1>5 DEF AddSurfaceFails, CompositeFrame, BreakSpawn, vars, supervisorVars,
                Lifecycle!vars
<1> QED
    BY <1>1, <1>2, <1>3, <1>4, <1>5 DEF SupervisorNext

(* The supervisor implements the lifecycle policy.                         *)
THEOREM SupervisorImplementsLifecycle == Spec => ImplementsLifecycle
<1>1. Spec => Lifecycle!Init
    BY RefinesInit DEF Spec
<1> QED
    BY <1>1, InductiveInvariant, RefinesNext, PTL
    DEF Spec, ImplementsLifecycle, Lifecycle!Spec

-----------------------------------------------------------------------------
(* The widget and the compositing loop.                                    *)

(* The epoch a frame was presented under is not ahead of the supervisor's. *)
EpochInv ==
    /\ IInv
    /\ seen_epoch \in Nat /\ seen_epoch <= epoch
    /\ EpochTellsFreshness

(* A step of the supervisor that leaves the epoch alone leaves an active   *)
(* worker as it is; any other one raises the epoch.                        *)
LEMMA SupervisorStepMovesEpoch ==
    ASSUME IInv, [SupervisorNext]_vars
    PROVE  \/ epoch' > epoch
           \/ epoch' = epoch /\ (state = "Active" => state' = "Active" /\ backend'.starts = backend.starts)
<1> USE DEF IInv, TypeOK
<1>1. CASE AddSurface
  <2>1. CASE state = "Unloaded"
      BY <1>1, <2>1 DEF AddSurface
  <2>2. CASE state # "Unloaded"
      BY <1>1, <2>2 DEF AddSurface, WakeIfHibernated
  <2> QED
      BY <2>1, <2>2
<1>2. CASE \E id \in IssuedIds : RemoveSurface(id) \/ HideSurface(id)
    BY <1>2 DEF RemoveSurface, HideSurface
<1>3. CASE \E id \in IssuedIds : ShowSurface(id)
    BY <1>3 DEF ShowSurface, WakeIfHibernated
<1>4. CASE \E t \in StaleTimes : Poll(t)
    BY <1>4 DEF Poll, PollTerminate, PollHibernate, Evict
<1>5. CASE AddSurfaceFails
    BY <1>5 DEF AddSurfaceFails, supervisorVars
<1>6. CASE CompositeFrame
    BY <1>6 DEF CompositeFrame, supervisorVars, Backend
<1>7. CASE BreakSpawn
    BY <1>7 DEF BreakSpawn, supervisorVars
<1>8. CASE Tick \/ UNCHANGED vars
    BY <1>8 DEF Tick, vars, supervisorVars
<1> QED
    BY <1>1, <1>2, <1>3, <1>4, <1>5, <1>6, <1>7, <1>8 DEF SupervisorNext

LEMMA NextEpochInv ==
    ASSUME EpochInv, [Next]_allVars
    PROVE  EpochInv'
<1>1. CASE SupervisorNext /\ UNCHANGED widgetVars
  <2>1. IInv'
      BY <1>1, NextIInv DEF EpochInv
  <2>2. frame' = frame /\ seen_epoch' = seen_epoch
      BY <1>1 DEF widgetVars
  <2>3. epoch \in Nat /\ epoch' \in Nat
      BY <2>1 DEF EpochInv, IInv, TypeOK
  <2>4. CASE epoch' > epoch
      BY <2>1, <2>2, <2>3, <2>4 DEF EpochInv, EpochTellsFreshness
  <2>5. CASE epoch' = epoch /\ (state = "Active" => state' = "Active" /\ backend'.starts = backend.starts)
      BY <2>1, <2>2, <2>5 DEF EpochInv, EpochTellsFreshness
  <2> QED
      BY <1>1, <2>4, <2>5, SupervisorStepMovesEpoch DEF EpochInv
<1>2. CASE Present
  <2>1. IInv' /\ UNCHANGED <<epoch, state, backend>> /\ seen_epoch' = epoch /\ epoch \in Nat
      BY <1>2, NextIInv DEF Present, EpochInv, vars, supervisorVars, IInv, TypeOK
  <2>2. CASE PumpFrame # None
    <3>1. frame' = PumpFrame
        BY <1>2, <2>2 DEF Present, SetFrame
    <3>2. state = "Active" /\ PumpFrame = backend.starts
        BY <2>2 DEF PumpFrame, Frame, EpochInv, IInv, WorkerInStep
    <3> QED
        BY <2>1, <3>1, <3>2 DEF EpochInv, EpochTellsFreshness
  <2>3. CASE PumpFrame = None
    <3>1. frame' = IF seen_epoch # epoch THEN None ELSE frame
        BY <1>2, <2>3 DEF Present
    <3> QED
        BY <2>1, <3>1 DEF EpochInv, EpochTellsFreshness
  <2> QED
      BY <2>2, <2>3
<1>3. CASE Paint \/ Disconnect \/ UNCHANGED allVars
  <2>1. /\ frame' \in {frame, None} /\ seen_epoch' = seen_epoch
        /\ UNCHANGED vars
      BY <1>3 DEF Paint, Disconnect, allVars, widgetVars
  <2>2. IInv' /\ UNCHANGED <<epoch, state, backend>>
      BY <2>1, NextIInv DEF EpochInv, vars, supervisorVars
  <2> QED
      BY <2>1, <2>2 DEF EpochInv, EpochTellsFreshness
<1> QED
    BY <1>1, <1>2, <1>3 DEF Next

(* The inductive invariant of the composition.                             *)
WidgetInv == EpochInv /\ WidgetTypeOK

LEMMA FrameTyped ==
    ASSUME IInv
    PROVE  PumpFrame \in Option(Nat)
BY DEF IInv, TypeOK, PumpFrame, Frame, Option, Backend

LEMMA NextWidgetInv ==
    ASSUME WidgetInv, [Next]_allVars
    PROVE  WidgetInv'
<1>1. EpochInv' /\ TypeOK'
    BY NextEpochInv DEF WidgetInv, EpochInv, IInv
<1>2. CASE UNCHANGED widgetVars
    BY <1>1, <1>2 DEF WidgetInv, WidgetTypeOK, widgetVars
<1>3. CASE Present
  <2>1. seen_epoch' \in Nat /\ drawn' = drawn
      BY <1>3 DEF Present, WidgetInv, EpochInv, IInv, TypeOK
  <2>2. frame' \in Option(Nat)
      BY <1>3, FrameTyped DEF Present, SetFrame, WidgetInv, EpochInv, WidgetTypeOK, Option
  <2>3. unpainted' \in BOOLEAN
      BY <1>3 DEF Present, SetFrame, WidgetInv, WidgetTypeOK
  <2> QED
      BY <1>1, <2>1, <2>2, <2>3 DEF WidgetInv, WidgetTypeOK
<1>4. CASE Paint \/ Disconnect
    BY <1>1, <1>4 DEF Paint, Disconnect, WidgetInv, WidgetTypeOK, Option
<1> QED
    BY <1>2, <1>3, <1>4 DEF Next, allVars

(* The invariants of supervisor and widget hold together, always.          *)
LEMMA WidgetInvariant == CompositingSpec => []WidgetInv
<1>1. WidgetInit => WidgetInv
  <2>1. WidgetInit => IInv /\ TypeOK
      BY InitIInv DEF WidgetInit, IInv
  <2>2. WidgetInit => epoch = 0
      BY DEF WidgetInit, Init
  <2>3. WidgetInit => WidgetTypeOK
    <3>1. WidgetInit => seen_epoch \in Nat
        BY DEF WidgetInit
    <3>2. WidgetInit => unpainted \in BOOLEAN
        BY Zenon DEF WidgetInit
    <3>3. WidgetInit => frame \in Option(Nat) /\ drawn \in Option(Nat)
        BY DEF WidgetInit, Option
    <3> QED
        BY <2>1, <3>1, <3>2, <3>3, Zenon DEF WidgetTypeOK
  <2>4. WidgetInit => EpochInv
      BY <2>1, <2>2 DEF WidgetInit, EpochInv, EpochTellsFreshness
  <2> QED
      BY <2>3, <2>4 DEF WidgetInv
<1>2. WidgetInv /\ [Next]_allVars => WidgetInv'
    BY NextWidgetInv
<1> QED
    BY <1>1, <1>2, PTL DEF CompositingSpec

(* The state of supervisor, worker and widget is always well typed.        *)
THEOREM TypeCorrect == CompositingSpec => []WidgetTypeOK
<1>1. WidgetInv => WidgetTypeOK
    BY DEF WidgetInv
<1> QED
    BY <1>1, WidgetInvariant, PTL

(* A visible surface always has an Active worker, a live one some worker,  *)
(* and the eviction clocks run exactly while their condition holds         *)
(* (supervisor.rs add_surface, remove_surface, set_visible, poll).         *)
THEOREM WorkerAlwaysFits == CompositingSpec => []WorkerFitsSurfaces
<1>1. WidgetInv => WorkerFitsSurfaces
    BY DEF WidgetInv, EpochInv, IInv, WorkerFitsSurfaces
<1> QED
    BY <1>1, WidgetInvariant, PTL

(* pump_frame never yields a bitmap of before the latest start, and the    *)
(* epoch alone tells an embedder whether the one it presents is of the     *)
(* running worker (supervisor.rs pump_frame, epoch; widget.rs set_frame).  *)
THEOREM FramesAlwaysFresh == CompositingSpec => []FramesAreFresh
<1>1. IInv => PumpedFramesAreFresh
    BY DEF IInv, PumpedFramesAreFresh, PumpFrame, Frame, WorkerInStep
<1>2. WidgetInv => FramesAreFresh
    BY <1>1 DEF WidgetInv, EpochInv, FramesAreFresh
<1> QED
    BY <1>2, WidgetInvariant, PTL

=============================================================================
