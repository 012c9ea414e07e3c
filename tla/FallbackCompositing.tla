--------------------------- MODULE FallbackCompositing ---------------------------
(***************************************************************************)
(* The supervisor together with a FallbackWidget (widget.rs) and the       *)
(* embedder's loop that the docs of both prescribe: follow                 *)
(* Supervisor::epoch, pump the latest frame, present it on the widget, let *)
(* the renderer paint.  Everything runs on the embedder's UI thread; the   *)
(* steps of the supervisor interleave with frames in any order.            *)
(*                                                                         *)
(* generation and painted_generation are only ever compared: the model     *)
(* keeps whether they differ.                                              *)
(***************************************************************************)
EXTENDS FallbackSupervisor

VARIABLES
    frame,        \* FallbackWidget.frame
    unpainted,    \* generation # painted_generation
    seen_epoch,   \* the epoch the embedder presented its frame under
    drawn         \* the frame the renderer last put on screen

widgetVars == <<frame, unpainted, seen_epoch, drawn>>
allVars == <<vars, widgetVars>>

RequiresRedraw == frame # None /\ unpainted

WidgetTypeOK ==
    /\ TypeOK
    /\ frame \in Option(Nat)
    /\ unpainted \in BOOLEAN
    /\ seen_epoch \in Nat
    /\ drawn \in Option(Nat)

WidgetInit ==
    /\ Init
    /\ frame = None
    /\ unpainted = FALSE
    /\ seen_epoch = 0
    /\ drawn = None

(* FallbackWidget::set_frame.  Mutant: only the first frame asks for a     *)
(* repaint, and video freezes on it.                                       *)
SetFirstFrame(f) == frame' = f /\ unpainted' = (unpainted \/ frame = None)
SetFrame(f) == frame' = f /\ unpainted' = TRUE

(* The embedder's frame callback: drop the presented frame when the epoch  *)
(* moved (Widget::disconnected), then present what pump_frame yields       *)
(* (FallbackWidget::set_frame).                                            *)
Present ==
    /\ seen_epoch' = epoch
    /\ IF PumpFrame # None
       THEN SetFrame(PumpFrame)
       ELSE frame' = (IF seen_epoch # epoch THEN None ELSE frame) /\ UNCHANGED unpainted
    /\ UNCHANGED <<vars, drawn>>

(* Widget::paint with a box of non-zero size.                              *)
Paint ==
    /\ RequiresRedraw
    /\ unpainted' = FALSE
    /\ drawn' = frame
    /\ UNCHANGED <<vars, frame, seen_epoch>>

(* The element leaves the document: Widget::disconnected.                  *)
Disconnect ==
    /\ Calling
    /\ frame # None
    /\ frame' = None
    /\ UNCHANGED <<vars, unpainted, seen_epoch, drawn>>

Next ==
    \/ SupervisorNext /\ UNCHANGED widgetVars
    \/ Present
    \/ Paint
    \/ Disconnect

CompositingSpec == WidgetInit /\ [][Next]_allVars

(* The embedder's frame callback runs, a widget that requires a redraw is  *)
(* painted, and the embedder polls with its clock.  Nothing obliges it to  *)
(* add, show or remove surfaces; time passes, so they stop at LastCall.    *)
CompositingFairSpec ==
    /\ CompositingSpec
    /\ WF_allVars(Present)
    /\ WF_allVars(Paint)
    /\ WF_allVars(Tick /\ UNCHANGED widgetVars)
    /\ WF_allVars(Poll(now) /\ UNCHANGED widgetVars)

-----------------------------------------------------------------------------

(* The epoch alone tells an embedder whether the bitmap it presents is     *)
(* current: while the epoch it presented under has not moved, the worker   *)
(* is Active and the frame is of its latest start.                         *)
EpochTellsFreshness ==
    (frame # None /\ seen_epoch = epoch) => (state = "Active" /\ frame = backend.starts)

(* The worker fits the surfaces: visible content has an Active worker,     *)
(* live content some worker, and each eviction clock runs exactly while    *)
(* its condition holds, through every order of calls, polls and frames.    *)
WorkerFitsSurfaces == VisibleIsServed /\ ClocksMatchSurfaces

(* No bitmap of before the latest hibernation or termination is shown as   *)
(* live: neither from pump_frame, nor, if the embedder follows the epoch,  *)
(* from the widget that still holds an old frame.                          *)
FramesAreFresh == PumpedFramesAreFresh /\ EpochTellsFreshness

(* An idle worker does not stay: without surfaces it is terminated, fully  *)
(* occluded it hibernates, unless surfaces come back first.                *)
IdleWorkerIsEvicted == IdleWorkerIsTerminated /\ OccludedWorkerHibernates

(* A frame composited for the current start reaches the screen, unless the *)
(* worker is evicted first: the redraw request is neither dropped nor      *)
(* satisfied by an older frame, however often the element is unmounted.    *)
FramesReachTheScreen ==
    (PumpFrame # None) ~> (drawn = backend.starts \/ state # "Active")

=============================================================================
