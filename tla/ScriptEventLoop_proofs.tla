------------------------- MODULE ScriptEventLoop_proofs -------------------------
(***************************************************************************)
(* The order of timers, the checkpoint after each of them, and the         *)
(* refinement of the timer contract, for every page: any delays, any       *)
(* number of timers and microtasks, any clock.                             *)
(***************************************************************************)
EXTENDS ScriptEventLoop, TLAPS

-----------------------------------------------------------------------------
(* Types.                                                                  *)

(* The part of TypeOK that the order of timers is about.                   *)
TimersTyped ==
    /\ now \in Nat /\ next_id \in Nat
    /\ timers \subseteq Timer /\ batch \subseteq Timer
    /\ fired \in [id : Nat, deadline : Nat]

(* The delay a page is given is a natural number.                          *)
LEMMA DelayTyped ==
    ASSUME NEW nesting \in Nat, NEW delay \in Nat
    PROVE  ClampDelay(nesting, delay) \in Nat
BY EventLoopAssumption DEF ClampDelay, Larger

LEMMA NestingTyped ==
    ASSUME timer_nesting \in Option(Nat)
    PROVE  Nesting \in Nat
BY DEF Nesting, Option

LEMMA RescheduleTyped ==
    ASSUME TimersTyped, NEW t \in timers, t.interval # None
    PROVE  /\ Reschedule(t) \in Timer
           /\ Reschedule(t).id = t.id
           /\ Reschedule(t).interval = t.interval
           /\ Reschedule(t).deadline > now
<1>1. t \in Timer /\ t.interval \in Nat
    BY DEF TimersTyped, Timer, Option
<1>2. now + Larger(t.interval, 1) \in Nat /\ now + Larger(t.interval, 1) > now
    BY <1>1 DEF TimersTyped, Larger
<1> QED
    BY <1>1, <1>2 DEF Reschedule, Timer

(* What RunDueTimers leaves in the queue.                                  *)
LEMMA RequeuedTimers ==
    ASSUME TimersTyped, NEW u \in Requeued
    PROVE  /\ u \in Timer /\ u.deadline > now
           /\ \E t \in timers :
                 /\ t.id = u.id
                 /\ u = t \/ (u = Reschedule(t) /\ t \in Due /\ t.interval # None)
<1>1. CASE u \in timers \ Due
    BY <1>1 DEF TimersTyped, Timer, Due
<1>2. ASSUME NEW t \in Due, t.interval # None, u = Reschedule(t)
      PROVE  /\ u \in Timer /\ u.deadline > now
             /\ t \in timers /\ t.id = u.id
    <2>1. t \in timers
        BY DEF Due
    <2> QED
        BY <1>2, <2>1, RescheduleTyped
<1> QED
    BY <1>1, <1>2 DEF Requeued

(* What Add puts into the queue.                                           *)
LEMMA AddedTimer ==
    ASSUME TimersTyped, NEW delay \in Nat, NEW interval \in Option(Nat), NEW nesting \in Nat,
           Add(delay, interval, nesting)
    PROVE  \E t \in Timer :
              /\ timers' = timers \cup {t}
              /\ next_id' = next_id + 1 /\ t.id = next_id + 1
              /\ t.deadline = now + delay
<1> DEFINE t == [id |-> next_id', deadline |-> now + delay,
                 interval |-> interval, nesting |-> nesting]
<1>1. next_id' = next_id + 1 /\ next_id' \in Nat /\ now + delay \in Nat
    BY DEF TimersTyped, Add
<1>2. t \in Timer /\ t.id = next_id' /\ t.deadline = now + delay
    BY <1>1 DEF Timer
<1>3. timers' = timers \cup {t}
    BY DEF Add
<1> HIDE DEF t
<1> QED
    BY <1>1, <1>2, <1>3

(* Every call that sets a timer, with the delay it comes to.               *)
SetTimer == SetTimeout \/ SetInterval \/ RequestAnimationFrame

LEMMA SetTimerAdds ==
    ASSUME timer_nesting \in Option(Nat), SetTimer
    PROVE  \E delay, nesting \in Nat, interval \in Option(Nat) : Add(delay, interval, nesting)
<1>1. Nesting \in Nat
    BY NestingTyped
<1>2. \A delay \in Delays : ClampDelay(Nesting, delay) \in Nat
    BY <1>1, DelayTyped, EventLoopAssumption
<1>3. CASE SetTimeout
    BY <1>1, <1>2, <1>3 DEF SetTimeout, Option
<1>4. CASE SetInterval
    BY <1>1, <1>2, <1>4 DEF SetInterval, Option
<1>5. CASE RequestAnimationFrame
    BY <1>5, EventLoopAssumption DEF RequestAnimationFrame, Option
<1> QED
    BY <1>3, <1>4, <1>5 DEF SetTimer

-----------------------------------------------------------------------------
(* The order of timers.                                                    *)

(* Ids are below the counter; whatever is still to be called comes after   *)
(* what has been; the batch is due and comes before the queue.             *)
InOrder ==
    /\ \A t \in timers \cup batch : t.id <= next_id /\ Precedes(fired, t)
    /\ fired.id <= next_id /\ fired.deadline <= now
    /\ \A t \in batch : t.deadline <= now
    /\ \A t \in batch, u \in timers : Precedes(t, u)

(* A poll finds no batch left over.                                        *)
BatchBelongsToPoll ==
    batch # {} => pc = "fire" \/ (pc \in {"js", "jobs", "job"} /\ task = "timer")

OrderInv == TimersTyped /\ timer_nesting \in Option(Nat) /\ InOrder /\ BatchBelongsToPoll

LEMMA InitOrderInv == Init => OrderInv
BY DEF Init, OrderInv, TimersTyped, Option, InOrder, BatchBelongsToPoll

(* Steps that leave the timers alone and do not end a poll.                *)
QuietStep ==
    /\ UNCHANGED <<now, next_id, timers, batch, fired>>
    /\ timer_nesting' \in {timer_nesting, None}

LEMMA QuietStepKeepsOrder ==
    ASSUME OrderInv, QuietStep, BatchBelongsToPoll'
    PROVE  OrderInv'
BY DEF OrderInv, QuietStep, TimersTyped, InOrder, Precedes, Option

LEMMA SetTimerKeepsOrder ==
    ASSUME OrderInv, SetTimer
    PROVE  OrderInv'
<1>1. PICK delay \in Nat, nesting \in Nat, interval \in Option(Nat) : Add(delay, interval, nesting)
    BY SetTimerAdds DEF OrderInv
<1>2. PICK t \in Timer :
         /\ timers' = timers \cup {t}
         /\ next_id' = next_id + 1 /\ t.id = next_id + 1
         /\ t.deadline = now + delay
    BY <1>1, AddedTimer DEF OrderInv
<1>3. UNCHANGED <<now, batch, fired, timer_nesting, pc, task>>
    BY <1>1 DEF Add, taskVars
<1>4. TimersTyped'
    BY <1>2, <1>3 DEF OrderInv, TimersTyped
<1>5. InOrder'
  <2>1. \A u \in batch : Precedes(u, t)
      BY <1>2 DEF OrderInv, InOrder, TimersTyped, Timer, Precedes
  <2>2. Precedes(fired, t)
      BY <1>2 DEF OrderInv, InOrder, TimersTyped, Timer, Precedes
  <2>3. \A u \in timers \cup batch : u.id <= next_id + 1
      BY DEF OrderInv, InOrder, TimersTyped, Timer
  <2>4. fired.id <= next_id + 1 /\ t.id <= next_id + 1
      BY <1>2 DEF OrderInv, InOrder, TimersTyped
  <2> QED
      BY <1>2, <1>3, <2>1, <2>2, <2>3, <2>4 DEF OrderInv, InOrder, Precedes
<1> QED
    BY <1>3, <1>4, <1>5 DEF OrderInv, BatchBelongsToPoll

LEMMA ClearTimerKeepsOrder ==
    ASSUME OrderInv, ClearTimer
    PROVE  OrderInv'
<1>1. timers' \subseteq timers /\ UNCHANGED <<now, next_id, batch, fired, timer_nesting, pc, task>>
    BY DEF ClearTimer, RemoveTimer, taskVars
<1> QED
    BY <1>1 DEF OrderInv, TimersTyped, InOrder, BatchBelongsToPoll, Precedes

LEMMA RunDueTimersKeepsOrder ==
    ASSUME OrderInv, RunDueTimers
    PROVE  OrderInv'
<1>1. batch = {}
    BY DEF OrderInv, BatchBelongsToPoll, RunDueTimers
<1>2. /\ batch' = Due /\ timers' = Requeued
      /\ UNCHANGED <<now, next_id, fired, timer_nesting>> /\ pc' = "fire"
    BY DEF RunDueTimers
<1>3. \A u \in Requeued : /\ u \in Timer /\ u.deadline > now
                          /\ \E t \in timers : t.id = u.id
    BY RequeuedTimers DEF OrderInv
<1>4. Due \subseteq timers /\ \A t \in Due : t.deadline <= now
    BY DEF Due
<1>5. TimersTyped'
    BY <1>2, <1>3, <1>4 DEF OrderInv, TimersTyped
<1>6. InOrder'
  <2>1. \A u \in Requeued : u.id <= next_id /\ Precedes(fired, u)
      BY <1>3 DEF OrderInv, InOrder, TimersTyped, Timer, Precedes
  <2>2. \A t \in Due : t.id <= next_id /\ Precedes(fired, t)
      BY <1>4 DEF OrderInv, InOrder
  <2>3. \A t \in Due, u \in Requeued : Precedes(t, u)
      BY <1>3, <1>4 DEF OrderInv, TimersTyped, Timer, Precedes
  <2> QED
      BY <1>2, <1>4, <2>1, <2>2, <2>3 DEF OrderInv, InOrder, Precedes
<1> QED
    BY <1>2, <1>5, <1>6 DEF OrderInv, BatchBelongsToPoll

(* The timer called is the first of all there are.                         *)
LEMMA FiredIsFirst ==
    ASSUME OrderInv, NEW t \in batch, FirstOf(t)
    PROVE  /\ t \in Timer /\ t.deadline <= now /\ t.id <= next_id
           /\ t \notin timers
           /\ Precedes(fired, t)
           /\ \A u \in (timers \cup batch) \ {t} : Precedes(t, u)
<1>1. \A u \in timers : Precedes(t, u)
    BY DEF OrderInv, InOrder
<1>2. ~Precedes(t, t)
    BY DEF OrderInv, TimersTyped, Timer, Precedes
<1> QED
    BY <1>1, <1>2 DEF OrderInv, InOrder, TimersTyped, FirstOf

LEMMA FireTimerKeepsOrder ==
    ASSUME OrderInv, FireTimer
    PROVE  OrderInv' /\ Precedes(fired, fired')
<1>1. PICK t \in batch :
         /\ FirstOf(t)
         /\ batch' = batch \ {t}
         /\ fired' = [id |-> t.id, deadline |-> t.deadline]
         /\ timer_nesting' = t.nesting
    BY DEF FireTimer
<1>2. UNCHANGED <<now, next_id, timers>> /\ pc' = "js" /\ task' = "timer"
    BY DEF FireTimer, StartTask
<1>3. /\ t \in Timer /\ t.deadline <= now /\ t.id <= next_id
      /\ Precedes(fired, t)
      /\ \A u \in (timers \cup batch) \ {t} : Precedes(t, u)
      /\ t \notin timers
    BY <1>1, FiredIsFirst
<1>4. fired' \in [id : Nat, deadline : Nat] /\ fired'.id = t.id /\ fired'.deadline = t.deadline
    BY <1>1, <1>3 DEF Timer
<1>5. TimersTyped' /\ timer_nesting' \in Option(Nat)
    BY <1>1, <1>2, <1>3, <1>4 DEF OrderInv, TimersTyped, Timer, Option
<1>6. Precedes(fired, fired') /\ \A u \in timers' \cup batch' : Precedes(fired', u)
    BY <1>1, <1>2, <1>3, <1>4 DEF Precedes
<1>7. InOrder'
    BY <1>1, <1>2, <1>3, <1>4, <1>6 DEF OrderInv, InOrder, Precedes
<1> QED
    BY <1>2, <1>5, <1>6, <1>7 DEF OrderInv, BatchBelongsToPoll

LEMMA SkipTimerKeepsOrder ==
    ASSUME OrderInv, SkipTimer
    PROVE  OrderInv'
<1>1. batch' \subseteq batch /\ UNCHANGED <<now, next_id, timers, fired, timer_nesting, pc, task>>
    BY DEF SkipTimer
<1> QED
    BY <1>1 DEF OrderInv, TimersTyped, InOrder, BatchBelongsToPoll, Precedes

LEMMA TickKeepsOrder ==
    ASSUME OrderInv, Tick
    PROVE  OrderInv'
<1>1. now' = now + 1 /\ UNCHANGED <<next_id, timers, batch, fired, timer_nesting, pc, task>>
    BY DEF Tick, taskVars
<1> QED
    BY <1>1 DEF OrderInv, TimersTyped, Timer, InOrder, BatchBelongsToPoll, Precedes

(* The steps that touch no timer.                                          *)
OtherStep ==
    \/ QueueMicrotask \/ TaskReturns \/ RunJob \/ JobReturns \/ NextScript
    \/ ScriptsEnd \/ CallbackEnds \/ PollEnds \/ TimerThread \/ Shell

LEMMA NextCases ==
    ASSUME Next
    PROVE  \/ SetTimer \/ ClearTimer \/ RunDueTimers \/ SkipTimer \/ FireTimer \/ Tick
           \/ OtherStep
BY DEF Next, Script, MainThread, SetTimer, OtherStep

LEMMA OtherStepIsQuiet ==
    ASSUME OrderInv, OtherStep
    PROVE  /\ QuietStep /\ BatchBelongsToPoll'
           /\ UNCHANGED <<cancelled, cleared>>
<1> USE DEF OrderInv, QuietStep, BatchBelongsToPoll, timerVars, taskVars, threadVars, shellVars
<1>1. CASE QueueMicrotask
    BY <1>1 DEF QueueMicrotask, Running
<1>2. CASE TaskReturns
    BY <1>2 DEF TaskReturns
<1>3. CASE RunJob \/ JobReturns \/ NextScript
    BY <1>3 DEF RunJob, JobReturns, NextScript
<1>4. CASE ScriptsEnd \/ CallbackEnds \/ PollEnds
    BY <1>4 DEF ScriptsEnd, CallbackEnds, PollEnds
<1>5. CASE TimerThread
    BY <1>5 DEF TimerThread, ThreadReceives, ThreadWakes
<1>6. CASE CompleteResume \/ Suspend
    BY <1>6 DEF CompleteResume, Suspend
<1>7. CASE WindowEvent \/ Eval \/ Poll
    BY <1>7 DEF WindowEvent, Eval, Poll, StartTask
<1> QED
    BY <1>1, <1>2, <1>3, <1>4, <1>5, <1>6, <1>7 DEF OtherStep, Shell

LEMMA NextKeepsOrder ==
    ASSUME OrderInv, [Next]_vars
    PROVE  OrderInv'
<1>1. CASE SetTimer
    BY <1>1, SetTimerKeepsOrder
<1>2. CASE ClearTimer
    BY <1>2, ClearTimerKeepsOrder
<1>3. CASE RunDueTimers
    BY <1>3, RunDueTimersKeepsOrder
<1>4. CASE SkipTimer
    BY <1>4, SkipTimerKeepsOrder
<1>5. CASE FireTimer
    BY <1>5, FireTimerKeepsOrder
<1>6. CASE Tick
    BY <1>6, TickKeepsOrder
<1>7. CASE OtherStep
    BY <1>7, OtherStepIsQuiet, QuietStepKeepsOrder
<1>8. CASE UNCHANGED vars
  <2>1. QuietStep /\ BatchBelongsToPoll'
      BY <1>8 DEF vars, timerVars, taskVars, QuietStep, BatchBelongsToPoll, OrderInv
  <2> QED
      BY <2>1, QuietStepKeepsOrder
<1> QED
    BY <1>1, <1>2, <1>3, <1>4, <1>5, <1>6, <1>7, <1>8, NextCases

LEMMA OrderInvariant == Spec => []OrderInv
<1>1. OrderInv /\ [Next]_vars => OrderInv'
    BY NextKeepsOrder
<1> QED
    BY InitOrderInv, <1>1, PTL DEF Spec

(* Only FireTimer calls a timer.                                           *)
LEMMA OnlyFiringFires ==
    ASSUME OrderInv, [Next]_vars
    PROVE  FireTimer \/ fired' = fired
<1>1. CASE SetTimer
  <2>1. PICK delay \in Nat, nesting \in Nat, interval \in Option(Nat) : Add(delay, interval, nesting)
      BY <1>1, SetTimerAdds DEF OrderInv
  <2> QED
      BY <2>1 DEF Add, taskVars
<1>2. CASE ClearTimer \/ RunDueTimers \/ SkipTimer \/ Tick
    BY <1>2 DEF ClearTimer, RunDueTimers, SkipTimer, Tick, taskVars
<1>3. CASE OtherStep
    BY <1>3, OtherStepIsQuiet DEF QuietStep
<1>4. CASE UNCHANGED vars
    BY <1>4 DEF vars, taskVars
<1> QED
    BY <1>1, <1>2, <1>3, <1>4, NextCases

(* Timers are called in the order of their deadlines and ids over the      *)
(* whole life of a page (timers.rs sort_by_key), whatever it sets, clears  *)
(* and delays, and however late it is polled.                              *)
THEOREM TimersFireInOrder == Spec => FiresInOrder
<1>1. OrderInv /\ [Next]_vars => [fired' # fired => Precedes(fired, fired')]_vars
  <2> SUFFICES ASSUME OrderInv, [Next]_vars, fired' # fired
               PROVE  Precedes(fired, fired')
      OBVIOUS
  <2> QED
      BY OnlyFiringFires, FireTimerKeepsOrder
<1> QED
    BY OrderInvariant, <1>1, PTL DEF Spec, FiresInOrder

-----------------------------------------------------------------------------
(* Cancellation, for pages that clear only ids they were given.            *)

(* A mark is of a cleared timer that has left the queue; a cleared timer   *)
(* of the batch has its mark; ids are unique.                              *)
MarksInv ==
    /\ MarkedIdsAreNotQueued
    /\ cancelled \subseteq cleared /\ cleared \subseteq 1..next_id
    /\ Ids(timers) \cap cleared = {}
    /\ \A t \in batch : t.id \in cleared => t.id \in cancelled
    /\ \A t, u \in timers : t.id = u.id => t = u
    /\ \A t, u \in batch : t.id = u.id => t = u

LEMMA InitMarksInv == Init => MarksInv
BY DEF Init, MarksInv, MarkedIdsAreNotQueued, Ids

LEMMA SetTimerKeepsMarks ==
    ASSUME OrderInv, MarksInv, SetTimer
    PROVE  MarksInv'
<1>1. PICK delay \in Nat, nesting \in Nat, interval \in Option(Nat) : Add(delay, interval, nesting)
    BY SetTimerAdds DEF OrderInv
<1>2. PICK t \in Timer :
         /\ timers' = timers \cup {t}
         /\ next_id' = next_id + 1 /\ t.id = next_id + 1
    BY <1>1, AddedTimer DEF OrderInv
<1>3. UNCHANGED <<cancelled, cleared, batch>>
    BY <1>1 DEF Add, taskVars
<1>4. next_id \in Nat /\ t.id \notin 1..next_id /\ 1..next_id \subseteq 1..next_id'
    BY <1>2 DEF OrderInv, TimersTyped
<1>5. \A u \in timers : u.id # t.id
    BY <1>2 DEF OrderInv, TimersTyped, Timer, InOrder
<1>6. Ids(timers)' = Ids(timers) \cup {t.id}
    BY <1>2 DEF Ids
<1>7. t.id \notin cleared /\ t.id \notin cancelled
    BY <1>4 DEF MarksInv
<1>8. /\ MarkedIdsAreNotQueued'
      /\ Ids(timers)' \cap cleared' = {}
    BY <1>3, <1>6, <1>7 DEF MarksInv, MarkedIdsAreNotQueued
<1>9. cancelled' \subseteq cleared' /\ cleared' \subseteq 1..next_id'
    BY <1>3, <1>4 DEF MarksInv
<1>10. \A v, u \in timers' : v.id = u.id => v = u
    BY <1>2, <1>5 DEF MarksInv
<1> QED
    BY <1>3, <1>8, <1>9, <1>10 DEF MarksInv

LEMMA ClearTimerKeepsMarks ==
    ASSUME ForeignIds = {}, OrderInv, MarksInv, ClearTimer
    PROVE  MarksInv'
<1>1. PICK id \in 1..next_id :
         /\ timers' = {t \in timers : t.id # id}
         /\ cancelled' = cancelled \cup {id}
         /\ cleared' = cleared \cup {id}
    BY DEF ClearTimer, RemoveTimer
<1>2. UNCHANGED <<next_id, batch>>
    BY DEF ClearTimer, taskVars
<1>3. Ids(timers)' \subseteq Ids(timers) \ {id}
    BY <1>1 DEF Ids
<1>4. MarkedIdsAreNotQueued' /\ Ids(timers)' \cap cleared' = {}
    BY <1>1, <1>3 DEF MarksInv, MarkedIdsAreNotQueued
<1>5. cancelled' \subseteq cleared' /\ cleared' \subseteq 1..next_id'
    BY <1>1, <1>2 DEF MarksInv
<1> QED
    BY <1>1, <1>2, <1>4, <1>5 DEF MarksInv

LEMMA RequeuedIds ==
    ASSUME OrderInv, MarksInv
    PROVE  /\ Ids(Requeued) \subseteq Ids(timers)
           /\ \A t, u \in Requeued : t.id = u.id => t = u
<1>1. \A u \in Requeued : \E t \in timers : t.id = u.id
    BY RequeuedTimers DEF OrderInv
<1>2. ASSUME NEW u \in Requeued, NEW v \in Requeued, u.id = v.id
      PROVE  u = v
  <2>1. PICK t \in timers : t.id = u.id /\ (t \in Due => u = Reschedule(t)) /\ (t \notin Due => u = t)
    <3>1. CASE u \in timers \ Due
        BY <3>1
    <3>2. CASE u \notin timers \ Due
      <4>1. PICK w \in Due : w.interval # None /\ u = Reschedule(w)
          BY <3>2 DEF Requeued
      <4>2. w \in timers /\ w.id = u.id
          BY <4>1, RescheduleTyped DEF OrderInv, Due
      <4> QED
          BY <4>1, <4>2
    <3> QED
        BY <3>1, <3>2
  <2>2. PICK w \in timers : w.id = v.id /\ (w \in Due => v = Reschedule(w)) /\ (w \notin Due => v = w)
    <3>1. CASE v \in timers \ Due
        BY <3>1
    <3>2. CASE v \notin timers \ Due
      <4>1. PICK x \in Due : x.interval # None /\ v = Reschedule(x)
          BY <3>2 DEF Requeued
      <4>2. x \in timers /\ x.id = v.id
          BY <4>1, RescheduleTyped DEF OrderInv, Due
      <4> QED
          BY <4>1, <4>2
    <3> QED
        BY <3>1, <3>2
  <2>3. t = w
      BY <1>2, <2>1, <2>2 DEF MarksInv
  <2> QED
      BY <2>1, <2>2, <2>3
<1> QED
    BY <1>1, <1>2 DEF Ids

LEMMA RunDueTimersKeepsMarks ==
    ASSUME OrderInv, MarksInv, RunDueTimers
    PROVE  MarksInv' /\ cancelled' = {}
<1>1. /\ batch' = Due /\ timers' = Requeued
      /\ cancelled' = cancelled \cap Ids(Requeued)
      /\ UNCHANGED <<next_id, cleared>>
    BY DEF RunDueTimers
<1>2. Due \subseteq timers
    BY DEF Due
<1>3. Ids(timers)' = Ids(Requeued)
    BY <1>1 DEF Ids
<1>4. cancelled' = {}
    BY <1>1, RequeuedIds DEF MarksInv, MarkedIdsAreNotQueued
<1>5. Ids(timers)' \cap cleared' = {}
    BY <1>1, <1>3, RequeuedIds DEF MarksInv
<1>6. \A t \in batch' : t.id \notin cleared'
    BY <1>1, <1>2 DEF MarksInv, Ids
<1>7. \A t, u \in timers' : t.id = u.id => t = u
    BY <1>1, RequeuedIds
<1>8. \A t, u \in batch' : t.id = u.id => t = u
    BY <1>1, <1>2 DEF MarksInv
<1>9. cancelled' \subseteq cleared' /\ cleared' \subseteq 1..next_id' /\ MarkedIdsAreNotQueued'
    BY <1>1, <1>4 DEF MarksInv, MarkedIdsAreNotQueued
<1> QED
    BY <1>4, <1>5, <1>6, <1>7, <1>8, <1>9 DEF MarksInv

LEMMA SkipTimerKeepsMarks ==
    ASSUME OrderInv, MarksInv, SkipTimer
    PROVE  MarksInv'
<1>1. PICK t \in batch :
         /\ t.id \in cancelled
         /\ batch' = batch \ {t}
         /\ cancelled' = cancelled \ {t.id}
    BY DEF SkipTimer
<1>2. UNCHANGED <<next_id, timers, cleared>>
    BY DEF SkipTimer
<1>3. Ids(timers)' = Ids(timers)
    BY <1>2 DEF Ids
<1>4. \A u \in batch' : u.id # t.id
    BY <1>1 DEF MarksInv
<1> QED
    BY <1>1, <1>2, <1>3, <1>4 DEF MarksInv, MarkedIdsAreNotQueued

(* The steps that leave queue and marks alone, and batch at most smaller.  *)
LEMMA SmallerBatchKeepsMarks ==
    ASSUME MarksInv, batch' \subseteq batch, UNCHANGED <<next_id, timers, cancelled, cleared>>
    PROVE  MarksInv'
<1>1. Ids(timers)' = Ids(timers)
    BY DEF Ids
<1> QED
    BY <1>1 DEF MarksInv, MarkedIdsAreNotQueued

LEMMA NextKeepsMarks ==
    ASSUME ForeignIds = {}, OrderInv, MarksInv, [Next]_vars
    PROVE  MarksInv'
<1>1. CASE SetTimer
    BY <1>1, SetTimerKeepsMarks
<1>2. CASE ClearTimer
    BY <1>2, ClearTimerKeepsMarks
<1>3. CASE RunDueTimers
    BY <1>3, RunDueTimersKeepsMarks
<1>4. CASE SkipTimer
    BY <1>4, SkipTimerKeepsMarks
<1>5. CASE FireTimer
  <2>1. batch' \subseteq batch /\ UNCHANGED <<next_id, timers, cancelled, cleared>>
      BY <1>5 DEF FireTimer
  <2> QED
      BY <2>1, SmallerBatchKeepsMarks
<1>6. CASE Tick
  <2>1. UNCHANGED <<next_id, timers, cancelled, cleared, batch>>
      BY <1>6 DEF Tick, taskVars
  <2> QED
      BY <2>1, SmallerBatchKeepsMarks
<1>7. CASE OtherStep
  <2>1. UNCHANGED <<next_id, timers, cancelled, cleared, batch>>
      BY <1>7, OtherStepIsQuiet DEF QuietStep
  <2> QED
      BY <2>1, SmallerBatchKeepsMarks
<1>8. CASE UNCHANGED vars
  <2>1. UNCHANGED <<next_id, timers, cancelled, cleared, batch>>
      BY <1>8 DEF vars, timerVars, taskVars
  <2> QED
      BY <2>1, SmallerBatchKeepsMarks
<1> QED
    BY <1>1, <1>2, <1>3, <1>4, <1>5, <1>6, <1>7, <1>8, NextCases

LEMMA MarksInvariant ==
    ASSUME ForeignIds = {}
    PROVE  Spec => []MarksInv
<1>1. OrderInv /\ MarksInv /\ [Next]_vars => MarksInv'
    BY NextKeepsMarks
<1> QED
    BY InitMarksInv, OrderInvariant, <1>1, PTL DEF Spec

(* A cancellation mark is of a timer that has left the queue (timers.rs    *)
(* take_due), if pages clear only ids they were given.                     *)
THEOREM MarkedIdsLeftTheQueue ==
    ASSUME ForeignIds = {}
    PROVE  Spec => []MarkedIdsAreNotQueued
<1>1. MarksInv => MarkedIdsAreNotQueued
    BY DEF MarksInv
<1> QED
    BY MarksInvariant, <1>1, PTL

(* A timer of the batch is passed over exactly if it was cleared           *)
(* (runtime.rs run_due_timers, take_cancelled).                            *)
THEOREM ClearingAlwaysDecides ==
    ASSUME ForeignIds = {}
    PROVE  Spec => ClearingDecides
<1> DEFINE Decides == \A t \in batch : t \notin batch' => (t.id \in cleared <=> fired' = fired)
<1>1. OrderInv /\ MarksInv /\ [Next]_vars => [Decides]_vars
  <2> SUFFICES ASSUME OrderInv, MarksInv, [Next]_vars
               PROVE  Decides
      OBVIOUS
  <2>1. CASE SetTimer
    <3>1. PICK delay \in Nat, nesting \in Nat, interval \in Option(Nat) : Add(delay, interval, nesting)
        BY <2>1, SetTimerAdds DEF OrderInv
    <3> QED
        BY <3>1 DEF Add, taskVars
  <2>2. CASE ClearTimer \/ Tick
      BY <2>2 DEF ClearTimer, Tick, taskVars
  <2>3. CASE RunDueTimers
    <3>1. batch = {}
        BY <2>3 DEF OrderInv, BatchBelongsToPoll, RunDueTimers
    <3> QED
        BY <3>1
  <2>4. CASE SkipTimer
      BY <2>4 DEF SkipTimer, MarksInv
  <2>5. CASE FireTimer
    <3>1. PICK t \in batch :
             /\ FirstOf(t) /\ t.id \notin cancelled
             /\ batch' = batch \ {t}
        BY <2>5 DEF FireTimer
    <3>2. t.id \notin cleared
        BY <3>1 DEF MarksInv
    <3>3. fired' # fired
        BY <2>5, FireTimerKeepsOrder DEF OrderInv, TimersTyped, Precedes
    <3> QED
        BY <3>1, <3>2, <3>3
  <2>6. CASE OtherStep
      BY <2>6, OtherStepIsQuiet DEF QuietStep
  <2>7. CASE UNCHANGED vars
      BY <2>7 DEF vars, taskVars
  <2> QED
      BY <2>1, <2>2, <2>3, <2>4, <2>5, <2>6, <2>7, NextCases
<1> QED
    BY OrderInvariant, MarksInvariant, <1>1, PTL DEF Spec, ClearingDecides

-----------------------------------------------------------------------------
(* The timer contract.                                                     *)

Pending == timers \cup {t \in batch : t.id \notin cancelled}

LEMMA SetTimerIsSet ==
    ASSUME OrderInv, SetTimer
    PROVE  Contract!Set
<1>1. PICK delay \in Nat, nesting \in Nat, interval \in Option(Nat) : Add(delay, interval, nesting)
    BY SetTimerAdds DEF OrderInv
<1>2. PICK t \in Timer :
         /\ timers' = timers \cup {t}
         /\ next_id' = next_id + 1 /\ t.id = next_id + 1
         /\ t.deadline = now + delay
    BY <1>1, AddedTimer DEF OrderInv
<1>3. UNCHANGED <<now, cancelled, batch>>
    BY <1>1 DEF Add, taskVars
<1>4. Pending' = Pending \cup {t} /\ t \in Pending'
    BY <1>2, <1>3 DEF Pending
<1>5. t.deadline >= now
    BY <1>2 DEF OrderInv, TimersTyped
<1> QED
    BY <1>2, <1>3, <1>4, <1>5 DEF Contract!Set, Pending

LEMMA ClearTimerIsClear ==
    ASSUME ForeignIds = {}, ClearTimer
    PROVE  Contract!Clear
<1>1. PICK id \in 1..next_id :
         /\ timers' = {t \in timers : t.id # id}
         /\ cancelled' = cancelled \cup {id}
    BY DEF ClearTimer, RemoveTimer
<1>2. UNCHANGED <<now, next_id, batch>>
    BY DEF ClearTimer, taskVars
<1>3. Pending' = {t \in Pending : t.id # id}
    BY <1>1, <1>2 DEF Pending
<1> QED
    BY <1>2, <1>3 DEF Contract!Clear, Pending

LEMMA RunDueTimersIsRepeat ==
    ASSUME OrderInv, MarksInv, RunDueTimers
    PROVE  Contract!Repeat
<1>1. batch = {} /\ batch' = Due /\ timers' = Requeued /\ cancelled' = {}
    BY RunDueTimersKeepsMarks DEF OrderInv, BatchBelongsToPoll, RunDueTimers
<1>2. UNCHANGED <<now, next_id>>
    BY DEF RunDueTimers
<1>3. Pending = timers /\ Pending' = Requeued \cup Due
    BY <1>1 DEF Pending
<1>4. timers \subseteq Requeued \cup Due
    BY DEF Requeued
<1>5. ASSUME NEW u \in (Requeued \cup Due) \ timers
      PROVE  \E t \in timers : Contract!Again(t, u)
  <2>1. u \in Requeued
      BY DEF Due
  <2>2. PICK t \in timers : u = Reschedule(t) /\ t \in Due /\ t.interval # None
      BY <2>1, RequeuedTimers, <1>5 DEF OrderInv
  <2>3. u.id = t.id /\ u.interval = t.interval /\ u.deadline > now
      BY <2>2, RescheduleTyped DEF OrderInv
  <2> QED
      BY <2>2, <2>3 DEF Due, Contract!Again
<1> QED
    BY <1>2, <1>3, <1>4, <1>5 DEF Contract!Repeat, Pending

LEMMA FireTimerIsCall ==
    ASSUME OrderInv, FireTimer
    PROVE  Contract!Call
<1>1. PICK t \in batch :
         FirstOf(t) /\ t.id \notin cancelled /\ batch' = batch \ {t}
    BY DEF FireTimer
<1>2. UNCHANGED <<now, next_id, timers, cancelled>>
    BY DEF FireTimer
<1>3. /\ t.deadline <= now /\ t \notin timers
      /\ \A u \in (timers \cup batch) \ {t} : Precedes(t, u)
    BY <1>1, FiredIsFirst
<1>4. t \in Pending /\ Pending \subseteq timers \cup batch /\ Pending' = Pending \ {t}
    BY <1>1, <1>2, <1>3 DEF Pending
<1>5. \A u \in Pending \ {t} : Contract!Before(t, u)
    BY <1>3, <1>4 DEF Contract!Before, Precedes
<1> QED
    BY <1>2, <1>3, <1>4, <1>5 DEF Contract!Call, Pending

(* To the page, batch and marks do not exist: every step of the event loop *)
(* is a step of the timer contract or none (timers.rs, run_due_timers).    *)
THEOREM EventLoopImplementsContract ==
    ASSUME ForeignIds = {}
    PROVE  Spec => ImplementsTimerContract
<1>1. Init => Contract!Init
    BY DEF Init, Contract!Init
<1>2. OrderInv /\ MarksInv /\ [Next]_vars => [Contract!Next]_(Contract!vars)
  <2> SUFFICES ASSUME OrderInv, MarksInv, [Next]_vars
               PROVE  Contract!Next \/ UNCHANGED Contract!vars
      OBVIOUS
  <2>1. CASE SetTimer
      BY <2>1, SetTimerIsSet DEF Contract!Next
  <2>2. CASE ClearTimer
      BY <2>2, ClearTimerIsClear DEF Contract!Next
  <2>3. CASE RunDueTimers
      BY <2>3, RunDueTimersIsRepeat DEF Contract!Next
  <2>4. CASE SkipTimer
    <3>1. PICK t \in batch :
             /\ t.id \in cancelled
             /\ batch' = batch \ {t}
             /\ cancelled' = cancelled \ {t.id}
        BY <2>4 DEF SkipTimer
    <3>2. \A u \in batch' : u.id # t.id
        BY <3>1 DEF MarksInv
    <3>3. UNCHANGED <<now, next_id, timers>>
        BY <2>4 DEF SkipTimer
    <3>4. Pending' = Pending
        BY <3>1, <3>2, <3>3 DEF Pending
    <3> QED
        BY <3>3, <3>4 DEF Contract!vars, Pending
  <2>5. CASE FireTimer
      BY <2>5, FireTimerIsCall DEF Contract!Next
  <2>6. CASE Tick
    <3>1. now' > now /\ UNCHANGED <<next_id, timers, cancelled, batch>>
        BY <2>6 DEF Tick, taskVars, OrderInv, TimersTyped
    <3> QED
        BY <3>1 DEF Contract!Next, Contract!Advance
  <2>7. CASE OtherStep
    <3>1. UNCHANGED <<now, next_id, timers, cancelled, batch>>
        BY <2>7, OtherStepIsQuiet DEF QuietStep
    <3> QED
        BY <3>1 DEF Contract!vars
  <2>8. CASE UNCHANGED vars
      BY <2>8 DEF vars, timerVars, taskVars, Contract!vars
  <2> QED
      BY <2>1, <2>2, <2>3, <2>4, <2>5, <2>6, <2>7, <2>8, NextCases
<1> QED
    BY OrderInvariant, MarksInvariant, <1>1, <1>2, PTL DEF Spec, ImplementsTimerContract, Contract!Spec

-----------------------------------------------------------------------------
(* Nested timers.                                                          *)

(* The deadline of a timer that a callback of the clamp level sets.        *)
LEMMA NestedTimerIsClamped ==
    ASSUME OrderInv, SetTimer, timer_nesting # None, timer_nesting >= NESTING_CLAMP_LEVEL,
           NEW t \in timers' \ timers
    PROVE  t.deadline >= fired.deadline + Smaller(NESTING_CLAMP_DELAY, FrameDelay)
<1>1. Nesting \in Nat /\ Nesting > NESTING_CLAMP_LEVEL
    BY EventLoopAssumption DEF OrderInv, Option, Nesting
<1>2. ASSUME NEW delay \in Delays
      PROVE  /\ ClampDelay(Nesting, delay) \in Nat
             /\ ClampDelay(Nesting, delay) >= NESTING_CLAMP_DELAY
    BY <1>1, EventLoopAssumption DEF ClampDelay, Larger
<1>3. PICK delay \in Nat, interval \in Option(Nat), nesting \in Nat :
         /\ Add(delay, interval, nesting)
         /\ delay >= Smaller(NESTING_CLAMP_DELAY, FrameDelay)
  <2> USE DEF Option
  <2>0. /\ Smaller(NESTING_CLAMP_DELAY, FrameDelay) \in Nat
        /\ NESTING_CLAMP_DELAY >= Smaller(NESTING_CLAMP_DELAY, FrameDelay)
        /\ FrameDelay >= Smaller(NESTING_CLAMP_DELAY, FrameDelay)
        /\ NESTING_CLAMP_DELAY \in Nat /\ FrameDelay \in Nat
      BY EventLoopAssumption DEF Smaller
  <2>1. ASSUME NEW d \in Delays
        PROVE  ClampDelay(Nesting, d) >= Smaller(NESTING_CLAMP_DELAY, FrameDelay)
      BY <1>2, <2>0
  <2>2. CASE SetTimeout
      BY <2>2, <1>1, <1>2, <2>1 DEF SetTimeout
  <2>3. CASE SetInterval
      BY <2>3, <1>1, <1>2, <2>1 DEF SetInterval
  <2>4. CASE RequestAnimationFrame
      BY <2>4, <2>0 DEF RequestAnimationFrame
  <2> QED
      BY <2>2, <2>3, <2>4 DEF SetTimer
<1>4. t.deadline = now + delay
    BY <1>3, AddedTimer DEF OrderInv
<1>5. fired.deadline <= now /\ fired.deadline \in Nat /\ now \in Nat
    BY DEF OrderInv, InOrder, TimersTyped
<1> QED
    BY <1>3, <1>4, <1>5, EventLoopAssumption DEF Smaller

(* Chains of nested timers cannot keep up with the clock: what a callback  *)
(* at the clamp level sets is due the clamp after it (timers.rs            *)
(* clamp_delay, runtime.rs run_due_timers).                                *)
THEOREM DeepNestingAlwaysYields == Spec => DeepNestingYields
<1> DEFINE Yields ==
        \A t \in timers' \ timers :
            (pc = "js" /\ timer_nesting # None /\ timer_nesting >= NESTING_CLAMP_LEVEL)
               => t.deadline >= fired.deadline + Smaller(NESTING_CLAMP_DELAY, FrameDelay)
<1>1. OrderInv /\ [Next]_vars => [Yields]_vars
  <2> SUFFICES ASSUME OrderInv, [Next]_vars, pc = "js"
               PROVE  timers' \subseteq timers \/ SetTimer
      BY NestedTimerIsClamped
  <2>1. CASE ClearTimer
      BY <2>1 DEF ClearTimer, RemoveTimer
  <2>2. CASE RunDueTimers \/ SkipTimer \/ FireTimer \/ Tick
      BY <2>2 DEF RunDueTimers, SkipTimer, FireTimer, Tick
  <2>3. CASE OtherStep
      BY <2>3, OtherStepIsQuiet DEF QuietStep
  <2>4. CASE UNCHANGED vars
      BY <2>4 DEF vars, timerVars
  <2> QED
      BY <2>1, <2>2, <2>3, <2>4, NextCases
<1> QED
    BY OrderInvariant, <1>1, PTL DEF Spec, DeepNestingYields

-----------------------------------------------------------------------------
(* Microtasks.                                                             *)

(* Outside a task and its checkpoint there are none; a new task starts     *)
(* with none, and what it leaves is run before it ends.                    *)
JobsInv ==
    /\ pc \in {"idle", "js", "jobs", "job", "poll", "fire"}
    /\ NoJobIsLeftBehind

(* Steps of other parties leave pc and the microtasks alone.               *)
LEMMA NextKeepsJobs ==
    ASSUME JobsInv, [Next]_vars
    PROVE  JobsInv'
<1> USE DEF JobsInv, NoJobIsLeftBehind
<1>1. CASE SetTimer
    BY <1>1 DEF SetTimer, SetTimeout, SetInterval, RequestAnimationFrame, Add, taskVars
<1>2. CASE ClearTimer \/ Tick
    BY <1>2 DEF ClearTimer, Tick, taskVars
<1>3. CASE RunDueTimers \/ SkipTimer \/ FireTimer
    BY <1>3 DEF RunDueTimers, SkipTimer, FireTimer, StartTask
<1>4. CASE QueueMicrotask
    BY <1>4 DEF QueueMicrotask, Running
<1>5. CASE TaskReturns \/ RunJob \/ JobReturns \/ NextScript
    BY <1>5 DEF TaskReturns, RunJob, JobReturns, NextScript
<1>6. CASE ScriptsEnd \/ CallbackEnds \/ PollEnds
    BY <1>6 DEF ScriptsEnd, CallbackEnds, PollEnds, Drained
<1>7. CASE TimerThread
    BY <1>7 DEF TimerThread, ThreadReceives, ThreadWakes, taskVars
<1>8. CASE CompleteResume \/ Suspend
    BY <1>8 DEF CompleteResume, Suspend, taskVars
<1>9. CASE WindowEvent \/ Eval \/ Poll
    BY <1>9 DEF WindowEvent, Eval, Poll, StartTask, taskVars
<1>10. CASE UNCHANGED vars
    BY <1>10 DEF vars, taskVars
<1> QED
    BY <1>1, <1>2, <1>3, <1>4, <1>5, <1>6, <1>7, <1>8, <1>9, <1>10, NextCases
    DEF OtherStep, Shell

(* The main thread never goes on to a timer, to the poll's timers or back  *)
(* to the shell with a microtask queued (runtime.rs run_jobs).             *)
THEOREM JobsAreNeverLeftBehind == Spec => []NoJobIsLeftBehind
<1>1. Init => JobsInv
    BY DEF Init, JobsInv, NoJobIsLeftBehind
<1>2. JobsInv /\ [Next]_vars => JobsInv'
    BY NextKeepsJobs
<1>3. JobsInv => NoJobIsLeftBehind
    BY DEF JobsInv
<1> QED
    BY <1>1, <1>2, <1>3, PTL DEF Spec

-----------------------------------------------------------------------------
(* The whole type invariant: the part of TimersTyped, and the rest.        *)

MarksTyped == cancelled \subseteq Nat /\ cleared \subseteq Nat
CountsTyped == jobs \in Nat /\ queued \in Nat /\ suspends \in Nat
ControlTyped ==
    /\ pc \in {"idle", "js", "jobs", "job", "poll", "fire"}
    /\ task \in {"none", "input", "first poll", "timer"}
ThreadTyped == armed \in Seq(Nat) /\ deadline \in Option(Nat)

RestTyped == MarksTyped /\ CountsTyped /\ ControlTyped /\ ThreadTyped

FlagsTyped ==
    /\ scripts_executed \in BOOLEAN
    /\ waker \in BOOLEAN /\ poll_posted \in BOOLEAN
    /\ attached \in BOOLEAN /\ event_due \in BOOLEAN

(* The steps that change no more than what they are named for.             *)
LEMMA MarksStep ==
    ASSUME OrderInv, MarksTyped, [Next]_vars
    PROVE  MarksTyped'
<1> USE DEF MarksTyped
<1>1. CASE SetTimer
    BY <1>1 DEF SetTimer, SetTimeout, SetInterval, RequestAnimationFrame, Add
<1>2. CASE ClearTimer
  <2>1. PICK id \in 1..next_id \cup ForeignIds :
           /\ cancelled' = cancelled \cup {id}
           /\ cleared' = IF id \in 1..next_id THEN cleared \cup {id} ELSE cleared
      BY <1>2 DEF ClearTimer, RemoveTimer
  <2>2. id \in Nat
      BY EventLoopAssumption DEF OrderInv, TimersTyped
  <2> QED
      BY <2>1, <2>2
<1>3. CASE RunDueTimers \/ SkipTimer \/ FireTimer \/ Tick
    BY <1>3 DEF RunDueTimers, SkipTimer, FireTimer, Tick
<1>4. CASE OtherStep
    BY <1>4, OtherStepIsQuiet
<1>5. CASE UNCHANGED vars
    BY <1>5 DEF vars, timerVars
<1> QED
    BY <1>1, <1>2, <1>3, <1>4, <1>5, NextCases

LEMMA CountsStep ==
    ASSUME CountsTyped, [Next]_vars
    PROVE  CountsTyped'
<1> USE DEF CountsTyped
<1>1. CASE SetTimer
    BY <1>1 DEF SetTimer, SetTimeout, SetInterval, RequestAnimationFrame, Add, taskVars, shellVars
<1>2. CASE ClearTimer \/ Tick
    BY <1>2 DEF ClearTimer, Tick, taskVars, shellVars
<1>3. CASE RunDueTimers \/ SkipTimer \/ FireTimer
    BY <1>3 DEF RunDueTimers, SkipTimer, FireTimer, StartTask, shellVars
<1>4. CASE QueueMicrotask \/ RunJob
  <2>1. /\ jobs' = jobs + 1 \/ (jobs > 0 /\ jobs' = jobs - 1)
        /\ queued' \in {queued, queued + 1} /\ suspends' = suspends
      BY <1>4 DEF QueueMicrotask, RunJob, shellVars
  <2> QED
      BY <2>1
<1>5. CASE TaskReturns \/ JobReturns \/ NextScript
  <2>1. jobs' \in {jobs, 0} /\ UNCHANGED <<queued, suspends>>
      BY <1>5 DEF TaskReturns, JobReturns, JobsAfter, NextScript, shellVars
  <2> QED
      BY <2>1
<1>6. CASE ScriptsEnd \/ PollEnds \/ CallbackEnds
  <2>1. UNCHANGED <<jobs, suspends>> /\ queued' \in {queued, 0}
      BY <1>6 DEF ScriptsEnd, PollEnds, CallbackEnds, EndTask, shellVars
  <2> QED
      BY <2>1
<1>7. CASE TimerThread
    BY <1>7 DEF TimerThread, ThreadReceives, ThreadWakes, taskVars, shellVars
<1>8. CASE CompleteResume \/ Suspend
  <2>1. UNCHANGED <<jobs, queued>> /\ suspends' \in {suspends, suspends + 1}
      BY <1>8 DEF CompleteResume, Suspend, taskVars
  <2> QED
      BY <2>1
<1>9. CASE WindowEvent \/ Eval \/ Poll
    BY <1>9 DEF WindowEvent, Eval, Poll, StartTask, taskVars, shellVars
<1>10. CASE UNCHANGED vars
    BY <1>10 DEF vars, taskVars, shellVars
<1> QED
    BY <1>1, <1>2, <1>3, <1>4, <1>5, <1>6, <1>7, <1>8, <1>9, <1>10, NextCases
    DEF OtherStep, Shell

LEMMA ControlStep ==
    ASSUME ControlTyped, [Next]_vars
    PROVE  ControlTyped'
<1> USE DEF ControlTyped
<1>1. CASE SetTimer
    BY <1>1 DEF SetTimer, SetTimeout, SetInterval, RequestAnimationFrame, Add, taskVars
<1>2. CASE ClearTimer \/ Tick
    BY <1>2 DEF ClearTimer, Tick, taskVars
<1>3. CASE RunDueTimers \/ SkipTimer \/ FireTimer
    BY <1>3 DEF RunDueTimers, SkipTimer, FireTimer, StartTask
<1>4. CASE QueueMicrotask \/ RunJob \/ TaskReturns \/ JobReturns \/ NextScript
    BY <1>4 DEF QueueMicrotask, RunJob, TaskReturns, JobReturns, NextScript
<1>5. CASE ScriptsEnd \/ PollEnds \/ CallbackEnds
    BY <1>5 DEF ScriptsEnd, PollEnds, CallbackEnds, EndTask
<1>6. CASE TimerThread
    BY <1>6 DEF TimerThread, ThreadReceives, ThreadWakes, taskVars
<1>7. CASE CompleteResume \/ Suspend
    BY <1>7 DEF CompleteResume, Suspend, taskVars
<1>8. CASE WindowEvent \/ Eval \/ Poll
    BY <1>8 DEF WindowEvent, Eval, Poll, StartTask, taskVars
<1>9. CASE UNCHANGED vars
    BY <1>9 DEF vars, taskVars
<1> QED
    BY <1>1, <1>2, <1>3, <1>4, <1>5, <1>6, <1>7, <1>8, <1>9, NextCases
    DEF OtherStep, Shell

(* Only arming and the thread itself touch its deadlines.                  *)
LEMMA ThreadStep ==
    ASSUME OrderInv, ThreadTyped, [Next]_vars
    PROVE  ThreadTyped'
<1> USE DEF ThreadTyped
<1>1. CASE SetTimer
    BY <1>1 DEF SetTimer, SetTimeout, SetInterval, RequestAnimationFrame, Add, threadVars
<1>2. CASE ClearTimer \/ Tick \/ RunDueTimers \/ SkipTimer \/ FireTimer
    BY <1>2 DEF ClearTimer, Tick, RunDueTimers, SkipTimer, FireTimer, threadVars
<1>3. CASE QueueMicrotask \/ RunJob \/ TaskReturns \/ JobReturns \/ NextScript \/ CallbackEnds
    BY <1>3 DEF QueueMicrotask, RunJob, TaskReturns, JobReturns, NextScript, CallbackEnds,
                threadVars
<1>4. CASE ScriptsEnd \/ PollEnds
  <2>1. ArmTimerThread /\ deadline' = deadline
      BY <1>4 DEF ScriptsEnd, PollEnds
  <2>2. \A t \in timers : t.deadline \in Nat
      BY DEF OrderInv, TimersTyped, Timer
  <2> QED
      BY <2>1, <2>2 DEF ArmTimerThread
<1>5. CASE ThreadReceives
  <2>1. armed # <<>> /\ armed' = Tail(armed) /\ TakeSooner(Head(armed))
      BY <1>5 DEF ThreadReceives
  <2>2. Head(armed) \in Nat /\ Tail(armed) \in Seq(Nat)
      BY <2>1
  <2> QED
      BY <2>1, <2>2 DEF TakeSooner, Option, Smaller
<1>6. CASE ThreadWakes
    BY <1>6 DEF ThreadWakes, Option
<1>7. CASE Shell
    BY <1>7 DEF Shell, CompleteResume, Suspend, WindowEvent, Eval, Poll, threadVars
<1>8. CASE UNCHANGED vars
    BY <1>8 DEF vars, threadVars
<1> QED
    BY <1>1, <1>2, <1>3, <1>4, <1>5, <1>6, <1>7, <1>8, NextCases DEF OtherStep, TimerThread

LEMMA FlagsStep ==
    ASSUME FlagsTyped, [Next]_vars
    PROVE  FlagsTyped'
<1> USE DEF FlagsTyped, timerVars, taskVars, threadVars, shellVars
<1>1. CASE SetTimer
    BY <1>1, Zenon DEF SetTimer, SetTimeout, SetInterval, RequestAnimationFrame, Add
<1>2. CASE ClearTimer \/ QueueMicrotask
    BY <1>2, Zenon DEF ClearTimer, QueueMicrotask
<1>3. CASE RunDueTimers \/ SkipTimer \/ FireTimer \/ Tick
    BY <1>3, Zenon DEF RunDueTimers, SkipTimer, FireTimer, Tick
<1>4. CASE TaskReturns \/ RunJob \/ JobReturns \/ NextScript
    BY <1>4, Zenon DEF TaskReturns, RunJob, JobReturns, NextScript
<1>5. CASE ScriptsEnd \/ PollEnds \/ CallbackEnds
    BY <1>5, Zenon DEF ScriptsEnd, PollEnds, CallbackEnds
<1>6. CASE ThreadReceives \/ ThreadWakes
    BY <1>6 DEF ThreadReceives, ThreadWakes
<1>7. CASE CompleteResume \/ Suspend
    BY <1>7 DEF CompleteResume, Suspend
<1>8. CASE WindowEvent \/ Eval
    BY <1>8 DEF WindowEvent, Eval
<1>9. CASE Poll
    BY <1>9 DEF Poll
<1>10. CASE UNCHANGED vars
    BY <1>10, Zenon DEF vars
<1> QED
    BY <1>1, <1>2, <1>3, <1>4, <1>5, <1>6, <1>7, <1>8, <1>9, <1>10, NextCases
    DEF OtherStep, TimerThread, Shell

(* The state of the event loop is always well typed.                       *)
THEOREM EventLoopTypeCorrect == Spec => []TypeOK
<1>1. Init => RestTyped /\ FlagsTyped
  <2>1. ASSUME Init PROVE RestTyped
      BY <2>1 DEF Init, RestTyped, MarksTyped, CountsTyped, ControlTyped, ThreadTyped, Option
  <2>2. ASSUME Init PROVE FlagsTyped
      BY <2>2, Zenon DEF Init, FlagsTyped
  <2> QED
      BY <2>1, <2>2
<1>2. OrderInv /\ RestTyped /\ FlagsTyped /\ [Next]_vars => RestTyped' /\ FlagsTyped'
    BY MarksStep, CountsStep, ControlStep, ThreadStep, FlagsStep DEF RestTyped
<1>3. OrderInv /\ RestTyped /\ FlagsTyped => TypeOK
    BY DEF OrderInv, TimersTyped, RestTyped, MarksTyped, CountsTyped, ControlTyped, ThreadTyped,
           FlagsTyped, TypeOK
<1> QED
    BY <1>1, <1>2, <1>3, OrderInvariant, PTL DEF Spec

=============================================================================
