---------------------------- MODULE ScriptEventLoop ----------------------------
(***************************************************************************)
(* The JavaScript event loop of a ScriptDocument (strake-vibey-script      *)
(* timers.rs, runtime.rs, document.rs) in a window of strake-shell.  Three *)
(* parties act: the page's JavaScript, which sets and clears timers and    *)
(* queues microtasks; the main thread, which polls the document when the   *)
(* shell's queue holds a Poll event; the timer thread, which posts that    *)
(* event when the next timer is due, through the Waker of an earlier poll. *)
(*                                                                         *)
(* TimerQueue::take_due sorts the due batch by (deadline, id) and the      *)
(* batch is run from its front: here a set, of which the soonest is taken. *)
(* What a callback does is any sequence of calls.                          *)
(***************************************************************************)
EXTENDS Integers, Sequences, FiniteSets

CONSTANTS
    None,                 \* Option::None
    Delays,               \* delays a page asks for, in milliseconds
    ForeignIds,           \* ids a page clears without having been given them
    NESTING_CLAMP_LEVEL,
    NESTING_CLAMP_DELAY,
    FrameDelay,           \* 16 ms, requestAnimationFrame
    MaxTimers,            \* bound: timers ever set
    MaxTime,              \* bound: the clock
    MaxJobs,              \* bound: microtasks one task queues
    MaxArmed,             \* bound: messages the timer thread may lag behind
    MaxSuspends           \* bound: times the window loses its surface

ASSUME EventLoopAssumption ==
    /\ None \notin Nat
    /\ Delays \subseteq Nat
    /\ ForeignIds \subseteq Nat
    /\ NESTING_CLAMP_LEVEL \in Nat
    /\ NESTING_CLAMP_DELAY \in Nat
    /\ FrameDelay \in Nat
    /\ {MaxTimers, MaxTime, MaxJobs, MaxArmed, MaxSuspends} \subseteq Nat

VARIABLES
    now,             \* ScriptClock
    next_id,         \* TimerQueue
    timers,          \* TimerQueue: Timers set and not extracted
    cancelled,       \* TimerQueue: marks of clearTimeout
    batch,           \* due timers run_due_timers has still to call
    timer_nesting,   \* RuntimeState: the nesting of the running callback
    jobs,            \* microtasks queued
    queued,          \* microtasks queued since the task began (bound)
    pc,              \* what the main thread runs
    task,            \* what it returns to after the microtasks
    scripts_executed,
    fired,           \* history: the timer called last
    cleared          \* history: ids cleared after they were given out

VARIABLES
    armed,           \* deadlines sent to the timer thread
    deadline,        \* the timer thread's
    waker,           \* a poll has stored its Waker
    poll_posted,     \* the shell's queue holds a Poll for the window
    attached,        \* View::waker: the window has a surface
    event_due,       \* a surface new to the window: its first event is to come
    suspends         \* bound

timerVars == <<now, next_id, timers, cancelled, timer_nesting>>
taskVars == <<batch, jobs, queued, pc, task, scripts_executed, fired>>
threadVars == <<armed, deadline>>
shellVars == <<waker, poll_posted, attached, event_due, suspends>>
vars == <<timerVars, taskVars, cleared, threadVars, shellVars>>

Option(S) == S \cup {None}

(* Instant, Duration and nesting level are naturals.                       *)
Timer == [id : Nat, deadline : Nat, interval : Option(Nat), nesting : Nat]

TypeOK ==
    /\ now \in Nat
    /\ next_id \in Nat
    /\ timers \subseteq Timer
    /\ batch \subseteq Timer
    /\ cancelled \subseteq Nat
    /\ timer_nesting \in Option(Nat)
    /\ jobs \in Nat /\ queued \in Nat
    /\ pc \in {"idle", "js", "jobs", "job", "poll", "fire"}
    /\ task \in {"none", "input", "first poll", "timer"}
    /\ scripts_executed \in BOOLEAN
    /\ fired \in [id : Nat, deadline : Nat]
    /\ cleared \subseteq Nat
    /\ armed \in Seq(Nat)
    /\ deadline \in Option(Nat)
    /\ waker \in BOOLEAN /\ poll_posted \in BOOLEAN
    /\ attached \in BOOLEAN /\ event_due \in BOOLEAN
    /\ suspends \in Nat

Init ==
    /\ now = 0
    /\ next_id = 0
    /\ timers = {}
    /\ batch = {}
    /\ cancelled = {}
    /\ timer_nesting = None
    /\ jobs = 0 /\ queued = 0
    /\ pc = "idle"
    /\ task = "none"
    /\ scripts_executed = FALSE
    /\ fired = [id |-> 0, deadline |-> 0]
    /\ cleared = {}
    /\ armed = <<>>
    /\ deadline = None
    /\ waker = FALSE
    /\ poll_posted = FALSE
    /\ attached = FALSE
    /\ event_due = FALSE
    /\ suspends = 0

Ids(S) == {t.id : t \in S}

Larger(a, b) == IF a < b THEN b ELSE a
Smaller(a, b) == IF a < b THEN a ELSE b

-----------------------------------------------------------------------------
(* Calls of JavaScript: from a script, a listener or a timer callback      *)
(* (pc = "js") or from a microtask (pc = "job").                           *)

Running == pc \in {"js", "job"}

(* Mutant: the delay is never clamped.                                     *)
UnclampedDelay(nesting, delay) == delay
ClampDelay(nesting, delay) ==
    IF nesting > NESTING_CLAMP_LEVEL THEN Larger(delay, NESTING_CLAMP_DELAY) ELSE delay

(* TimerQueue::add                                                         *)
Add(delay, interval, nesting) ==
    /\ next_id < MaxTimers
    /\ next_id' = next_id + 1
    /\ timers' = timers \cup {[id |-> next_id', deadline |-> now + delay,
                              interval |-> interval, nesting |-> nesting]}
    /\ UNCHANGED <<now, cancelled, timer_nesting, taskVars, cleared, threadVars, shellVars>>

(* One deeper than the running callback; 0 outside one, also in the        *)
(* microtasks that follow it.                                              *)
Nesting == IF timer_nesting = None THEN 0 ELSE timer_nesting + 1

SetTimeout ==
    /\ Running
    /\ \E delay \in Delays : Add(ClampDelay(Nesting, delay), None, Nesting)

SetInterval ==
    /\ Running
    /\ \E delay \in Delays :
          LET clamped == ClampDelay(Nesting, delay)
          IN  Add(clamped, clamped, Nesting)

RequestAnimationFrame == Running /\ Add(FrameDelay, None, 0)

(* TimerQueue::remove.  Mutant: no mark for a timer already extracted.     *)
RemoveQueued(id) == timers' = {t \in timers : t.id # id} /\ UNCHANGED cancelled
RemoveTimer(id) ==
    /\ timers' = {t \in timers : t.id # id}
    /\ cancelled' = cancelled \cup {id}

ClearTimer ==
    /\ Running
    /\ \E id \in 1..next_id \cup ForeignIds :
          /\ RemoveTimer(id)
          /\ cleared' = IF id \in 1..next_id THEN cleared \cup {id} ELSE cleared
    /\ UNCHANGED <<now, next_id, timer_nesting, taskVars, threadVars, shellVars>>

QueueMicrotask ==
    /\ Running /\ queued < MaxJobs
    /\ jobs' = jobs + 1
    /\ queued' = queued + 1
    /\ UNCHANGED <<timerVars, batch, pc, task, scripts_executed, fired, cleared,
                   threadVars, shellVars>>

-----------------------------------------------------------------------------
(* Tasks and microtask checkpoints.                                        *)

(* arm_timer_thread: the soonest deadline, if there is a timer.  Mutant:   *)
(* called at the end of a poll only.                                       *)
Soonest(d) == (\E t \in timers : t.deadline = d) /\ \A t \in timers : d <= t.deadline
ArmAfterPolls ==
    \/ (timers = {} \/ pc # "fire") /\ UNCHANGED armed
    \/ pc = "fire" /\ \E d \in {t.deadline : t \in timers} :
          Soonest(d) /\ armed' = Append(armed, d)
ArmTimerThread ==
    \/ timers = {} /\ UNCHANGED armed
    \/ \E d \in {t.deadline : t \in timers} : Soonest(d) /\ armed' = Append(armed, d)

StartTask(kind) ==
    /\ pc' = "js"
    /\ task' = kind
    /\ UNCHANGED queued

EndTask == task' = "none" /\ queued' = 0

(* The script or callback returns or throws (an error is recorded and does *)
(* not stop anything); run_jobs follows.                                   *)
TaskReturns ==
    /\ pc = "js"
    /\ pc' = "jobs"
    /\ timer_nesting' = None
    /\ UNCHANGED <<now, next_id, timers, cancelled, batch, jobs, queued, task,
                   scripts_executed, fired, cleared, threadVars, shellVars>>

RunJob ==
    /\ pc = "jobs" /\ jobs > 0
    /\ pc' = "job"
    /\ jobs' = jobs - 1
    /\ UNCHANGED <<timerVars, batch, queued, task, scripts_executed, fired, cleared,
                   threadVars, shellVars>>

(* Boa drops what is queued behind a microtask that throws.  Mutant: the   *)
(* microtask leaves the queue again as it returns.                         *)
JobsTakenTwice == {jobs - 1, 0}
JobsAfter == {jobs, 0}

JobReturns ==
    /\ pc = "job"
    /\ pc' = "jobs"
    /\ jobs' \in JobsAfter
    /\ UNCHANGED <<timerVars, batch, queued, task, scripts_executed, fired, cleared,
                   threadVars, shellVars>>

(* The next script of execute_scripts, or the next listener.               *)
NextScript ==
    /\ pc = "jobs" /\ jobs = 0 /\ task # "timer"
    /\ pc' = "js"
    /\ UNCHANGED <<timerVars, batch, jobs, queued, task, scripts_executed, fired, cleared,
                   threadVars, shellVars>>

(* The end of handle_ui_event, eval or execute_scripts, which the first    *)
(* poll calls before it runs the timers.                                   *)
ScriptsEnd ==
    /\ pc = "jobs" /\ jobs = 0 /\ task # "timer"
    /\ pc' = IF task = "first poll" THEN "poll" ELSE "idle"
    /\ EndTask
    /\ ArmTimerThread
    /\ UNCHANGED <<timerVars, batch, jobs, scripts_executed, fired, cleared, deadline, shellVars>>

(* The checkpoint after each timer.  Mutant: one after the whole batch.    *)
BatchDrained == jobs = 0 \/ batch # {}
Drained == jobs = 0

CallbackEnds ==
    /\ pc = "jobs" /\ Drained /\ task = "timer"
    /\ pc' = "fire"
    /\ EndTask
    /\ UNCHANGED <<timerVars, batch, jobs, scripts_executed, fired, cleared,
                   threadVars, shellVars>>

-----------------------------------------------------------------------------
(* Timers.                                                                 *)

(* take_due: an interval goes back to the queue, a millisecond away at     *)
(* least.  Mutant: it may be due at once.                                  *)
RescheduleAtOnce(t) == [t EXCEPT !.deadline = now + t.interval]
Reschedule(t) == [t EXCEPT !.deadline = now + Larger(t.interval, 1)]

Due == {t \in timers : t.deadline <= now}

(* The queue after the extraction.                                         *)
Requeued ==
    (timers \ Due) \cup {Reschedule(t) : t \in {u \in Due : u.interval # None}}

RunDueTimers ==
    /\ pc = "poll"
    /\ pc' = "fire"
    /\ batch' = Due
    /\ timers' = Requeued
    /\ cancelled' = cancelled \cap Ids(Requeued)
    /\ UNCHANGED <<now, next_id, timer_nesting, jobs, queued, task, scripts_executed,
                   fired, cleared, threadVars, shellVars>>

(* The order of the batch.  Mutant: the scramble of swap_remove stays.     *)
DeadlineOnly(t, u) == t.deadline < u.deadline \/ (t.deadline = u.deadline /\ t.id # u.id)
Precedes(t, u) == t.deadline < u.deadline \/ (t.deadline = u.deadline /\ t.id < u.id)

FirstOf(t) == t \in batch /\ \A u \in batch \ {t} : Precedes(t, u)

(* take_cancelled: the mark is used up.                                    *)
SkipTimer ==
    /\ pc = "fire"
    /\ \E t \in batch :
          /\ FirstOf(t)
          /\ t.id \in cancelled
          /\ batch' = batch \ {t}
          /\ cancelled' = cancelled \ {t.id}
    /\ UNCHANGED <<now, next_id, timers, timer_nesting, jobs, queued, pc, task,
                   scripts_executed, fired, cleared, threadVars, shellVars>>

FireTimer ==
    /\ pc = "fire"
    /\ \E t \in batch :
          /\ FirstOf(t)
          /\ t.id \notin cancelled
          /\ batch' = batch \ {t}
          /\ fired' = [id |-> t.id, deadline |-> t.deadline]
          /\ timer_nesting' = t.nesting
    /\ StartTask("timer")
    /\ UNCHANGED <<now, next_id, timers, cancelled, jobs, scripts_executed, cleared,
                   threadVars, shellVars>>

(* The end of ScriptDocument::poll.                                        *)
PollEnds ==
    /\ pc = "fire" /\ batch = {}
    /\ pc' = "idle"
    /\ ArmTimerThread
    /\ UNCHANGED <<timerVars, batch, jobs, queued, task, scripts_executed, fired, cleared,
                   deadline, shellVars>>

-----------------------------------------------------------------------------
(* The timer thread and the clock.                                         *)

(* timer_thread_main: recv, or recv_timeout before the deadline; a message *)
(* may also win the race with the timeout.                                 *)
TakeSooner(d) == deadline' = IF deadline = None THEN d ELSE Smaller(d, deadline)

ThreadReceives ==
    /\ armed # <<>>
    /\ TakeSooner(Head(armed))
    /\ armed' = Tail(armed)
    /\ UNCHANGED <<timerVars, taskVars, cleared, shellVars>>

(* The deadline passes: the Waker posts a Poll event, if there is one.     *)
ThreadWakes ==
    /\ deadline # None /\ deadline <= now
    /\ deadline' = None
    /\ poll_posted' = (poll_posted \/ waker)
    /\ UNCHANGED <<timerVars, taskVars, cleared, armed, waker, attached, event_due, suspends>>

Tick ==
    /\ now < MaxTime
    /\ now' = now + 1
    /\ UNCHANGED <<next_id, timers, cancelled, timer_nesting, taskVars, cleared,
                   threadVars, shellVars>>

-----------------------------------------------------------------------------
(* The shell (strake-shell application.rs, window.rs).                     *)

(* complete_resume installs the waker and polls nothing.  The window       *)
(* system is assumed to send a window event to a new surface.              *)
CompleteResume ==
    /\ ~attached
    /\ attached' = TRUE
    /\ event_due' = TRUE
    /\ UNCHANGED <<timerVars, taskVars, cleared, threadVars, waker, poll_posted, suspends>>

Suspend ==
    /\ attached /\ pc = "idle" /\ suspends < MaxSuspends
    /\ attached' = FALSE
    /\ event_due' = FALSE
    /\ suspends' = suspends + 1
    /\ UNCHANGED <<timerVars, taskVars, cleared, threadVars, waker, poll_posted>>

MayLag == Len(armed) < MaxArmed

(* window_event: the event may be input, which runs listeners; Poll is     *)
(* posted in any case.                                                     *)
WindowEvent ==
    /\ pc = "idle" /\ (MayLag \/ event_due)
    /\ poll_posted' = TRUE
    /\ event_due' = FALSE
    /\ \/ UNCHANGED taskVars
       \/ /\ MayLag
          /\ StartTask("input")
          /\ UNCHANGED <<batch, jobs, scripts_executed, fired>>
    /\ UNCHANGED <<timerVars, cleared, threadVars, waker, attached, suspends>>

FirstEvent == event_due /\ WindowEvent

(* ScriptDocument::eval, or execute_scripts before the first poll.         *)
Eval ==
    /\ pc = "idle" /\ MayLag
    /\ StartTask("input")
    /\ scripts_executed' \in {scripts_executed, TRUE}
    /\ UNCHANGED <<timerVars, batch, jobs, fired, cleared, threadVars, shellVars>>

(* StrakeShellEvent::Poll: View::poll does nothing without a surface;      *)
(* ScriptDocument::poll stores the Waker and runs scripts still to be run. *)
Poll ==
    /\ pc = "idle" /\ poll_posted
    /\ poll_posted' = FALSE
    /\ \/ ~attached /\ UNCHANGED <<waker, taskVars>>
       \/ /\ attached
          /\ waker' = TRUE
          /\ \/ /\ scripts_executed
                /\ pc' = "poll"
                /\ UNCHANGED <<queued, task, scripts_executed>>
             \/ /\ ~scripts_executed
                /\ scripts_executed' = TRUE
                /\ StartTask("first poll")
          /\ UNCHANGED <<batch, jobs, fired>>
    /\ UNCHANGED <<timerVars, cleared, threadVars, attached, event_due, suspends>>

-----------------------------------------------------------------------------
Script ==
    \/ SetTimeout \/ SetInterval \/ RequestAnimationFrame \/ ClearTimer \/ QueueMicrotask

MainThread ==
    \/ TaskReturns \/ RunJob \/ JobReturns \/ NextScript \/ ScriptsEnd \/ CallbackEnds
    \/ RunDueTimers \/ SkipTimer \/ FireTimer \/ PollEnds

TimerThread == ThreadReceives \/ ThreadWakes

Shell == CompleteResume \/ Suspend \/ WindowEvent \/ Eval \/ Poll

Next == Script \/ MainThread \/ TimerThread \/ Tick \/ Shell

Spec == Init /\ [][Next]_vars

(* JavaScript returns, and a document has finitely many scripts (strong    *)
(* fairness of ScriptsEnd); the timer thread and the clock go on; winit    *)
(* serves a Poll that is posted however many other events it also serves;  *)
(* a window gets its surface back and a first event with it.               *)
FairSpec ==
    /\ Spec
    /\ WF_vars(TaskReturns) /\ WF_vars(RunJob) /\ WF_vars(JobReturns)
    /\ SF_vars(ScriptsEnd) /\ WF_vars(CallbackEnds)
    /\ WF_vars(RunDueTimers) /\ WF_vars(SkipTimer) /\ WF_vars(FireTimer) /\ WF_vars(PollEnds)
    /\ WF_vars(ThreadReceives) /\ WF_vars(ThreadWakes) /\ WF_vars(Tick)
    /\ WF_vars(CompleteResume) /\ SF_vars(FirstEvent) /\ SF_vars(Poll)

-----------------------------------------------------------------------------
(* Properties.                                                             *)

(* Timers are called in the order of their deadlines and, for equal ones,  *)
(* as they were set (timers.rs sort_by_key), over the whole life of the    *)
(* page: across batches, late polls, intervals that go back to the queue   *)
(* and timers set by the callbacks of a batch.                             *)
FiresInOrder == [][fired' # fired => Precedes(fired, fired')]_vars

(* A timer of the batch is passed over exactly if the page has cleared it, *)
(* before the poll or from an earlier callback of the same batch           *)
(* (runtime.rs take_cancelled).                                            *)
ClearingDecides ==
    [][\A t \in batch : t \notin batch' => (t.id \in cleared <=> fired' = fired)]_vars

(* "A mark implies the id was removed from the queue, so no id extracted   *)
(* into due can be marked yet" (timers.rs take_due).                       *)
MarkedIdsAreNotQueued == cancelled \cap Ids(timers) = {}

(* No microtask waits while the main thread goes on to the next timer, the *)
(* poll's timers or the shell (run_jobs after every task).                 *)
NoJobIsLeftBehind == pc \in {"idle", "poll", "fire"} => jobs = 0

(* What a callback at the clamp level or deeper sets is due no sooner than *)
(* the clamp after the callback's own deadline, so chains of zero delays   *)
(* cannot keep up with the clock (clamp_delay, run_due_timers).            *)
DeepNestingYields ==
    [][\A t \in timers' \ timers :
          (pc = "js" /\ timer_nesting # None /\ timer_nesting >= NESTING_CLAMP_LEVEL)
             => t.deadline >= fired.deadline + Smaller(NESTING_CLAMP_DELAY, FrameDelay)]_vars

(* To the page, batch and marks do not exist.                              *)
Contract ==
    INSTANCE TimerContract WITH
        clock <- now, given <- next_id,
        pending <- timers \cup {t \in batch : t.id \notin cancelled}
ImplementsTimerContract == Contract!Spec

(* Every timer is eventually called or cleared once its time has come,     *)
(* though wakes are lost while the window has no surface and a clearTimeout*)
(* leaves the timer thread with a stale deadline (document.rs              *)
(* arm_timer_thread at the end of every poll).                             *)
HasEntry(id, d) == \E t \in timers \cup batch : t.id = id /\ t.deadline = d
TimersFire ==
    \A id \in 1..MaxTimers, d \in 0..MaxTime : HasEntry(id, d) ~> ~HasEntry(id, d)
=============================================================================
