------------------------------- MODULE ElectronHost -------------------------------
(***************************************************************************)
(* The Electron main process of strake-vibey-script/src/electron.rs: the   *)
(* app's lifecycle, its windows, and the calls pages make to it over IPC,  *)
(* which the embedder pumps.                                               *)
(*                                                                         *)
(* Scripts of the main process run at the top level, as functions that the *)
(* host calls one after another, and as microtasks.  While one runs it may *)
(* call the host, which may call functions in turn: the host's unfinished  *)
(* work is a stack of frames.                                              *)
(***************************************************************************)
EXTENDS Naturals, FiniteSets, SequencesExt

CONSTANTS
    Functions,      \* what scripts hand to the host, each once: listeners,
                    \* continuations of promises, microtasks
    Calls,          \* calls of ipcRenderer.invoke and ipcRenderer.send
    MaxWindows,     \* bound: windows ever created
    MaxDepth        \* bound: frames on the stack

ASSUME BoundsAssumption == MaxWindows \in Nat /\ MaxDepth \in Nat

Windows == 1..MaxWindows
AppEvents == {"ready", "window-all-closed", "before-quit", "will-quit"}

VARIABLES
    app,            \* App: ready, quit, and whether the last count noted is zero
    app_listeners,
    when_ready_resolvers,
    windows,        \* WindowManager: the live windows
    created,        \* next_id
    window_closed_listeners,
    jobs,           \* microtasks of the main process
    stack,          \* unfinished work of the host: see Frames
    used,           \* history: what each function was handed over for
    ran,            \* history: how often it was called
    announced,      \* history: times window-all-closed was fired,
    emptied         \* and times the last window was closed

lifecycleVars == <<app, app_listeners, when_ready_resolvers, windows, created,
                   window_closed_listeners, used, announced, emptied>>

VARIABLES
    handled,        \* ipc_handlers has the channel
    invoke_queue,
    send_queue,
    outbox,         \* windows with a webContents.send queued
    pump,           \* what pump_ipc_to took from the queues
    rendering,      \* the page runs: continuations and ipcRenderer.on listeners
    issued,         \* history: the invokes,
    answered        \* and the settled ones, in order

ipcVars == <<handled, invoke_queue, send_queue, outbox, pump, issued, answered>>
hostVars == <<lifecycleVars, jobs, stack, ran, ipcVars, rendering>>

(* What a function can be handed over for; or "lost": it was to run as a   *)
(* job and was dropped.                                                    *)
Deferred == {"continuation", "microtask"}
Purposes == {"once", "recurring"} \cup Deferred

(* What the host is in the middle of, the functions it has yet to call,    *)
(* and whether the one it called last, or a script, is running.  "jobs"    *)
(* and "microtask" are run_jobs, between jobs or in the job of a promise,  *)
(* and in a callback of queueMicrotask.                                    *)
Frames ==
    [work : {"script", "ready", "closed", "jobs", "microtask", "pump", "handler"} \cup AppEvents,
     todo : Seq(Functions), resolvers : Seq(Functions),
     last_closed : BOOLEAN, calling : BOOLEAN]
Frame(work, todo) ==
    [work |-> work, todo |-> todo, resolvers |-> <<>>, last_closed |-> FALSE, calling |-> FALSE]

HostTypeOK ==
    /\ app \in [ready : BOOLEAN, quit : BOOLEAN, noted_zero : BOOLEAN]
    /\ app_listeners \in [AppEvents -> Seq(Functions)]
    /\ when_ready_resolvers \in Seq(Functions)
    /\ windows \subseteq 1..created /\ created \in 0..MaxWindows
    /\ window_closed_listeners \in [Windows -> Seq(Functions)]
    /\ jobs \in Seq(Functions)
    /\ stack \in Seq(Frames) /\ Len(stack) <= MaxDepth
    /\ used \in [Functions -> Purposes \cup {"no", "lost"}]
    /\ ran \in [Functions -> Nat]
    /\ announced \in Nat /\ emptied \in Nat
    /\ handled \in BOOLEAN
    /\ invoke_queue \in Seq(Calls) /\ send_queue \in Seq(Calls)
    /\ outbox \subseteq windows
    /\ pump \in [invokes : Seq(Calls), sends : Seq(Calls)]
    /\ rendering \in BOOLEAN
    /\ issued \in Seq(Calls) /\ answered \in Seq(Calls)

HostInit ==
    /\ app = [ready |-> FALSE, quit |-> FALSE, noted_zero |-> FALSE]
    /\ app_listeners = [e \in AppEvents |-> <<>>]
    /\ when_ready_resolvers = <<>>
    /\ windows = {} /\ created = 0
    /\ window_closed_listeners = [w \in Windows |-> <<>>]
    /\ jobs = <<>> /\ stack = <<>>
    /\ used = [f \in Functions |-> "no"] /\ ran = [f \in Functions |-> 0]
    /\ announced = 0 /\ emptied = 0
    /\ handled = FALSE /\ invoke_queue = <<>> /\ send_queue = <<>> /\ outbox = {}
    /\ pump = [invokes |-> <<>>, sends |-> <<>>]
    /\ rendering = FALSE /\ issued = <<>> /\ answered = <<>>

-----------------------------------------------------------------------------
(* Frames.                                                                 *)

HostIdle == stack = <<>>
Top == Last(stack)
Working(work) == stack # <<>> /\ Top.work = work
Push(frame) == Len(stack) < MaxDepth /\ stack' = Append(stack, frame)
Replace(frame) == stack' = Append(Front(stack), frame)
Pop == stack' = Front(stack)

(* A script of the main process is running.                                *)
Running == stack # <<>> /\ Top.calling

(* The embedder runs a script.                                             *)
Eval ==
    /\ HostIdle
    /\ Push([Frame("script", <<>>) EXCEPT !.calling = TRUE])
    /\ rendering' = FALSE
    /\ UNCHANGED <<lifecycleVars, jobs, ran, ipcVars>>

(* call_js_listeners: the next one, whatever the last one threw.           *)
CallNext ==
    /\ stack # <<>> /\ Top.todo # <<>>
    /\ ran' = [ran EXCEPT ![Head(Top.todo)] = @ + 1]
    /\ Replace([Top EXCEPT !.todo = Tail(@), !.calling = TRUE])
    /\ UNCHANGED <<lifecycleVars, jobs, ipcVars, rendering>>

(* run_jobs, which ends every turn of the main process.                    *)
InJobs == Working("jobs") \/ Working("microtask")
RunJob ==
    /\ InJobs /\ jobs # <<>>
    /\ ran' = [ran EXCEPT ![Head(jobs)] = @ + 1]
    /\ jobs' = Tail(jobs)
    /\ Replace([Top EXCEPT !.work = IF used[Head(jobs)] = "microtask" THEN "microtask" ELSE "jobs",
                           !.calling = TRUE])
    /\ UNCHANGED <<lifecycleVars, ipcVars, rendering>>
JobsDone ==
    /\ InJobs /\ jobs = <<>>
    /\ Pop
    /\ UNCHANGED <<lifecycleVars, jobs, ran, ipcVars, rendering>>

(* A callback of queueMicrotask throws: Boa drops the jobs behind it.  What *)
(* throws in a promise's job only rejects the next promise.                *)
Dropped(f) == f \in ToSet(jobs) /\ used[f] \in Deferred
JobThrows ==
    /\ Working("microtask")
    /\ jobs' = <<>>
    /\ used' = [f \in Functions |-> IF Dropped(f) THEN "lost" ELSE used[f]]
    /\ Pop
    /\ UNCHANGED <<app, app_listeners, when_ready_resolvers, windows, created,
                   window_closed_listeners, announced, emptied, ran, ipcVars, rendering>>
ScriptDone ==
    /\ Working("script")
    /\ Replace(Frame("jobs", <<>>))
    /\ UNCHANGED <<lifecycleVars, jobs, ran, ipcVars, rendering>>

-----------------------------------------------------------------------------
(* Ready.                                                                  *)

(* mark_electron_ready: App::mark_ready does nothing once the app has      *)
(* quit, but whoever waits is taken and called.                            *)
MarkReady ==
    /\ HostIdle
    /\ app' = [app EXCEPT !.ready = @ \/ ~app.quit]
    /\ Push([Frame("ready", app_listeners["ready"]) EXCEPT !.resolvers = when_ready_resolvers])
    /\ app_listeners' = [app_listeners EXCEPT !["ready"] = <<>>]
    /\ when_ready_resolvers' = <<>>
    /\ rendering' = FALSE
    /\ UNCHANGED <<windows, created, window_closed_listeners, jobs, used, ran,
                   announced, emptied, ipcVars>>
ReadyDone ==
    /\ Working("ready") /\ Len(stack) = 1 /\ Top.todo = <<>>
    /\ jobs' = jobs \o Top.resolvers
    /\ Replace(Frame("jobs", <<>>))
    /\ UNCHANGED <<lifecycleVars, ran, ipcVars, rendering>>

Handed(f, purpose) == used[f] = "no" /\ used' = [used EXCEPT ![f] = purpose]

(* queueMicrotask(f).                                                      *)
QueueMicrotask(f) ==
    /\ Running /\ Handed(f, "microtask")
    /\ jobs' = Append(jobs, f)
    /\ UNCHANGED <<app, app_listeners, when_ready_resolvers, windows, created,
                   window_closed_listeners, stack, ran, announced, emptied, ipcVars, rendering>>

(* app.whenReady().then(f).  Mutant: the promise is always pending.        *)
WhenReadyPending(f) ==
    /\ Running /\ Handed(f, "continuation")
    /\ when_ready_resolvers' = Append(when_ready_resolvers, f)
    /\ UNCHANGED <<app, app_listeners, windows, created, window_closed_listeners, jobs, stack,
                   ran, announced, emptied, ipcVars, rendering>>
WhenReady(f) ==
    /\ Running /\ Handed(f, "continuation")
    /\ IF app.ready
       THEN jobs' = Append(jobs, f) /\ UNCHANGED when_ready_resolvers
       ELSE when_ready_resolvers' = Append(when_ready_resolvers, f) /\ UNCHANGED jobs
    /\ UNCHANGED <<app, app_listeners, windows, created, window_closed_listeners, stack,
                   ran, announced, emptied, ipcVars, rendering>>

(* app.on(event, f): a late ready listener is called at once.              *)
AppOn(event, f) ==
    /\ Running
    /\ Handed(f, IF event = "window-all-closed" THEN "recurring" ELSE "once")
    /\ IF event = "ready" /\ app.ready
       THEN Push(Frame("ready", <<f>>)) /\ UNCHANGED app_listeners
       ELSE app_listeners' = [app_listeners EXCEPT ![event] = Append(@, f)] /\ UNCHANGED stack
    /\ UNCHANGED <<app, when_ready_resolvers, windows, created, window_closed_listeners, jobs,
                   ran, announced, emptied, ipcVars, rendering>>

-----------------------------------------------------------------------------
(* Windows and quitting.                                                   *)

(* new BrowserWindow().                                                    *)
WindowCreate ==
    /\ Running /\ created < MaxWindows
    /\ created' = created + 1
    /\ windows' = windows \cup {created + 1}
    /\ UNCHANGED <<app, app_listeners, when_ready_resolvers, window_closed_listeners, jobs, stack,
                   used, ran, announced, emptied, ipcVars, rendering>>

(* win.on("closed", f), which throws once the window is closed.            *)
WindowOn(w, f) ==
    /\ Running /\ w \in windows /\ Handed(f, "once")
    /\ window_closed_listeners' = [window_closed_listeners EXCEPT ![w] = Append(@, f)]
    /\ UNCHANGED <<app, app_listeners, when_ready_resolvers, windows, created, jobs, stack,
                   ran, announced, emptied, ipcVars, rendering>>

(* win.close() of a live window; of any other it does nothing.  Whether it *)
(* was the last one is decided before the closed listeners are called.     *)
(* What it was sent is dropped with it.  Mutant: it is kept.               *)
OutboxKept(w) == outbox
OutboxWithout(w) == outbox \ {w}
WindowClose(w) ==
    /\ Running /\ w \in windows
    /\ windows' = windows \ {w}
    /\ outbox' = OutboxWithout(w)
    /\ emptied' = IF windows' = {} THEN emptied + 1 ELSE emptied
    /\ Push([Frame("closed", window_closed_listeners[w]) EXCEPT !.last_closed = windows' = {}])
    /\ window_closed_listeners' = [window_closed_listeners EXCEPT ![w] = <<>>]
    /\ UNCHANGED <<app, app_listeners, when_ready_resolvers, created, jobs, used, ran, announced,
                   handled, invoke_queue, send_queue, pump, issued, answered, rendering>>

(* After them: App::note_window_closed(0), which quits the app, and then   *)
(* the window-all-closed listeners, which stay registered.                 *)
ClosedDone ==
    /\ Working("closed") /\ Top.todo = <<>>
    /\ IF Top.last_closed
       THEN /\ app' = [app EXCEPT !.quit = @ \/ ~app.noted_zero, !.noted_zero = TRUE]
            /\ announced' = announced + 1
            /\ Replace(Frame("window-all-closed", app_listeners["window-all-closed"]))
       ELSE Pop /\ UNCHANGED <<app, announced>>
    /\ UNCHANGED <<app_listeners, when_ready_resolvers, windows, created, window_closed_listeners,
                   jobs, used, ran, emptied, ipcVars, rendering>>
ReturnToScript ==
    /\ \/ Working("window-all-closed")
       \/ Working("ready") /\ Len(stack) > 1       \* the late listener of AppOn
    /\ Top.todo = <<>>
    /\ Pop
    /\ UNCHANGED <<lifecycleVars, jobs, ran, ipcVars, rendering>>

(* app.quit(): before-quit and will-quit listeners are taken and called,   *)
(* then the app has quit, which stops nothing of what is modelled here.    *)
AppQuit ==
    /\ Running
    /\ Push(Frame("before-quit", app_listeners["before-quit"]))
    /\ app_listeners' = [app_listeners EXCEPT !["before-quit"] = <<>>]
    /\ UNCHANGED <<app, when_ready_resolvers, windows, created, window_closed_listeners, jobs,
                   used, ran, announced, emptied, ipcVars, rendering>>
BeforeQuitDone ==
    /\ Working("before-quit") /\ Top.todo = <<>>
    /\ Replace(Frame("will-quit", app_listeners["will-quit"]))
    /\ app_listeners' = [app_listeners EXCEPT !["will-quit"] = <<>>]
    /\ UNCHANGED <<app, when_ready_resolvers, windows, created, window_closed_listeners, jobs,
                   used, ran, announced, emptied, ipcVars, rendering>>
WillQuitDone ==
    /\ Working("will-quit") /\ Top.todo = <<>>
    /\ app' = [app EXCEPT !.quit = TRUE]
    /\ Pop
    /\ UNCHANGED <<app_listeners, when_ready_resolvers, windows, created, window_closed_listeners,
                   jobs, used, ran, announced, emptied, ipcVars, rendering>>

LifecycleStep ==
    \/ Eval \/ CallNext \/ RunJob \/ JobsDone \/ JobThrows \/ ScriptDone
    \/ MarkReady \/ ReadyDone
    \/ \E f \in Functions :
          \/ QueueMicrotask(f) \/ WhenReady(f)
          \/ \E e \in AppEvents : AppOn(e, f)
          \/ \E w \in Windows : WindowOn(w, f)
    \/ WindowCreate \/ \E w \in Windows : WindowClose(w)
    \/ ClosedDone \/ ReturnToScript
    \/ AppQuit \/ BeforeQuitDone \/ WillQuitDone

-----------------------------------------------------------------------------
(* IPC.                                                                    *)

(* A page runs by itself, or while the pump settles its promises and calls *)
(* its listeners.                                                          *)
PageRuns == HostIdle \/ (Working("pump") /\ rendering)
Fresh(c) == c \notin ToSet(issued) \cup ToSet(send_queue) \cup ToSet(pump.sends)

Invoke(c) ==
    /\ PageRuns /\ Fresh(c)
    /\ invoke_queue' = Append(invoke_queue, c)
    /\ issued' = Append(issued, c)
    /\ UNCHANGED <<lifecycleVars, jobs, stack, ran, handled, send_queue, outbox, pump, answered,
                   rendering>>
Send(c) ==
    /\ PageRuns /\ Fresh(c)
    /\ send_queue' = Append(send_queue, c)
    /\ UNCHANGED <<lifecycleVars, jobs, stack, ran, handled, invoke_queue, outbox, pump, issued,
                   answered, rendering>>

(* ipcMain.handle, which throws the second time; win.webContents.send.     *)
IpcHandle ==
    /\ Running /\ ~handled
    /\ handled' = TRUE
    /\ UNCHANGED <<lifecycleVars, jobs, stack, ran, invoke_queue, send_queue, outbox, pump,
                   issued, answered, rendering>>
WebContentsSend(w) ==
    /\ Running /\ w \in windows \ outbox
    /\ outbox' = outbox \cup {w}
    /\ UNCHANGED <<lifecycleVars, jobs, stack, ran, handled, invoke_queue, send_queue, pump,
                   issued, answered, rendering>>

(* pump_ipc_to takes both queues: what is queued meanwhile waits for the   *)
(* next pump.                                                              *)
PumpIpc ==
    /\ HostIdle
    /\ pump' = [invokes |-> invoke_queue, sends |-> send_queue]
    /\ invoke_queue' = <<>> /\ send_queue' = <<>>
    /\ Push(Frame("pump", <<>>))
    /\ rendering' = FALSE
    /\ UNCHANGED <<lifecycleVars, jobs, ran, handled, outbox, issued, answered>>

(* The promise of the first call is settled, and its continuations run.    *)
Settled ==
    /\ answered' = Append(answered, Head(pump.invokes))
    /\ pump' = [pump EXCEPT !.invokes = Tail(@)]
    /\ rendering' = TRUE
    /\ UNCHANGED <<lifecycleVars, jobs, ran, handled, invoke_queue, send_queue, outbox, issued>>

(* A call without a handler is rejected.  Mutant: it is left unsettled.    *)
Unsettled ==
    /\ pump' = [pump EXCEPT !.invokes = Tail(@)]
    /\ UNCHANGED <<lifecycleVars, jobs, stack, ran, handled, invoke_queue, send_queue, outbox,
                   issued, answered, rendering>>
Rejected == Settled /\ UNCHANGED stack
ServeUnhandled ==
    /\ Working("pump") /\ pump.invokes # <<>> /\ ~handled
    /\ Rejected

(* The handler runs in the main process.  What it returns settles the      *)
(* call; so does its failure, and that of marshalling its value.           *)
CallHandler ==
    /\ Working("pump") /\ pump.invokes # <<>> /\ handled
    /\ Push([Frame("handler", <<>>) EXCEPT !.calling = TRUE])
    /\ rendering' = FALSE
    /\ UNCHANGED <<lifecycleVars, jobs, ran, ipcVars>>
HandlerDone == Working("handler") /\ pump.invokes # <<>> /\ Settled /\ Pop

(* Then the sends go to ipcMain.on listeners, which are scripts too.       *)
ServeSend ==
    /\ Working("pump") /\ pump.invokes = <<>> /\ pump.sends # <<>>
    /\ pump' = [pump EXCEPT !.sends = Tail(@)]
    /\ Push([Frame("handler", <<>>) EXCEPT !.calling = TRUE])
    /\ rendering' = FALSE
    /\ UNCHANGED <<lifecycleVars, jobs, ran, handled, invoke_queue, send_queue, outbox, issued,
                   answered>>
ListenerDone ==
    /\ Working("handler") /\ pump.invokes = <<>>
    /\ Pop
    /\ UNCHANGED <<lifecycleVars, jobs, ran, ipcVars, rendering>>

(* Then every window's outbox goes to the page's listeners.                *)
ServeMainSends ==
    /\ Working("pump") /\ pump.invokes = <<>> /\ pump.sends = <<>> /\ outbox # {}
    /\ outbox' = {}
    /\ rendering' = TRUE
    /\ UNCHANGED <<lifecycleVars, jobs, stack, ran, handled, invoke_queue, send_queue, pump,
                   issued, answered>>
PumpDone ==
    /\ Working("pump") /\ pump.invokes = <<>> /\ pump.sends = <<>> /\ outbox = {}
    /\ Replace(Frame("jobs", <<>>))
    /\ rendering' = FALSE
    /\ UNCHANGED <<lifecycleVars, jobs, ran, ipcVars>>

IpcStep ==
    \/ \E c \in Calls : Invoke(c) \/ Send(c)
    \/ IpcHandle \/ \E w \in Windows : WebContentsSend(w)
    \/ PumpIpc \/ ServeUnhandled \/ CallHandler \/ HandlerDone
    \/ ServeSend \/ ListenerDone \/ ServeMainSends \/ PumpDone

HostSpec == HostInit /\ [][LifecycleStep \/ IpcStep]_hostVars
-----------------------------------------------------------------------------
(* Properties.                                                             *)

Waiting ==
    ToSet(when_ready_resolvers)
        \cup (UNION {ToSet(app_listeners[e]) : e \in AppEvents})
        \cup (UNION {ToSet(window_closed_listeners[w]) : w \in windows})

(* Nobody waits for ready once the app is, whoever registers from within   *)
(* a listener; between turns each function has been called exactly once if *)
(* what it waited for has happened, and not at all otherwise; and closing  *)
(* the last window is announced once each time and quits the app, however  *)
(* closed listeners close and open windows (electron.rs:6050-6072,         *)
(* 7580-7603).  Lost are only continuations and microtasks, never a        *)
(* listener, and only behind a microtask that threw: they never run, at no *)
(* later turn either (runtime.rs:800-817, a known gap that                 *)
(* throwing_microtask_drops_later_siblings_known_gap pins).                *)
LifecycleIsAnnounced ==
    /\ app.ready => app_listeners["ready"] = <<>> /\ when_ready_resolvers = <<>>
    /\ HostIdle => \A f \in Functions :
          /\ used[f] \in Deferred \cup {"once"} => ran[f] = IF f \in Waiting THEN 0 ELSE 1
          /\ used[f] = "lost" => ran[f] = 0
    /\ HostIdle => announced = emptied
    /\ HostIdle /\ emptied > 0 => app.quit

(* Every invoke is answered exactly once, in the order of the calls, by    *)
(* the first pump after it; none is lost, whatever handlers do and         *)
(* whichever calls continuations make (electron.rs:8002-8093).             *)
InvokesAreSettled ==
    /\ issued = answered \o pump.invokes \o invoke_queue
    /\ HostIdle => pump.invokes = <<>>
=============================================================================
