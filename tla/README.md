# Formal models of strake

strake is a native web runtime written in Rust: an HTML/CSS engine with Stylo for style and Taffy for
layout, a Boa based JavaScript runtime with an Electron compatible API, and a winit shell that puts
documents in windows. This directory holds TLA+ models of its stateful parts, TLC configurations that
check them on small instances, and TLAPS proofs of the most important results for all instances. Every
definition follows the Rust source; `PROJECT.json` maps each one to the lines it stands for. Paths below
are relative to `src/packages/` unless they start with `apps/`.

Contents: 1 inventory, 2 the modules and what they correspond to, 3 the runs, 4 fairness, 5 the proofs,
6 what the code is found to do against its own statements, 7 abstractions and bounds by name, 8 what is
not modelled, 9 plan, 10 running the checks.

## 1. Inventory

### Components, state, operations

| component | code | state | operations |
|---|---|---|---|
| Fallback supervisor | `strake-fallback-supervisor/src/{supervisor,backend,testing}.rs` | worker state, surface map, two eviction clocks, epoch | add/remove surface, set_visible, poll, pump_frame |
| Fallback widget | `strake-fallback-supervisor/src/widget.rs` | frame, generation, painted generation | set_frame, requires_redraw, paint, disconnected |
| Resource requests | `strake-dom/src/net.rs`, `resolve.rs`, `strake-traits/src/net.rs` | request counter, boxed handlers held by providers, mpsc channel | fetch, respond (bytes, error, Drop), handle_messages |
| Stylesheets and the gate | `strake-dom/src/{mutator,document,resolve}.rs` | `nodes_to_stylesheet`, special data, author sheets, `pending_critical_resources` | load, unload, reload, load_resource, resolve |
| Images | same files | `pending_images`, `image_cache`, special data | load_image, apply_loaded_image, failure drain |
| Iframes | `strake-dom/src/iframe.rs`, `mutator.rs` | `iframe_loads`, sub-documents, `sub_document_nodes`, abort signals | srcdoc, start load, navigate, attach, remove |
| JavaScript event loop | `strake-vibey-script/src/{timers,clock,runtime,document}.rs` | timer queue, cancellation marks, nesting, job queue, timer thread | setTimeout/Interval, clear, requestAnimationFrame, poll, eval, microtask checkpoint |
| Shell windows | `strake-shell/src/{application,window,event}.rs` | surface, waker, posted events | resume, suspend, window event, Poll |
| DOM tree and mutator | `strake-dom/src/{mutator,tree,traversal}.rs` | slot map of nodes, parent/child links, flags, id map, deferred work | append, insert, remove, drop, attributes, flush |
| UI event driver | `strake-dom/src/events/*.rs` | hover/active/focus node, event queue | handle_ui_event, default actions |
| JavaScript listeners | `strake-vibey-script/src/{runtime,state}.rs`, `dom/event.rs` | listener map, flags of the event | dispatch in capture, target, bubble; once; stop |
| Electron lifecycle | `strake-electron-compat/src/{app,window}.rs`, `strake-vibey-script/src/electron.rs` | app phase, windows, listener lists | ready, quit, close, window-all-closed |
| Electron IPC | `strake-electron-compat/src/{ipc,message_channel}.rs`, `electron.rs` | invoke/send queues, outboxes | invoke, handle, send, pump |
| Web storage | `strake-electron-compat/src/web_storage.rs` | areas, quota, change feed | set, remove, clear |
| Other Electron services | `session.rs`, `permissions.rs`, `power.rs`, ... | registries | one map update each |
| Network provider | `strake-net/src/lib.rs` | semaphore per host, tasks | fetch, abort, data URLs |
| HTML parser | `strake-html/src` | html5ever state | drives the mutator |
| JavaScript DOM bindings | `strake-vibey-script/src/dom/{node,element,document}.rs` | wrappers of NodeIds | a mutator per call; nodes are detached, never dropped |
| Dioxus integration | `dioxus-native-dom/src`, `dioxus-native/src` | node stack, two id maps | a mutator per render; removed nodes are dropped when their ElementId is used again |
| Style, layout, text, paint, accessibility | `strake-dom/src/{stylo.rs,layout}`, `stylo_taffy`, `strake-paint`, `accesskit_xplat` | derived data | computed from the document |
| Browser tab | `apps/browser/src/{tab,document_loader,history}.rs` | session history, load under way, what is shown, abort controller of the latest load | navigate, back, forward, reload, load, commit, probe for an icon, close |
| Browsing history | `apps/browser/src/browser_history.rs`, `apps/browser/persistence/src/lib.rs` | the entries in memory, the rows on disk, writes between the two | record a visit, set an icon, clear, start |
| Applications and tools | the rest of `apps/*`, `strake-bench`, `strake-test-harness` | views, settings | |

### How they interact

- **Calls.** JavaScript bindings, the HTML parser and Dioxus all change the document through
  `DocumentMutator`, on the main thread, between two resolves. Inserting, removing or changing an element
  starts and undoes resource loads at once.
- **Threads.** A `NetProvider` calls a `ResourceHandler` back on a thread of its own; the handler sends a
  `DocumentEvent` and then asks the shell for a redraw. The timer thread of a `ScriptDocument` calls the
  `Waker` of an earlier poll. Both meet the main thread through queues only.
- **Scheduling.** The shell redraws a window by resolving its document, and resolve starts by draining the
  channel, unless the document has lost its root element: then it returns at once, and what is in the channel
  waits. The shell polls a document when its own queue holds a `Poll` event for it.
- **Callbacks.** Listeners and timer callbacks re-enter the mutator, the timer queue and the Electron
  services while their caller is in the middle of a loop.
- **Shared resources.** Images and stylesheets of one document share the request counter, the channel and
  `pending_images`; all fallback surfaces share one worker.

### What is hard in it

Answers that come in any order, late, twice removed from what asked for them, or only through a destructor;
a channel that is drained while threads append to it; loads begun for an element that has moved, changed or
died when the answer comes; redirects, which change the name under which an answer is filed; a batch of due
timers extracted before the callbacks run that may clear or add to it; wakes lost while a window has no
surface; clocks that are read at one time and used at another; microtasks dropped behind one that throws; one worker kept alive, asleep or dead for
surfaces that come and go; disk writes that are made in no order and lost with the process. `PROJECT.json` lists these as 40 hazards at their lines, with the properties that
cover them; those without a property say why.

### What makes each part correct

| part | must hold |
|---|---|
| supervisor | visible content has an active worker; idle workers go, but never early; no stale bitmap is shown |
| requests | each is answered once, and no answer stays unheard in the channel of a document with a root element |
| stylesheets | rendering waits exactly for the head's sheets; the cascade is the sheets of the elements in order |
| images | elements join only fetches that will be answered; nobody waits for ever; no image the element never asked for |
| iframes | what may still fetch is what an element owns; late answers replace nothing newer |
| browser tab | it comes to show the entry it is at, and only the page on screen or its successor may fetch |
| browsing history | the next start shows what this one did: memory and disk fold and prune alike |
| event loop | timers called in order, each unless cleared, none forgotten; microtasks before the next task |
| DOM tree | links are mutual and acyclic; flags, id map, hover and focus agree with the tree; nothing refers to a dropped node |
| Dioxus | every ElementId in use is mapped to a live node, in both directions |
| events | order of phases; nobody called twice or forgotten; default action unless refused |
| Electron | ready once, nothing after quit, window-all-closed when and only when the last window goes; messages in order, replies to their askers |

## 2. The modules

```
WorkerLifecycle  <--implements--  FallbackSupervisor  <--extends--  FallbackCompositing
ResourceRequests <--extends, implements--  StylesheetLoading
                 <--extends--  ImageLoading, IframeLoading
BrowsingHistory  <--extends--  BrowserTab                     (with IframeLoading in MCNavigation)
TimerContract    <--implements--  ScriptEventLoop
DomTree          <--extends--  DomBindings, MutationWriter    (both in MCDomTree)
EventDispatch, ElectronHost                                   (both in MCScriptHost)
Vectors          lists: extended by DomTree and EventDispatch
MC*              constants and scenarios for TLC
*_proofs         theorems, extending the module they are about and TLAPS
                 (Navigation_proofs: MCNavigation, ScriptHost_proofs: MCScriptHost, Document_proofs: MCDomTree)
```

Operators that begin with a comment "Mutant" are changed versions of the definition that follows them. They
belong to no specification: they serve to check that each property can be broken by a plausible bug.

### WorkerLifecycle

The policy from the head of `supervisor.rs`, without clocks, ids or backend: the load is `busy`, `occluded`
or `empty`; visible content has an active worker at once; the worker hibernates or terminates only after the
load has been idle in the same way for the whole delay.

### FallbackSupervisor

State and code correspond field by field. The `HashMap` of surfaces is the pair `live`, `visible`. `backend`
is the worker process as seen through the trait `FallbackBackend`, in the form of the scriptable
`FakeBackend` of `testing.rs`; a frame is the number of the worker start it was composited after, which is
all that freshness can ask of it.

| code | action |
|---|---|
| `add_surface`, with a spawn that works or a worker that exists | `AddSurface` |
| `add_surface`, spawn fails | `AddSurfaceFails` |
| `remove_surface` | `RemoveSurface` |
| `set_visible(id, true)` / `(id, false)` | `ShowSurface` / `HideSurface` |
| `poll`, two arms | `PollTerminate`, `PollHibernate` |
| `pump_frame` | operator `PumpFrame` (it changes nothing) |
| the worker and the embedder's clock | `CompositeFrame`, `BreakSpawn`, `Tick` |

`poll` takes a timestamp; `Lag` lets it be older than the clock seen by the other calls, as the saturating
subtraction in the code allows for.

### FallbackCompositing

Adds `FallbackWidget` and the embedder loop that the docs of `supervisor.rs` and `widget.rs` prescribe:
`Present` compares the epoch, drops the frame if it moved, pumps and sets a new one; `Paint` is
`Widget::paint`; `Disconnect` is the unmounting of the element. The two generation counters are only ever
compared and become the flag `unpainted`.

### ResourceRequests

The protocol under all resource loads. `inflight` is the set of boxed handlers that a provider holds. A
provider thread answers with bytes (`BytesArrive`, which may fail to parse), an error (`FetchFails`) or by
dropping the box (`DropHandler`, the `Drop` backstop of `ResourceHandler`); each sends a message and in a
**second step** asks for a redraw, so that other steps come between the two. On the main thread,
`BeginResolve`, `TakeMessage` and `ChannelDrained` are `handle_messages`; providers go on sending while it
runs. `resolve` does so only for a document that has a root element (`rooted`): otherwise it returns first
(`resolve.rs:40-47`), which is `ResolveWithoutRoot`, and the redraw is spent while the messages stay.
`RemoveRoot` and `InsertRoot` are the mutations that take the root element out and bring one in; each asks for a
redraw, which is what messages that were left behind are drained by. `SendNavigation` is the message of a click
in a sub-document. `RequestsSpec` is the protocol on its
own, with scripts that fetch at will; loaders extend the module and implement that specification.

`FinalUrl` is the URL under which a provider reports a response: the identity, or a redirect. In the loaders,
`MoveRoot` is the root element on its way out, once their own elements have left, or in; nothing is inserted
into a document without one.

### StylesheetLoading

`<link rel=stylesheet>`: scripts set and clear attributes, insert, move, remove and drop elements, and reload
sheets by href (`Script`); `LoadResource` is `BaseDocument::load_resource` with `add_stylesheet_for_node`;
`EndResolve` is the gate of `resolve`. Sheets are named by the request that brought them. Stylo's list of
author sheets is the sequence `stylist`, into which `InsertBefore` puts a sheet at the place that the order
of `nodes_to_stylesheet` gives it. `panicked` records that an assertion of the code would have failed; then
the main thread does nothing more. The variable `blocking` is history: the requests of links in the head.

### ImageLoading

`load_image` has three ways (`FromCache`, `Join`, `StartFetch`) decided by `image_cache` and
`pending_images`; `LoadResource` is `apply_loaded_image` or the failure branch. `ForeignFailure` is the
failure of a request of another kind for the same URL, which drains the list too: `load_resource` tests the
URL only. `asked` is history.

### IframeLoading

A generation is the number of its `AbortSignal`. `NewGeneration` is `new_iframe_generation`, which aborts the
one before; `LoadSrcdoc`, `StartIframeLoad`, `NavigateIframe` and `ApplyIframeHtml` are the functions of
`iframe.rs`, `Leave` the part of `process_removed_subtree` and `drop_node_ignoring_parent` that concerns
frames. An aborted fetch still answers, in any way, since abort is only a hint to the provider.

### BrowserTab

A tab of the browser app. `Navigate`, `GoBack`, `GoForward`, `Reload`, `ClickClear` and `CloseTab` are the
handlers; `RestartLoad` is the resource of `TabWebView` running again, with the beginning of `load_document`
that aborts the load before; `LoadDocument` is the rest of it, `CommitLoadedDocument` and `CommitAboutChrome`
the two effects, `ProbeEnds` the task that looks for an icon. Dioxus, which is external, runs tasks before
effects and handlers between turns: an effect waits for `~changed`, a handler for the effects. `AboutPages` are
the pages that are not loaded, of which one lists and clears the history. `RestartApp` ends the process.

### BrowsingHistory

The history twice: `entries` is the `VecDeque`, `rows` the table. `RecordVisit`, `SetFavicon` and `ClearHistory`
are the methods of `HistoryService`, which change `entries` and add to `writes`; `MakeWrite` is a thread of
tokio's blocking pool that makes **any** of them, by the SQL of `record_visit_tx` (`WithVisit`: fold into the
head row or insert, then prune), `set_favicon_by_url_inner` or `clear_inner`, each a transaction; `WriteFails` is
one that is logged and lost. `ORDER BY visited_at` has seconds only and leaves ties open, so `Latest`, `Kept`
and `Loadable` are sets of what SQLite may choose. `mishaps` is history: whether writes were overtaken or lost
since the start, whether two visits fell into one second, and whether the start itself could read the disk:
`RestartHistory` loads what `load_recent` returns, which leaves out every row that cannot be read, and is empty
when the query fails (`persistence/src/lib.rs:158`, `182`), while the rows stay on disk.

### TimerContract

What a page is promised: a set of pending timers of which the soonest (first set first among equals) is
called next, cleared ones never, due intervals set again for later. No batch, no marks.

### ScriptEventLoop

`pc` says what the main thread runs: nothing, a script or callback, the microtask checkpoint, a microtask,
the beginning of a poll's timers, or their loop.

| code | actions |
|---|---|
| `TimerQueue::add`, `clamp_delay`, the bindings | `SetTimeout`, `SetInterval`, `RequestAnimationFrame` |
| `TimerQueue::remove` | `ClearTimer` |
| `run_jobs`, also after errors | `QueueMicrotask`, `RunJob`, `JobReturns`, `TaskReturns` |
| `take_due` (batch, reschedule, retain marks) | `RunDueTimers` |
| loop of `run_due_timers`, `take_cancelled` | `SkipTimer`, `FireTimer`, `CallbackEnds` |
| `execute_scripts`, `handle_ui_event`, `eval` | `Eval`, `NextScript`, `ScriptsEnd` |
| `ScriptDocument::poll`, `arm_timer_thread` | `Poll`, `PollEnds` |
| `timer_thread_main` | `ThreadReceives`, `ThreadWakes` |
| shell | `CompleteResume`, `Suspend`, `WindowEvent` |

The due batch is sorted once in the code and run from the front; here it is a set from which the first is
taken, which is the same order, as the order is total on ids. `ArmTimerThread` is a message to the thread;
between it and the thread's `recv_timeout` anything may happen.

### Vectors

`retain` and the loop over a slice, as `Filtered` and `Folded`: functions of the length of the list, in which
form they can be reasoned about.

### DomTree

The document is one record, `dom`, and every method of `DocumentMutator` an operator from such a record to
the next, because callers run several of them under one mutator: `RemoveNode`, `InsertNodes`
(`add_children_to_parent`) with the ways to it, `ReplaceNodeWith`, `ReplaceChildren`, `RemoveAndDrop`,
`DropAllChildren`, `SetId`, `DeepClone`, `ParseInnerHtml`. Each keeps the order of the code: which subtree is
processed before or after its link is cut, what is unlinked before the first child is inserted, whose paint
lists are purged. `Flush` is what the mutator does when it is dropped. `Resolve` and `SetHover` are the two
places where the pointer finds nodes, through lists `paint_children` that are derived from the tree at the
last resolve. `Subtree` and `Ancestors` are both `Reached`, what is met along links in as many steps as there
are nodes. A NodeId is never given out twice, as `tree.rs` says of its slot map; `panicked` records that
the main thread indexed the map with one that is gone.

### DomBindings

The calls of a script, each with a mutator of its own (two, when a fragment is emptied first): `appendChild`,
`insertBefore`, `replaceChild`, `removeChild`, `append`, `prepend`, `replaceChildren`, `before`, `after`,
`replaceWith`, `textContent`, `innerHTML`, `id`, `cloneNode`, `focus`.

### MutationWriter

The stack machine behind Dioxus: mutations of a render between `StartRender` and `EndRender`, with the stack
of nodes made and not inserted, and the two maps between ElementIds and NodeIds. `AssignNodeId` drops the node
that the ElementId had before, if it has no parent, and unmaps what was below it. dioxus-core, which issues
the mutations, is external: `mounted` and the guards say which ElementIds it may use.

### EventDispatch

The driver (`driver`) sends a pointer event, its compatibility event, and the events that default actions
queue, each along a chain of nodes asked for before its dispatch. A dispatch is `dispatch_event_inner`: `Path`
is capture, bubble and window, or the target alone; `Visit` copies the callbacks of one stop and retires the
once listeners among them; `Call` calls the next one. Between two calls, a callback may stop or refuse the
event and change any list of listeners. `SynthesiseChange` is the change event after a checkbox's input event.
`heard`, `steady`, `stopped_at`, `refused` and `acted` are history.

### ElectronHost

The main process is a single thread on which the host calls JavaScript and JavaScript calls the host, to any
depth. `stack` holds the host's unfinished work: a frame says what it is in the middle of, which functions it
still has to call, and whether one is running.

| code | actions |
|---|---|
| `mark_electron_ready`, `e_when_ready`, `e_app_on` | `MarkReady`, `ReadyDone`; `WhenReady`; `AppOn` |
| `e_window_create`, `e_window_on`, `e_window_close` | `WindowCreate`; `WindowOn`; `WindowClose`, `ClosedDone` |
| `e_app_quit` | `AppQuit`, `BeforeQuitDone`, `WillQuitDone` |
| `call_js_listeners`, `eval` | `CallNext`, `Eval`, `ScriptDone`, `ReturnToScript` |
| `queueMicrotask`; `run_jobs`, to the end or to an error | `QueueMicrotask`; `RunJob`, `JobsDone`, `JobThrows` |
| `ipcRenderer.invoke`/`send`, `ipcMain.handle`, `webContents.send` | `Invoke`, `Send`, `IpcHandle`, `WebContentsSend` |
| `pump_ipc_to`: invokes, then sends, then outboxes | `PumpIpc` and the actions that follow it in the module |

The jobs of the main process are the continuations of `whenReady` and the callbacks of `queueMicrotask`. A callback
that throws ends `run_jobs`, and the executor drops all jobs behind it (`runtime.rs:800-817`): `JobThrows` does so and
marks them `"lost"` in `used`. What a continuation throws rejects the next promise and drops nothing.

## 3. The runs

All are exhaustive. States and times are for two workers.

| run | instance | states, time |
|---|---|---|
| `fallback_compositing` | 3 surfaces, thresholds 1 and 2, `MaxTime` 6, `LastCall` 4, `Lag` 1 | 126 thousand, 0:14 |
| `stylesheet_loading` | 2 links, 1 URL, 2 requests | 1.32 million, 3:00 |
| `stylesheet_panic` | 1 link, 1 request | violation |
| `image_loading` | 2 elements, 2 URLs, one also requested as another kind, 2 requests | 926 thousand, 2:25 |
| `image_redirect` | 2 elements, a URL that redirects to the other | violation |
| `navigation` | an iframe: 4 requests, 4 generations; a tab: 2 loads, 3 entries, 1 page, 2 about pages, 1 probe; history: 2 URLs, cap 2, 3 visits from each start, 2 writes, 1 mishap | 1.12 million, 1:27 |
| `iframe_removed` | 1 request, 1 generation | violation |
| `script_event_loop` | 2 timers, times 0 to 1, 1 microtask per task, 1 suspension | 312 thousand, 1:49 |
| `script_clear_foreign` | 1 timer, ids cleared before they are given out | violation |
| `dom_tree` | 4 scenarios of 3 or 4 nodes, 1 id, 3 ElementIds, lists of up to 2 nodes | 200 thousand, 2:05 |
| `dom_stale_paint` | 4 elements, 3 ElementIds, renders with hit tests between them | violation, 0:09 |
| `script_host` | 2 elements and the window, 2 callbacks, 3 changes of listeners, 1 queued event; 3 functions, 3 windows, depth 5; 2 calls, 2 windows, 1 function | 4.22 million, 2:08 |

**fallback_compositing**: `WorkerFitsSurfaces` (visible content has an Active worker, live content some
worker, and the two eviction clocks run exactly when they should), `FramesAreFresh` (the bitmap that a pump
returns is of the latest start; and if the epoch did not move since a frame was presented, the worker is active
and the frame is of its latest start), `ImplementsLifecycle` (the policy of the docs), `IdleWorkerIsEvicted`
(an idle worker is terminated, an occluded one hibernates), `FramesReachTheScreen` (no widget keeps a frame of an
earlier worker start for ever). Three surfaces let one come
while others hide and go. `MaxTime` leaves room for a hibernation, a wake, and a termination one after the
other; the embedder's calls stop at `LastCall`, before the clock does, so that the liveness properties are not
met by a system merely running out of time. Widgets are independent of one another: one is enough.

**stylesheet_loading**: `AnswersArriveOnce` (each request is answered once, and, while the document has a root
element, no message waits in a channel that nobody will read, also not after the root was gone for a time), `CriticalRequestsAreOutstanding` (the gate waits exactly for the unanswered requests of
head links), `NoUnstyledContent` (no resolve goes on to styles while one is on its way), `RenderingUnblocks`
(each stops blocking, if the document has a root for good in the end), `CascadeFollowsNodes` (cascade, `nodes_to_stylesheet` and special data agree, in order,
and a dropped node styles nothing), `ImplementsRequests`. Two links are what the order of the cascade and a
race of two answers need; a second request is a reload or the second link.

**image_loading**: `PendingIsLive` (a waiting list always has a fetch that will be answered; one fetch per URL
and none for a cached one), `ShownWasAsked`, `WaitingEnds` (nobody waits for ever, with the same premise of a root). Two elements for joining, two URLs for changing
`src` while the first fetch runs. The part about duplicate fetches leaves out URLs that are requested as
another kind too: for them a foreign failure empties the list and a second image fetch starts, in the code and
in the model.

**navigation**, in three scenarios. *Frames*: `FramesAreConsistent` (everything not aborted belongs to an
element's current load; content is of its own generation, or of an earlier one while the new one is fetched, and
never the late answer to an abandoned request; resolve indexes exactly existing nodes), `NeverGoesBack`. One
frame: frames share nothing but the channel; four generations are an abandoned load, its successor, a srcdoc
and a navigation. *Tab*: `TabIsConsistent` (when nothing is under way, title and document are those of the entry
the tab is at, and the document may fetch; every signal but that of the latest load is aborted). Two loads of the same
page are told apart by their signals, which is what a late answer or a reload would confuse; three entries allow
back, forward and a navigation that cuts off what was ahead. *History*: `HistoryIsMirrored` (neither side
exceeds the cap, whatever order the writes are made in; if they were made in order and no two visits share a second,
the next start would show what this one does, also when this one began from rows of an earlier one, if it could read
them all). A cap of 2 is reached by
the third visit; it is too small to tell a fold into the head from a fold into an older row of the same URL,
which drops the same row as the cap would. For all three, `NavigationsEnd`: no navigation of a frame stays in the
channel of a document that has a root element for good in the end, and a tab that the user leaves alone comes to rest.

**script_event_loop**: `NoJobIsLeftBehind`, `FiresInOrder`, `ClearingDecides` (a due timer is passed over
exactly if the page cleared it), `DeepNestingYields`, `ImplementsTimerContract`, `TimersFire` (each pending or
extracted timer is called or cleared, though wakes are lost in a suspension and the thread may hold a stale
deadline). The clamp level is 0, so the clamp bites at the first nested timer; the frame delay and the clamp
are 1.

**dom_tree**: `TreeIsConsistent` (links agree, no cycles, the in-document flag is exactly reachability from the
root), `ElementsAreFoundById` (the first in tree order, for any history of moves, clones and renames),
`NothingDangles` (hover, focus, owners of sheets, Dioxus' ElementIds and its stack are live nodes), `HoverIsBridged` (a removal hands the hover to the parent of what was removed).
A behaviour keeps to one of four scenarios: scripts that set ids, clone and parse, with a style element and a
fragment; scripts while the pointer moves; Dioxus renders with a style element; renders with hit tests and
focus between them. Three elements are a parent, a child and somewhere else to go; a list of two nodes is
enough for the order of insertion and for the order of detachment. The instance is used up quickly since
NodeIds do not come back: 3 or 4 nodes are few, and each violation known was found with that many.

**script_host**, in three scenarios. *Events*: `DispatchIsOrderly` (calls follow capture, bubble, window; no
registration twice; nobody further on after a stop; a refused event has no default action), `EveryListenerHears`
(unless stopped, who listened from the beginning and was not removed is called). Three changes of listeners are
one before the dispatch, and two that callbacks make. *Lifecycle*: `LifecycleIsAnnounced` (each function handed
to the app or a promise is called once, or still waits for something that has not happened, or is a promise's
continuation or a microtask, was dropped behind a microtask that threw, and is never called; window-all-closed
is fired as often as the last window is closed; after that the app quits). Depth 5 is a script that closes a
window whose closed listener closes the last one, whose listeners close or quit again. *IPC*:
`InvokesAreSettled` (each invoke answered once, in order, by the first pump after it).

Each property of a passing run has a mutant in `PROJECT.json`: a definition of the code replaced by a buggy
form, under which TLC finds the property violated in the same run.

Deadlock is checked in `script_host` only, where the host can always start something. Elsewhere the models have
bounds after which they stop, and the real system stops when no one calls it. That something goes on is stated
by the liveness properties instead.

## 4. Fairness

Safety never needs it. Liveness properties assume the following and no more.

| module | fairness | why the code justifies it |
|---|---|---|
| FallbackSupervisor | weak on `Tick` and on `Poll(now)` | the embedder's docs prescribe a regular poll with its clock; nothing obliges it to touch surfaces |
| FallbackCompositing | weak on `Present`, `Paint`, `Tick` | the frame callback runs, a widget that requires a redraw is painted |
| Stylesheet/Image/IframeLoading | weak on the provider's steps | a provider answers or drops each handler. `strake-net` sets no timeout, so a server that never answers does block; the properties say that nothing else does |
| | weak on `StartResolve /\ redraw`, on each message, on the end of `handle_messages` | the shell delivers a requested redraw; the loop of `handle_messages` is a loop |
| BrowserTab | weak on `PageAnswers`, on the steps of `TabTurn` | the server answers or the connection fails; Dioxus polls the tasks that were woken and runs the effects that are due. The property is about a user who stops acting |
| ScriptEventLoop | weak on returning from tasks and microtasks, on the steps of a poll, on the thread and the clock | JavaScript returns, threads are scheduled |
| | strong on `ScriptsEnd` | a document has finitely many scripts, an event finitely many listeners: going on to a next one (`NextScript`) is not for ever |
| | strong on `Poll` and `FirstEvent`, weak on `CompleteResume` | winit serves a posted user event however many others it serves; a suspended window is resumed and a new surface gets a window event |

`DomTree` with its drivers, `EventDispatch` and `ElectronHost` are sequential programs that a page or an
embedder drives, and a disk write may be lost: these modules and `BrowsingHistory` have safety properties only and assume no fairness.

The properties that rest on a resolve (`RenderingUnblocks`, `WaitingEnds`, and `NavigationsAreHandled` in
`NavigationsEnd`) start with `<>[]rooted`: from some time on the document keeps a root element. Nothing makes a
script put one back, and without one `resolve` handles no message, so that the gate stays shut and images wait, in
the code as in the model; the premise says no more than that, as the root may come and go any number of times before.

No fairness is given to scripts, clicks, or anything a page or user may do. Note the last line of the table above:
`complete_resume` neither polls nor requests a redraw, so a wake that was lost during the suspension is made
up for by the `Poll` that follows the first window event. Without that event `TimersFire` fails, which is
how the assumption was found.

## 5. The proofs

Eight `_proofs` modules; every obligation is proved. The theorems a reader should know:

| module | theorem | states, for all values of the constants |
|---|---|---|
| FallbackSupervisor_proofs | `TypeCorrect` | `WidgetTypeOK` of the composition |
| | `WorkerAlwaysFits`, `FramesAlwaysFresh` | of the composition, `WorkerFitsSurfaces` and `FramesAreFresh` |
| | `SupervisorImplementsLifecycle` | `ImplementsLifecycle`, step simulation |
| ResourceRequests_proofs | `RequestsAreAnswered` | `RequestsSpec => []AnswersArriveOnce` |
| StylesheetLoading_proofs | `LoadingImplementsRequests` | `Spec => RequestsSpec` |
| | `StylesheetsAreAnswered` | the protocol's invariant carried over by that refinement |
| | `GateCountsRight`, `RenderingWaitsForSheets` | `CriticalRequestsAreOutstanding`, `NoUnstyledContent` |
| | `LinksAreTyped`, `CascadeIsOfNodes` | `TypeOK`, `CascadeFollowsNodes` |
| ImageLoading_proofs | `ImagesAreTyped`, `ShownImagesWereAsked`, `ImagesAreAnswered` | `TypeOK`, `ShownWasAsked`, `AnswersArriveOnce`, with redirects too |
| | `PendingImagesAreLive` | `PendingIsLive`, if no response is redirected (`NoRedirects`) |
| Navigation_proofs | `FramesImplementRequests`, `FramesAreAnswered` | iframes follow the protocol; its invariant carried over |
| | `FramesAreTyped`, `FramesStayConsistent`, `FramesNeverGoBack` | `FramesTypeOK`, `FramesAreConsistent`, `NeverGoesBack` |
| | `HistoryStaysCapped`, `HistoryStaysMirrored` | `HistoryIsCapped` with the types, `HistoryIsMirrored` |
| | `TabIsTyped`, `TabStaysConsistent` | `TabTypeOK`, `TabIsConsistent` |
| | `AppKeepsItsHistory` | both, of a tab over the history (`AppSpec`, a composition that no run has as one specification) |
| | `NavigationIsTyped`, `NavigationStaysConsistent` | `TypeOK` of `MCNavigation`; the safety properties of its parts side by side |
| ScriptEventLoop_proofs | `EventLoopTypeCorrect`, `TimersFireInOrder`, `DeepNestingAlwaysYields`, `JobsAreNeverLeftBehind` | for every page |
| | `MarkedIdsLeftTheQueue`, `ClearingAlwaysDecides`, `EventLoopImplementsContract` | for pages that clear only ids they were given (`ForeignIds = {}`) |
| ScriptHost_proofs | `DispatchIsTyped`, `DispatchStaysOrderly`, `ListenersAlwaysHear` | `DispatchTypeOK`, `DispatchIsOrderly`, `EveryListenerHears`, for chains of any length |
| | `HostIsTyped`, `InvokesAreAlwaysSettled`, `LifecycleIsAlwaysAnnounced` | `HostTypeOK`, `InvokesAreSettled`, `LifecycleIsAnnounced`, for any number of windows, functions, calls and any depth |
| | `ScriptHostIsTyped`, `ScriptHostKeepsOrder` | `TypeOK` of `MCScriptHost`; the four properties of its parts |
| Document_proofs | `DocumentIsTyped`, `DocumentIsATree`, `NoIdDangles`, `HoverFollowsRemovals` | `TypeOK`, `TreeIsConsistent`, `NothingDangles`, `HoverIsBridged` of `MCDomTree`, for trees and lists of any size |
| | `IdsAreFound` | `ElementsAreFoundById`: the lookup by id against a search of the tree |
| | `ScriptsArePanicFree` | in a document that scripts and the pointer change, no flush and no hit test meets a dropped node |

**Assumptions.** `ThresholdsAssumption` (the delays are positive), `NoneAssumption` and its like
(`ImagesAssumption`, `FramesAssumption`, `LoadsAssumption`: `None` or `Nil` is none of the values it stands in
for), `BoundsAssumption` and `GenerationsAssumption`, `RequestsAssumption` (nodes are finitely many numbers,
`FinalUrl` maps URLs to URLs), `ForeignAssumption` and `TabAssumption` (some URLs are URLs), `HistoryAssumption`
(the cap is positive), `KindsAssumption` and `ElementIdsAssumption` (there are finitely many NodeIds, each of one
kind; the root and `None` are none of them), `PlacesAssumption` (a chain of targets is not empty and names no element twice: it is the
way from an element to the root), `EventLoopAssumption` (delays, levels and bounds are naturals). TLC evaluates
all of them in the runs. The bounds are arbitrary naturals in the proofs. `NoRedirects` and `ForeignIds = {}` are
hypotheses of the theorems they are named at, and needed there: section 6 has the behaviours without them.

The inductive invariants below were put to TLC, as invariants of the runs' instances, before they were proved.

**Supervisor.** `ClocksMatchSurfaces` and `VisibleIsServed` need each other (that the worker of a visible
surface is not terminated follows from the clocks, that the clocks are set right from the states), and
freshness needs `WorkerInStep`: the process runs exactly in the Active state and a bitmap it holds is of its
latest start. `IInv` is the four together. For the widget, `EpochInv` adds that the epoch it presented under is
never ahead; the lemma that carries the proof is that a step which leaves the epoch alone leaves an active
worker and its start alone.

**Requests.** `AnsweredOnce` is inductive because it includes that all ids in use are below the counter: a new
id is then in nobody's hands. `NoMessageStranded` is inductive with the types alone: the send comes before the
redraw, a resolve that spends one without draining finds no root, and a root that comes back brings a redraw.

**Stylesheets.** Every action of `StylesheetLoading` is shown to be one of `RequestsNext` or a stutter, which
brings in the protocol's invariant. On top of it, `IInv` says that history ids are below the counter, that no
navigation is in this channel, and `CriticalRequestsAreOutstanding`. A resolve that opens the gate has an
empty set of awaited requests and therefore no outstanding blocking one.

The cascade needs that no two links own one sheet, which is so because the id of a sheet is that of the request
that brought it: `SheetsInv` says that such a request is answered (`SheetsAreSpent`), so a message that is still
to be handled brings a sheet nobody has. The insertion of the code, before the first sheet of a later node, is
then an insertion into an increasing sequence, and a removal takes exactly the sheet meant.

**Images.** `ShownWasAsked` becomes inductive when it is said of the waiting lists too. `PendingIsLive` needs
the converse of what it says: a URL that no one else requests is fetched exactly while it is pending, by one
request, and is pending only while it is not cached (`LiveInv`). Responses find the entry by the URL they
report, hence the hypothesis.

**Iframes.** They are steps of the protocol as well, here with the navigations that a click sends. What the
generations hide has to be said: no two elements own one signal (`SignalsAreDistinct`), a request that a load
waits for was stamped with the load's signal, and what is on screen came with that signal or an earlier one
(`ContentIsOwned`). `FramesNeverGoBack` follows since a document attached has the request its load waits for,
later than that of the content before it.

**History.** Writes reach the disk later than the memory changes, so disk and memory agree only when nothing is
outstanding. The inductive form is a chain of memories (`MirroredBy`): the first matches the rows on disk, each
outstanding write makes the next of the one before, and the last is the app's. A visit or a clear appends to the
chain; a write made in order removes its first link; that the disk then matches the second memory is the lemma
about each kind of write, eviction by the cap included. Ids differ, and so do the times of visits unless two
shared a second (`"tied"`), which is what decides the order that a next start reads. A start that reads all rows begins a chain of one; one that reads only a part
begins none (`"unread"`) until the next start.

**Tab.** `TabInv` follows a page from the load over its value to the document: whichever of the three there is
first is of the entry the tab is at, unless a change is still to be read; what was read before has its signal
aborted; and the chrome of an about page is due or on screen. The runs check the
tab while the disk rests, and the history under any caller; `AppSpec` puts the two together: `ProbesAreOfVisits` says that a favicon probe names a visit of the page it is for, or one that is
no longer in memory, so that a probe's answer is a step the history allows.

**Event loop.** `OrderInv`: whatever is still to be called comes after what was called last; the batch is due
and comes before the whole queue (a rescheduled interval is at least a millisecond away, a new timer has a
larger id); a batch exists only inside a poll, so `RunDueTimers` meets none. `MarksInv`: marks are of cleared
timers that left the queue, cleared timers of the batch are marked, ids are unique. The refinement follows
from both: `SkipTimer` is a stutter as the timer was no longer pending, `RunDueTimers` only repeats intervals.

**Dispatch.** `DispatchInv` divides a dispatch in three: what was heard is behind, what is pending is at the
first stop of the path, and the stops ahead follow in the order of `Rank`. Who has to be called (`steady`) was
heard, is pending, or is still registered at a stop ahead; a list loses a registration only when script removes
it, which takes it out of `steady`, or when a once-listener is retired, which happens after it was copied to
pending. What a filter of a list keeps, and in which order, is proved for `Filtered` by an induction over its
length.

**Tree.** `Sound` is what every method of the mutator starts from and leaves behind. `TreeIsConsistent` is not
inductive as it stands, because it speaks of what is reached; `Sound` has its local form: each list of children
names its members once and agrees with the parents (`IsTree`), some ranks grow from parent to child, a node is
flagged exactly if its parent is (`Flags`), only live nodes have links (`Lives`), and what the document refers
to is live (`Refers`), where the map of ids names exactly the flagged nodes that have the id (`Indexed`). Four
groups of lemmas lead back and forth.

- *Reachability.* `Reached` is the least set that contains the start and is closed under the links: a walk
  along ranks that grow visits no node twice and so ends within the number of nodes.
- *Operators.* For each method of `DocumentMutator`: what it returns is sound, which links it cut and which it
  made. A loop over a list is `Folded`, and its lemma carries a set of documents (those that are sound and differ
  from the first in the links of the nodes done so far) through the loop. Between cutting and linking, the flags
  disagree with the parents for the nodes still to be adopted, so `Flags` takes a set of exceptions. An insertion
  must not make a cycle: that a new place is not below what is put there is what the proof needs of `Insertable`
  for scripts and of `Apart` for Dioxus.
- *Hover.* The nearest surviving ancestor of a hovered node is the parent of the subtree that leaves: its
  ancestors within that subtree go too, and its others are the parent and those above the parent.
- *Tree order.* `ElementsAreFoundById` compares the head of a filtered list with a choice by `Precedes`.
  `ComesFirst` (above, or below an earlier sibling) is shown never to hold both ways. Each round of `TreeOrder` then makes, of lists sorted by it, one for every node that is sorted
  too (`DeeperIsLists`), because what is below two siblings is apart; after as many rounds as there are nodes the
  list of the root holds what the depth of the tree allows, which is everything below it (`TreeOrderFacts`).
  The head of what a filter leaves of a sorted list comes before the rest, and so is the one chosen.

For scripts, `Ready` adds that queued style elements and the nodes in paint lists are live; the one drop they
cause is the root that `ParseInnerHtml` has emptied and that no list names. For Dioxus `Ready` is false, as
`dom_stale_paint` shows, and `NothingDangles` needs another argument: which mapped nodes may be dropped.
`Stands(dead)` divides the nodes in two, without a link from one part to the other (`Split`): `dead` has the
nodes whose ElementIds are free again, the rest has the mounted elements and all that is on the stack.
`AssignNodeId` drops only in `dead`; a removal moves a subtree, with the ElementIds below it, to `dead`. `Inv` is
`Sound`, some `dead` that stands and, where scripts drive, `Ready`.

**Electron IPC.** `InvokesAreSettled` says that the calls made are the calls answered, followed by those a pump
has taken, followed by those queued: this equation holds after every step by itself (`NothingIsLost`). That a
pump leaves nothing behind needs to know where it is. `PumpIsAtTheBottom`: a pump starts on an empty stack, so
its frame is the lowest one, handlers and what they call are above it, and while a call it has taken is
unanswered, the pump's frame is the lowest one on the stack: an empty stack has none left. `PumpInv` is the two with the
types, since taking the front of the stack needs to know that it is a sequence of frames.

**Electron lifecycle.** `LifecycleInv` keeps books over all places a function can be in: the lists of listeners,
the promises, the microtasks and the frames of the stack. A function handed over once is in exactly one of them
until it is called, and in none afterwards (`Accounted`); a lost one is in none and was not called. That what is
dropped was never a listener is `DeferredWait`: what is queued as a job, or is to become one, was handed over as a
continuation or a microtask. The announcements made and those that frames of closed
listeners still owe are as many as the times the last window closed. `LifecycleIsAnnounced` is what this says of
an empty stack.

**Induction over data.** The library's induction theorems take an operator as a parameter, which the provers
cannot instantiate. `SetInduction` states the principle for a set of numbers instead, and is proved from the
well-foundedness of the subset ordering on finite sets. It carries what `Filtered` returns, and that a
list of visits each older than the one before is in that order throughout.

**Only model-checked.** The liveness properties (fairness and ENABLED are out of the prover's reach):
`IdleWorkerIsEvicted`, `FramesReachTheScreen`, `RenderingUnblocks`, `WaitingEnds`, `TimersFire`,
`NavigationsEnd`. Every other property that a passing run checks is stated by a theorem. That `ImageLoading` implements the
protocol is not claimed and no run checks it: foreign failures put messages without an id in the channel, which the protocol
does not.

## 6. Where the code disagrees with its own statements

Each is a run that expects a violation of one property, quoted in `PROJECT.json` under `findings`.

- **`stylesheet_panic`.** `clear_attribute` of a link's `href` calls `unload_stylesheet` whether or not the
  element has a sheet (`strake-dom/src/mutator.rs:535`); the function asserts that it does with
  `unreachable!()` (1328). Clearing the href of a link whose sheet is still on its way panics. A second way to
  a panic lies behind: a sheet that arrives for a dropped link (`document.rs:1236`).
- **`image_redirect`.** `pending_images` is filled under the requested URL and drained under the final URL of
  the response (`document.rs:1391`); the comment at `net.rs:163` says what draining is for. After a redirect
  the entry stays: the element never shows its image and later loads of the URL queue onto the dead entry.
- **`iframe_removed`.** `process_removed_subtree` drops the load of an iframe only if it already has a
  sub-document (`mutator.rs:1213`); `iframe.rs:155` says that responses of removed iframes are discarded. A
  frame removed during its first load gets its document attached while detached.
- **`script_clear_foreign`.** `TimerQueue::remove` marks any id (`strake-vibey-script/src/timers.rs:82`), also
  one not given out yet, and `take_due` keeps the mark as long as a timer of that id is queued; the comments
  there say a mark implies the id has left the queue. After `clearInterval(1); setInterval(f, 0)` the first
  tick of `f` is lost.

- **`dom_stale_paint`.** `remove_and_drop_node` purges the dropped nodes from the paint lists of the parent and
  above it (`mutator.rs:714`), for the reason that the comment at 661-669 and the test
  `hit_test_after_remove_node.rs:5-6` give: a hit test before the next resolve would index a dropped node. A
  node that an earlier mutation of the same render has detached has no parent any more: its old parent's list
  keeps it, and the next hit test panics.

Passing runs leave these cases out by their constants or their premise, and say so: `FinalUrl` is the identity
in `image_loading`, `ForeignIds` is empty in `script_event_loop`, `CriticalRequestsAreOutstanding` speaks of
states without a panic, no property of `navigation` says where a frame with content is, and no property of
`dom_tree` speaks of the paint lists of dropped nodes.

Besides these, the modules state as they are several things that a reader of the code may not expect, and no run
is about them. The first contradicts a comment, the second is a gap that the repository documents and pins; the
others contradict no statement of it, or only one that is silent on the case.

- Electron: a `ready` listener registered late is called synchronously (`electron.rs:4912-4917`), though the
  comment above `e_app_on` says that it "fires on the next microtask checkpoint (via an already-resolved promise)"
  (4905-4906). `AppOn` calls it as the code does, and `LifecycleIsAnnounced` asks that it be called once, not when.
- Microtasks: those behind one that throws are dropped, a pending `whenReady` continuation among them
  (`runtime.rs:800-812`, `throwing_microtask_drops_later_siblings_known_gap` in `tests/event_loop.rs:147`).
- Documents: a redraw of a document without a root element drains nothing (`resolve.rs:40-47`), so that answers
  wait for a root to come.
- Electron, further: `e_window_close` decides that a window was the last before the closed listeners
  run, so that a listener that opens a window does not stop the announcement. The JavaScript listeners of
  `window-all-closed` are called when the app has already quit by default (`app.rs:149-150`), and that default
  quit calls no `before-quit` or `will-quit` listener of JavaScript. `mark_electron_ready` calls its listeners
  also after a quit that came first (`app.rs:143`). Sends queued before an invoke are served after it. What was
  sent to a window that closes before the pump is lost.
- Events: a listener removed by an earlier callback of the same stop is still called; a once listener that was
  copied and then skipped by `stopImmediatePropagation` is retired unheard; listeners of the window ignore
  `once`; the chain has no document node; microtasks run after the whole dispatch.
- DOM: `appendChild` has no check against cycles and none against inserting a node next to itself twice; a
  detached `<style>` whose children change gets its sheet at the flush; a hovered node that moves under a
  detached parent leaves the hover with a surviving ancestor of the new place; `range_drag_node_id` is not
  cleared on removal (`document.rs:930-973`).

- Browser: disk writes are unordered, so a clear may be made before the visit that it was to clear, which then
  comes back at the next start; visits within one second come back in any order, and the head row a visit folds
  into is then any of them (`browser_history.rs:151-164`, `persistence/src/lib.rs:223`). `commit_loaded_document`
  reads the current URL when it commits (`tab.rs:131`): a page that arrives after a navigation and before the
  resource restarts is recorded under the URL the tab is going to, an about page's too, and its icon is taken
  for that page's. The 404 page has an icon candidate (`document_loader.rs:141`), though `tab.rs:134` says that it
  has none; the missing entry id keeps it from being probed. A load is not ended by its abort signal. Rows that
  a start could not read are left on disk, and the next visit may fold into one of them.

## 7. Abstractions and bounds

**Data.** URLs, elements and frames of video are model values or numbers; a sheet, image or sub-document is
named by its request, URL or generation. Parsing is one bit: it worked or not. `Instant` and `Duration` are
naturals. NodeIds are numbers in slot order, which is the order of the `BTreeMap` the code keeps its sheets in
(not tree order; the code has a TODO there).

**Control left out.**
- Requests: the elements below the root element leave and enter the document one by one, before it leaves and
  after it came. Of the redraws that scripts' mutations ask for, only those of the root are modelled: a redraw more
  would only help, and the properties hold without. Fonts and `@import` sheets use the same handler and never block rendering; their failures can
  drain an image's entry, as `ForeignFailure` does. With an `is_noop` provider the code files no blocking
  request at all, so the gate is always open; the model has a provider that fetches.
- Stylesheets: inline `<style>`; the details of the `rel` token list.
- Images: background and mask layers, which share `pending_images`.
- Iframes: `MAX_SUBDOCUMENT_DEPTH`, which only refuses loads; the content of sub-documents.
- Supervisor: the list of warnings. Widget: boxes of zero size and pixel geometry. Frames of one worker start are
  not told apart, so `FramesReachTheScreen` does not say that the second of them replaces the first.
- DOM: text content, attributes other than `id`, pseudo elements, mutation records, the resource loads that
  insertion starts (they are the loaders'). `Insertable` keeps scripts from making cycles and from giving one
  node twice, which the bindings do not check. `panicked` is set by a flush that meets a dropped style element
  and by a hit test that meets a dropped node; nothing happens after it.
- Dioxus: text updates, attributes but `id` and inner HTML, conversion of events.
- Events: one event type; a chain is any of `Chains`, whatever the tree looks like, since callbacks may have
  changed it; what default actions do, beyond queueing events.
- Electron: one IPC channel and one page; each function is handed over once, so that a call of it can be told;
  of the jobs, `whenReady` continuations and `queueMicrotask` callbacks;
  promises of the main process are jobs; window state, emitters, `activate`.
- Browser: other tabs (they share the history only, and any visit may come next in the history scenario), the
  status line, the text of titles, the HTML source, the cache of icons; why a row cannot be read (a failing query, a
  URL that does not parse, a bad column are all rows that are not read), an icon that does not parse; the clock does not go back. In the tab scenario
  the disk and the clock stand still, as nothing of the tab reads them.
- Event loop: error sink and console, the Electron entry points, arguments of callbacks, virtual time (the
  same clock moved by the embedder), `queueMicrotask` against promise jobs (one queue in Boa).
- Shell: all of a window event but that it may run listeners and posts a `Poll`.

**Bounds.** `MaxSurfaces`, `LastCall`, `MaxTime`; `MaxRequests`, `MaxGenerations`; `MaxTimers`, `MaxTime`,
`MaxJobs` (microtasks one task queues), `MaxArmed` (messages the timer thread lags behind before the model lets
no further task start), `MaxSuspends`; `Used` in `MCDomTree` (nodes and ElementIds of a scenario) and `MaxInserted`; `MaxChanges` and
`MaxQueued` of events; `MaxWindows`, `MaxDepth`, `MaxFunctions`, `MaxOpened` of the host, of which the depth
refuses a call that would exceed it. They are guards of the calls that pages and users make, never of what
the system does by itself, but for the clock. The loaders reserve a request for a navigation that is still in
the channel (`Reserved`, `MayLoad`), so that the bound refuses clicks and not the handling of their messages.
In `BrowserTab`, `MaxLoads`, `MaxSession` and `MaxProbes` (a commit starts no probe while that many run); in
`BrowsingHistory`, `MaxTime`, `MaxIds`, `MaxWrites`. In `ImageLoading`, one foreign failure is in the channel at a time.

## 8. Not modelled

| part | why |
|---|---|
| network semaphore; web storage | planned, in this order of weight (section 9) |
| chrome of the browser app: toolbar, suggestions, tab strip, about pages | Dioxus views and pure functions; what they call of a tab is modelled |
| Electron shell windows, emitters, `activate`, `MessageChannel`, single-instance lock | native windows follow the manager; the rest are registries of one caller each |
| style, layout, text, scrolling, painting | functions over large numeric data, without a protocol; Stylo, Taffy and Parley are third-party. When they run is modelled, what they compute is not |
| accessibility, clipboard, input conversion | platform glue |
| HTML parser, but for `parse_inner_html` | html5ever drives; the sink turns one callback into one mutator call |
| file system, zlib, process stand-ins, module loading | synchronous I/O and string work |
| other Electron services | single-caller registries, each operation one map or list update |
| tests, benchmarks, tools, examples, WPT runner | not part of the runtime; read as documentation |

## 9. Plan

1. Fallback supervisor, its widget, its policy; proofs. *Done.*
2. Request protocol, stylesheet, image and iframe loading; proofs of protocol and gate. *Done.*
3. JavaScript event loop with timer thread and shell; timer contract; proofs. *Done.*
4. `DomTree` with its callers, the DOM bindings and the Dioxus writer. *Done.*
5. `EventDispatch`: driver, listeners, default actions. *Done.*
6. `ElectronHost`: lifecycle, windows and IPC; proof of the IPC invariant. *Done.*
7. `BrowserTab` and `BrowsingHistory`: the browser app. *Done.*
8. `HostSemaphore` of `strake-net`, below `ResourceRequests`; `WebStorage` quota and change feed.
9. Proofs of the loaders, the dispatch, the lifecycle, the tab and the history. *Done.*
10. Proofs of the tree under scripts, renders and the pointer: it is one, nothing dangles, hover is bridged,
    scripts cause no panic. *Done.*
11. The map of ids as a part of `Sound`, and with it that `get_element_by_id` finds the first in tree order.
    *Done.*

Runs are few and large: a new component brings one run for what holds and at most one for what does not.

## 10. Running the checks

```
tlc -workers 2 -config MCStylesheetLoading.cfg MCStylesheetLoading
tlc -workers 2 -config FallbackCompositing.cfg FallbackCompositing
tlc -workers 2 -config MCScriptHost.cfg MCScriptHost
tlapm ScriptEventLoop_proofs.tla
tlapm ScriptHost_proofs.tla
tlapm Navigation_proofs.tla
tlapm Document_proofs.tla                # the longest, about nine minutes
```

Each run's module and cfg are named in `PROJECT.json`; the violation runs end with a counterexample.
