SPECIFICATION Spec
CONSTANTS
    target = target
    parent = parent
    Elements = {target, parent}
    Window = Window
    Callbacks = {f, g}
    Chains <- MCChains
    MaxChanges = 3
    MaxQueued = 1
    None = None
    Functions = {f1, f2, f3}
    MaxFunctions = 3
    MaxOpened = 2
    Calls = {c1, c2}
    MaxWindows = 3
    MaxDepth = 5
    Scenarios = {"events", "lifecycle", "ipc"}
SYMMETRY Symmetric
INVARIANTS
    TypeOK
    DispatchIsOrderly
    EveryListenerHears
    LifecycleIsAnnounced
    InvokesAreSettled
