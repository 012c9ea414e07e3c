SPECIFICATION CompositingFairSpec
CONSTANTS
    HIBERNATE_AFTER = 1
    TERMINATE_AFTER = 2
    None = None
    MaxSurfaces = 3
    LastCall = 4
    MaxTime = 6
    Lag = 1
INVARIANTS
    WidgetTypeOK
    WorkerFitsSurfaces
    FramesAreFresh
PROPERTIES
    ImplementsLifecycle
    IdleWorkerIsEvicted
    FramesReachTheScreen
CHECK_DEADLOCK FALSE
