SPECIFICATION FairSpec
CONSTANTS
    None = None
    Delays <- Zero
    ForeignIds <- NoIds
    NESTING_CLAMP_LEVEL = 0
    NESTING_CLAMP_DELAY = 1
    FrameDelay = 1
    MaxTimers = 2
    MaxTime = 1
    MaxJobs = 1
    MaxArmed = 1
    MaxSuspends = 1
INVARIANTS
    TypeOK
    NoJobIsLeftBehind
PROPERTIES
    FiresInOrder
    ClearingDecides
    DeepNestingYields
    ImplementsTimerContract
    TimersFire
CHECK_DEADLOCK FALSE
