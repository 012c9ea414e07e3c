SPECIFICATION Spec
CONSTANTS
    None = None
    Delays <- Zero
    ForeignIds <- AnyIds
    NESTING_CLAMP_LEVEL = 0
    NESTING_CLAMP_DELAY = 1
    FrameDelay = 1
    MaxTimers = 1
    MaxTime = 1
    MaxJobs = 1
    MaxArmed = 1
    MaxSuspends = 0
PROPERTIES
    ClearingDecides
CHECK_DEADLOCK FALSE
