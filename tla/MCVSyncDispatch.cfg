SPECIFICATION FairSpec
CONSTANTS
    None = None
    Timings <- MCTimings
    MaxTime = 4
    Period = 3
    MinVsyncDistance = 1
    TimerSlack = 1
    MaxTokens = 2
    MaxDisturbances = 1
    MaxCalls = 3
    Horizon = 4
INVARIANTS
    TimerCoversQueue
PROPERTIES
    VsyncDispatchedOnce
    OthersSkipNoVsync
    ScheduledIsDispatched
CHECK_DEADLOCK FALSE
