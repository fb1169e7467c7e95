SPECIFICATION FairSpec
CONSTANTS
    NoBuffer = NoBuffer
    NUM_BUFFER_SLOTS = 3
    MaxSlotCount = 4
    BufferIds = {b1, b2}
    NumAttributes = 1
    Requests = {0}
    Producers = {p1, p2}
    Dequeuers = {p1}
    Apis = {1}
    ConnectApis = {1}
    ControlledByApp = {FALSE}
    Calls = {"allocateBuffers", "cancelBuffer", "extendSlotCount", "allowUnlimitedSlots"}
    Counts = {4}
    Generations = {0}
    Timeouts = {}
    Timestamps = {0}
    AutoTimestamps = {TRUE}
    ExpectedPresents = {0}
    MaxFrameNumbers = {0}
    MAX_REASONABLE_NSEC = 1
    AllocationResults = {TRUE}
    ConsumerIsSurfaceFlinger = FALSE
    MaxFrames = 3
    MaxShares = 2
CHECK_DEADLOCK FALSE
INVARIANTS
    validateConsistency
PROPERTIES
    DequeueReturns
    QueueReturns
    FramesArrive
    AllocateReturns
