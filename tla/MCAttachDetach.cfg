SPECIFICATION Spec
CONSTANTS
    NoBuffer = NoBuffer
    NUM_BUFFER_SLOTS = 3
    MaxSlotCount = 3
    BufferIds = {b1, b2, b3}
    NumAttributes = 1
    Requests = {0}
    Producers = {p1, p2}
    Dequeuers = {p1}
    Apis = {1}
    ConnectApis = {1}
    ControlledByApp = {FALSE}
    Calls = {"detachBuffer", "attachBuffer", "detachNextBuffer", "detachAcquired", "attachAcquired", "discardFreeBuffers", "setGenerationNumber", "onBuffersReleased", "allowAllocation", "setMaxBufferCount"}
    Counts = {1, 2}
    Generations = {0, 1}
    Timeouts = {}
    Timestamps = {0}
    AutoTimestamps = {TRUE}
    ExpectedPresents = {0}
    MaxFrameNumbers = {0}
    MAX_REASONABLE_NSEC = 1
    AllocationResults = {TRUE}
    ConsumerIsSurfaceFlinger = FALSE
    MaxFrames = 1
    MaxShares = 2
SYMMETRY Symmetry
CHECK_DEADLOCK FALSE
INVARIANTS
    validateConsistency
    BuffersNotAliased
    HeldBuffersExclusive
