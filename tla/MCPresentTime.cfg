SPECIFICATION Spec
CONSTANTS
    NoBuffer = NoBuffer
    NUM_BUFFER_SLOTS = 3
    MaxSlotCount = 3
    BufferIds = {b1, b2, b3, b4}
    NumAttributes = 1
    Requests = {0}
    Producers = {p1}
    Dequeuers = {p1}
    Apis = {1}
    ConnectApis = {1}
    ControlledByApp = {FALSE}
    Calls = {"consumerDisconnect", "setPresentMode", "setAllowExtraAcquire", "setMaxDequeuedBufferCount"}
    Counts = {1, 2}
    Generations = {0}
    Timeouts = {}
    Timestamps = {1, 3}
    AutoTimestamps = {FALSE}
    ExpectedPresents = {0, 2}
    MaxFrameNumbers = {0, 2}
    MAX_REASONABLE_NSEC = 1
    AllocationResults = {TRUE}
    ConsumerIsSurfaceFlinger = FALSE
    MaxFrames = 3
    MaxShares = 2
SYMMETRY Symmetry
CHECK_DEADLOCK FALSE
INVARIANTS
    AllocatedSlotsMatchLimit
PROPERTIES
    ImplementsFrameStream
