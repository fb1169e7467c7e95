--------------------------- MODULE BufferQueueCore ---------------------------
(***************************************************************************)
(* The state a BufferQueue's producer and consumer share, and the helpers  *)
(* both use (libs/gui/BufferQueueCore.cpp, include/gui/BufferQueueCore.h). *)
(*                                                                         *)
(* Every operation runs under mMutex, so one locked section is one action. *)
(* Three things break a producer call into several actions: waiting on a   *)
(* condition variable, dropping the mutex to allocate a buffer, and        *)
(* calling the consumer's listener after the mutex is released.            *)
(*                                                                         *)
(* Data that no decision depends on (fences, crops, data spaces, names) is *)
(* left out.  Width, height, format and usage are one attribute number.    *)
(***************************************************************************)
EXTENDS BufferSlot, Sequences, FiniteSets, Functions

CONSTANTS
    NUM_BUFFER_SLOTS,   \* BufferQueueDefs::NUM_BUFFER_SLOTS (64 in the code)
    MaxSlotCount,       \* bound: the largest size extendSlotCount is asked for
    BufferIds,          \* bound: identities of GraphicBuffers alive at once
    NumAttributes,      \* bound: number of size/format/usage combinations
    Requests,           \* the attributes clients ask for, 0 for the default
    Producers,          \* threads that call the one IGraphicBufferProducer
    Dequeuers,          \* those of them that call dequeueBuffer
    Apis,               \* the NATIVE_WINDOW_API_* values the code knows
    ConnectApis,        \* the api arguments of connect and disconnect
    ControlledByApp,    \* the controlledByApp arguments of both connects
    Calls,              \* the optional operations the clients make use of
    Counts,             \* arguments of the setMax...Count operations
    Generations,        \* arguments of setGenerationNumber
    Timeouts,           \* arguments of setDequeueTimeout: -1, 0 or positive
    Timestamps,         \* present times of queued items
    AutoTimestamps,     \* their isAutoTimestamp flags
    ExpectedPresents,   \* expectedPresent arguments of acquireBuffer
    MaxFrameNumbers,    \* maxFrameNumber arguments of acquireBuffer
    MAX_REASONABLE_NSEC,\* one second, in the unit of Timestamps
    AllocationResults,  \* outcomes of GraphicBuffer::initCheck() (TRUE: OK)
    ConsumerIsSurfaceFlinger, \* mConsumerIsSurfaceFlinger of the producer
    MaxFrames,          \* bound: number of successful queueBuffer calls
    MaxShares           \* bound: references of one kind to a shared slot

ASSUME SlotAssumption ==
    /\ NUM_BUFFER_SLOTS \in Nat /\ NUM_BUFFER_SLOTS >= 2
    /\ MaxSlotCount \in Nat /\ MaxSlotCount >= NUM_BUFFER_SLOTS
    /\ NoBuffer \notin [id : BufferIds, attributes : 1 .. NumAttributes,
                        generation : Nat]
ASSUME InputAssumption ==
    /\ NumAttributes \in Nat \ {0} /\ Requests \subseteq 0 .. NumAttributes
    /\ Counts \subseteq Nat /\ Generations \subseteq Nat /\ Timestamps \subseteq Nat
    /\ ExpectedPresents \subseteq Nat /\ MaxFrameNumbers \subseteq Nat
    /\ Timeouts \subseteq Int /\ Apis \cup ConnectApis \subseteq Int
    /\ ControlledByApp \subseteq BOOLEAN /\ AutoTimestamps \subseteq BOOLEAN
    /\ MAX_REASONABLE_NSEC \in Nat
    /\ AllocationResults \subseteq BOOLEAN /\ ConsumerIsSurfaceFlinger \in BOOLEAN
    /\ MaxFrames \in Nat /\ MaxShares \in Nat
    /\ 0 \notin Apis /\ Dequeuers \subseteq Producers

VARIABLES
    mSlots, mQueue, mFreeSlots, mFreeBuffers, mUnusedSlots, mActiveBuffers,
    mSharedBufferSlot,
    slotCount,                   \* mSlots.size()
    mMaxBufferCount, mMaxAcquiredBufferCount, mMaxDequeuedBufferCount,
    mConnectedApi, mIsAbandoned,
    mConsumerListener,           \* whether a consumer listener is set
    mode,                        \* the flags set by configuration calls
    mBufferHasBeenQueued, mFrameCounter, mIsAllocating,
    mDequeueWaitingForAllocation,             \* of the producer
    mNextCallbackTicket, mCurrentCallbackTicket,
    thread,                      \* where each producer thread is in its call
    owed,                        \* threads about to call onBuffersReleased
    notified,                    \* frame of the last onFrameAvailable/Replaced
    acquiring,                   \* where the consumer is in acquireBuffer
    held,                        \* what the consumer has acquired, a bag
    delivered,                   \* last frame acquired from mQueue
    outside                      \* buffers detached by either client

listVars == <<mFreeSlots, mFreeBuffers, mUnusedSlots, mActiveBuffers>>
limitVars == <<slotCount, mMaxBufferCount, mMaxAcquiredBufferCount,
               mMaxDequeuedBufferCount>>
connectionVars == <<mConnectedApi, mIsAbandoned, mConsumerListener>>
allocationVars == <<mIsAllocating, mDequeueWaitingForAllocation>>
frameVars == <<mFrameCounter, mBufferHasBeenQueued>>
callbackVars == <<mNextCallbackTicket, mCurrentCallbackTicket, notified>>
consumerVars == <<acquiring, held, delivered>>
vars == <<mSlots, mQueue, listVars, mSharedBufferSlot, limitVars, connectionVars,
          mode, frameVars, allocationVars, callbackVars, thread, owed,
          consumerVars, outside>>

-----------------------------------------------------------------------------
INVALID_BUFFER_SLOT == -1
NO_CONNECTED_API == 0

SlotIds == 0 .. MaxSlotCount - 1
Attributes == 1 .. NumAttributes
Buffers == [id : BufferIds, attributes : Attributes, generation : Nat]
MaybeBuffer == Buffers \cup {NoBuffer}

BufferSlots ==
    [mGraphicBuffer : MaybeBuffer, mDequeueCount : Nat, mQueueCount : Nat,
     mAcquireCount : Nat, mShared : BOOLEAN, mRequestBufferCalled : BOOLEAN,
     mFrameNumber : Nat, mAcquireCalled : BOOLEAN, mNeedsReallocation : BOOLEAN]

BufferItems ==
    [mSlot : SlotIds, mFrameNumber : Nat, mGraphicBuffer : MaybeBuffer,
     mAcquireCalled : BOOLEAN, mIsDroppable : BOOLEAN, mIsStale : BOOLEAN,
     mTimestamp : Nat, mIsAutoTimestamp : BOOLEAN]

Modes ==
    [mAsyncMode : BOOLEAN, mDequeueBufferCannotBlock : BOOLEAN,
     mQueueBufferCanDrop : BOOLEAN, mLegacyBufferDrop : BOOLEAN,
     mAllowAllocation : BOOLEAN, mAllowExtendedSlotCount : BOOLEAN,
     mAllowExtraAcquire : BOOLEAN, mConsumerControlledByApp : BOOLEAN,
     mSharedBufferMode : BOOLEAN, mAutoRefresh : BOOLEAN,
     mPresentMode : {"DEFAULT", "FIFO_LATEST_READY"},
     mGenerationNumber : Nat, mDequeueTimeout : Int, mDefault : Attributes]

\* The program counter of a producer thread names the place where it waits or
\* runs without mMutex; the other fields are the locals that survive there.
Locals ==
    [pc : {"idle",
           "dequeue",          \* dequeueBuffer, between its two locked scopes
           "dequeueAlloc",     \* dequeueBuffer, in waitWhileAllocatingLocked
           "wait", "woken",    \* dequeueBuffer, on mDequeueCondition
           "allocating",       \* dequeueBuffer, allocating without the mutex
           "attachAlloc",      \* attachBuffer, in waitWhileAllocatingLocked
           "attachWait", "attachWoken",  \* attachBuffer, on mDequeueCondition
           "detachNextAlloc",  \* detachNextBuffer, in waitWhileAllocatingLocked
           "prealloc",         \* allocateBuffers, at the top of its loop
           "preallocating",    \* allocateBuffers, allocating without the mutex
           "preallocYield",    \* allocateBuffers, letting dequeueBuffer go first
           "callback"},        \* queueBuffer, waiting for its callback ticket
     request : 0 .. NumAttributes,     \* 0 asks for the default
     attributes : 0 .. NumAttributes,  \* what the request was resolved to
     slot : SlotIds \cup {INVALID_BUFFER_SLOT},
     buffer : MaybeBuffer, timed : BOOLEAN, ticket : Nat, frame : Nat]
Threads == {x \in Locals : x.pc = "allocating" => x.slot \in SlotIds /\ x.attributes # 0}

Idle == [pc |-> "idle", request |-> 0, attributes |-> 0,
         slot |-> INVALID_BUFFER_SLOT, buffer |-> NoBuffer, timed |-> FALSE, ticket |-> 0, frame |-> 0]

\* acquireBuffer keeps mMutex over several actions only in its drop loop.
Acquirings == [step : {"none", "drop", "wait"}, expectedPresent : Nat,
               maxFrameNumber : Nat, extra : BOOLEAN]
NotAcquiring == [step |-> "none", expectedPresent |-> 0, maxFrameNumber |-> 0,
                 extra |-> FALSE]
MutexFree == acquiring.step # "drop"

\* What the consumer holds: the slot and frame number it will release with,
\* and the buffer it really reads.
Holdings == [slot : SlotIds, frame : Nat, buffer : MaybeBuffer]

-----------------------------------------------------------------------------
NonBlocking(async, cannotBlock) == IF async \/ cannotBlock THEN 1 ELSE 0
Spare == NonBlocking(mode.mAsyncMode, mode.mDequeueBufferCannotBlock)

Smaller(a, b) == IF a <= b THEN a ELSE b

getTotalSlotCount ==
    IF mode.mAllowExtendedSlotCount THEN mMaxBufferCount ELSE NUM_BUFFER_SLOTS
getMinUndequeuedBufferCount == mMaxAcquiredBufferCount + Spare
getMinMaxBufferCount == getMinUndequeuedBufferCount + 1
maxBufferCountFor(async, cannotBlock, maxBufferCount) ==
    Smaller(maxBufferCount, mMaxAcquiredBufferCount + mMaxDequeuedBufferCount
                            + NonBlocking(async, cannotBlock))
getMaxBufferCount ==
    maxBufferCountFor(mode.mAsyncMode, mode.mDequeueBufferCannotBlock, mMaxBufferCount)

dequeuedCount == Cardinality({s \in mActiveBuffers : isDequeued(mSlots[s])})
acquiredCount == Cardinality({s \in mActiveBuffers : isAcquired(mSlots[s])})

\* Fault: the slots keep their buffers.
clearsAllButBuffers(slots, S) ==
    [s \in SlotIds |-> IF s \in S THEN [ClearedSlot EXCEPT !.mGraphicBuffer = slots[s].mGraphicBuffer]
                       ELSE slots[s]]

\* clearBufferSlotLocked for every slot of S.
clearBufferSlots(slots, S) == [s \in SlotIds |-> IF s \in S THEN ClearedSlot ELSE slots[s]]

\* The first element of std::set<int> mFreeSlots, for a nonempty set.
IsFirst(s, S) == s \in S /\ \A t \in S : s <= t

\* The elements of first come before the other elements of S.
AreFirst(first, S) == \A s \in first, t \in S \ first : s < t

\* Fault: slots that are no longer wanted stay in use.
onlyAddsSlots(delta) ==
    /\ \E new \in SUBSET mUnusedSlots :
         /\ Cardinality(new) = (IF delta > 0 THEN delta ELSE 0)
         /\ mUnusedSlots' = mUnusedSlots \ new
         /\ mFreeSlots' = mFreeSlots \cup new
    /\ UNCHANGED <<mFreeBuffers, mSlots>>

(***************************************************************************)
(* adjustAvailableSlotsLocked when it returns true.  The order of the list *)
(* mUnusedSlots decides only the number of the slot that comes into use,   *)
(* so the list is a set here and any of its slots may be taken.            *)
(***************************************************************************)
adjustAvailableSlots(delta) ==
    \/ /\ delta >= 0
       /\ \E new \in SUBSET mUnusedSlots :
            /\ Cardinality(new) = delta
            /\ mUnusedSlots' = mUnusedSlots \ new
            /\ mFreeSlots' = mFreeSlots \cup new
       /\ UNCHANGED <<mFreeBuffers, mSlots>>
    \/ /\ delta < 0
       /\ \E emptied \in SUBSET mFreeSlots, kept \in 0 .. Len(mFreeBuffers) :
            LET freed == {mFreeBuffers[i] : i \in kept + 1 .. Len(mFreeBuffers)}
            IN /\ AreFirst(emptied, mFreeSlots)
               /\ Cardinality(emptied) + Len(mFreeBuffers) - kept = -delta
               /\ emptied = mFreeSlots \/ kept = Len(mFreeBuffers)
               /\ mFreeSlots' = mFreeSlots \ emptied
               /\ mFreeBuffers' = SubSeq(mFreeBuffers, 1, kept)
               /\ mUnusedSlots' = mUnusedSlots \cup emptied \cup freed
               /\ mSlots' = clearBufferSlots(mSlots, emptied \cup freed)

\* freeAllBuffersLocked, on the slot lists; queued items become stale.
freeAllBuffers ==
    LET all == mFreeSlots \cup Range(mFreeBuffers) \cup mActiveBuffers
    IN /\ mFreeSlots' = all
       /\ mFreeBuffers' = <<>>
       /\ mActiveBuffers' = {}
       /\ mSlots' = clearBufferSlots(mSlots, all)
       /\ UNCHANGED mUnusedSlots

\* Fault: disconnect forgets that queued items are stale.
keepsItemsFresh == [i \in 1 .. Len(mQueue) |-> [mQueue[i] EXCEPT !.mAcquireCalled = FALSE]]

staleQueue == [i \in 1 .. Len(mQueue) |->
                  [mQueue[i] EXCEPT !.mIsStale = TRUE, !.mAcquireCalled = FALSE]]

\* Fault: nobody waits.
doesNotWait == TRUE

\* waitWhileAllocatingLocked is over, or was not needed.
waitWhileAllocating == ~mIsAllocating

\* Fault: the broadcast is missing.
notifiesNobody(threads) == threads

\* notifyBufferReleased: mDequeueCondition.notify_all().
notifyBufferReleased(threads) ==
    [t \in Producers |->
        CASE threads[t].pc = "wait" -> [threads[t] EXCEPT !.pc = "woken"]
          [] threads[t].pc = "attachWait" -> [threads[t] EXCEPT !.pc = "attachWoken"]
          [] OTHER -> threads[t]]

\* Fault: the shared flag is cleared in shared buffer mode too.
unsharesAlways(b) == IF isFree(b) THEN [b EXCEPT !.mShared = FALSE] ELSE b

(***************************************************************************)
(* A reference to slot s was given back by the BufferState transition that *)
(* produced the record b.  The slot stops being shared when that made it   *)
(* free outside shared buffer mode; unless it is still shared it goes to   *)
(* the back of mFreeBuffers.                                               *)
(***************************************************************************)
Unshared(b) == IF ~mode.mSharedBufferMode /\ isFree(b)
               THEN [b EXCEPT !.mShared = FALSE] ELSE b

\* Fault: the slot is not erased from mActiveBuffers.
givesBackKeepingActive(s, b, slots, freeBuffers, activeBuffers) ==
    /\ mSlots' = [slots EXCEPT ![s] = Unshared(b)]
    /\ mFreeBuffers' = IF Unshared(b).mShared THEN freeBuffers ELSE Append(freeBuffers, s)
    /\ mActiveBuffers' = activeBuffers

giveBack(s, b, slots, freeBuffers, activeBuffers) ==
    LET u == Unshared(b)
    IN /\ mSlots' = [slots EXCEPT ![s] = u]
       /\ mFreeBuffers' = IF u.mShared THEN freeBuffers ELSE Append(freeBuffers, s)
       /\ mActiveBuffers' = IF u.mShared THEN activeBuffers ELSE activeBuffers \ {s}

\* A GraphicBuffer is destroyed with its last reference, so a new one may get
\* any identity that nothing refers to.
LiveIds == {b.id : b \in {x \in {mSlots[s].mGraphicBuffer : s \in SlotIds}
                                \cup {mQueue[i].mGraphicBuffer : i \in 1 .. Len(mQueue)}
                                \cup {h.buffer : h \in DOMAIN held}
                                \cup outside.producer \cup outside.consumer : x # NoBuffer}}
FreshIds == BufferIds \ LiveIds

-----------------------------------------------------------------------------
\* Producer thread t is at pc and may take mMutex.
At(t, pc) == thread[t].pc = pc /\ t \notin owed /\ MutexFree

\* The thread's call returns to its caller.
Return(threads, t) == [threads EXCEPT ![t] = Idle]

\* The producer's checks for "abandoned" and "no connected producer".
Connected == ~mIsAbandoned /\ mConnectedApi # NO_CONNECTED_API

\* A client that keeps to the interface uses only slots that dequeueBuffer or
\* attachBuffer has returned to it and that it has not given back.
AllocatingFor(s) == \E t \in Producers : thread[t].pc = "allocating" /\ thread[t].slot = s
ClientHolds(s) == isDequeued(mSlots[s]) /\ ~AllocatingFor(s)

\* After unlocking, thread t calls onBuffersReleased if the consumer listens.
Owes(t, released) ==
    owed' = IF released /\ mConsumerListener /\ "onBuffersReleased" \in Calls
            THEN owed \cup {t} ELSE owed

-----------------------------------------------------------------------------
\* BufferQueueCore::BufferQueueCore.
Init ==
    /\ slotCount = NUM_BUFFER_SLOTS
    /\ mMaxBufferCount = NUM_BUFFER_SLOTS
    /\ mMaxAcquiredBufferCount = 1 /\ mMaxDequeuedBufferCount = 1
    /\ mSlots = [s \in SlotIds |-> NewSlot]
    /\ mFreeSlots = 0 .. 1
    /\ mUnusedSlots = 2 .. NUM_BUFFER_SLOTS - 1
    /\ mFreeBuffers = <<>> /\ mActiveBuffers = {} /\ mQueue = <<>>
    /\ mSharedBufferSlot = INVALID_BUFFER_SLOT
    /\ mConnectedApi = NO_CONNECTED_API /\ mIsAbandoned = FALSE
    /\ mConsumerListener = FALSE
    /\ mode = [mAsyncMode |-> FALSE, mDequeueBufferCannotBlock |-> FALSE,
               mQueueBufferCanDrop |-> FALSE, mLegacyBufferDrop |-> TRUE,
               mAllowAllocation |-> TRUE, mAllowExtendedSlotCount |-> FALSE,
               mAllowExtraAcquire |-> FALSE, mConsumerControlledByApp |-> FALSE,
               mSharedBufferMode |-> FALSE, mAutoRefresh |-> FALSE,
               mPresentMode |-> "DEFAULT", mGenerationNumber |-> 0,
               mDequeueTimeout |-> -1, mDefault |-> 1]
    /\ mBufferHasBeenQueued = FALSE /\ mFrameCounter = 0
    /\ mIsAllocating = FALSE /\ mDequeueWaitingForAllocation = FALSE
    /\ mNextCallbackTicket = 0 /\ mCurrentCallbackTicket = 0 /\ notified = 0
    /\ thread = [t \in Producers |-> Idle] /\ owed = {}
    /\ acquiring = NotAcquiring /\ held = <<>> /\ delivered = 0
    /\ outside = [producer |-> {}, consumer |-> {}]
=============================================================================
