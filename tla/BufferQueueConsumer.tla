------------------------- MODULE BufferQueueConsumer -------------------------
(***************************************************************************)
(* The operations of BufferQueueConsumer (libs/gui/BufferQueueConsumer.cpp)*)
(* called by one consumer.  acquireBuffer holds mMutex over its drop loop, *)
(* which takes one step per dropped item; no other step uses the mutex     *)
(* meanwhile.                                                              *)
(***************************************************************************)
EXTENDS BufferQueueCore

notQueue == <<limitVars, connectionVars, mode, frameVars, allocationVars, callbackVars,
              owed, outside>>

\* What the consumer holds after it got h, or gave one copy of h back.
With(h) == [x \in DOMAIN held \cup {h} |->
               (IF x = h THEN 1 ELSE 0) + (IF x \in DOMAIN held THEN held[x] ELSE 0)]
Without(h) == [x \in {y \in DOMAIN held : y # h \/ held[y] > 1} |->
                  IF x = h THEN held[x] - 1 ELSE held[x]]

\* The consumer makes a new call.
Calling == MutexFree /\ acquiring = NotAcquiring

-----------------------------------------------------------------------------
(* acquireBuffer.                                                          *)

\* mAllowExtraAcquire: one more item may be acquired, if it is not droppable.
acquireNonDroppableBuffer ==
    mode.mAllowExtraAcquire /\ acquiredCount = mMaxAcquiredBufferCount + 1

\* Fault: the limit is off by two.
mayAcquireTooLittle == acquiredCount + 1 < mMaxAcquiredBufferCount

MayAcquire == acquiredCount < mMaxAcquiredBufferCount + 1 \/ acquireNonDroppableBuffer
forceDrop == mode.mPresentMode = "FIFO_LATEST_READY"
sharedBufferAvailable ==
    /\ mode.mSharedBufferMode /\ mode.mAutoRefresh
    /\ mSharedBufferSlot # INVALID_BUFFER_SLOT

\* Fault: the consumer is given the number of the newest frame.
takesFrontAsNewest ==
    LET s == Head(mQueue).mSlot
    IN /\ mSlots' = IF Head(mQueue).mIsStale THEN mSlots
                    ELSE [mSlots EXCEPT ![s] = acquire([@ EXCEPT !.mAcquireCalled = TRUE])]
       /\ mQueue' = Tail(mQueue)
       /\ held' = With([slot |-> s, frame |-> mFrameCounter,
                        buffer |-> Head(mQueue).mGraphicBuffer])
       /\ delivered' = mFrameCounter
       /\ thread' = notifyBufferReleased(thread)

\* The front item leaves mQueue and the consumer gets it.
TakesFront ==
    LET front == Head(mQueue)
        s == front.mSlot
    IN /\ mSlots' = IF front.mIsStale THEN mSlots
                    ELSE [mSlots EXCEPT ![s] = acquire([@ EXCEPT !.mAcquireCalled = TRUE])]
       /\ mQueue' = Tail(mQueue)
       /\ held' = With([slot |-> s, frame |-> front.mFrameNumber,
                        buffer |-> front.mGraphicBuffer])
       /\ delivered' = front.mFrameNumber
       /\ thread' = notifyBufferReleased(thread)

\* Without an expectedPresent the front item is acquired at once.
acquireBuffer(expectedPresent) ==
    /\ Calling
    /\ MayAcquire /\ mQueue # <<>>
    /\ expectedPresent = 0 /\ ~forceDrop
    /\ ~(acquireNonDroppableBuffer /\ Head(mQueue).mIsDroppable)
    /\ TakesFront
    /\ UNCHANGED <<listVars, mSharedBufferSlot, acquiring, notQueue>>

\* With one, or in FIFO_LATEST_READY mode, items may be dropped first.
acquireStartsDropping(expectedPresent, maxFrameNumber) ==
    /\ Calling
    /\ MayAcquire /\ mQueue # <<>>
    /\ expectedPresent # 0 \/ forceDrop
    /\ acquiring' = [step |-> "drop", expectedPresent |-> expectedPresent,
                     maxFrameNumber |-> maxFrameNumber, extra |-> acquireNonDroppableBuffer]
    /\ UNCHANGED <<mSlots, mQueue, listVars, mSharedBufferSlot, thread, held, delivered, notQueue>>

\* Dropping the front would leave an item that is ready and timely.
NextIsTimely(next, expectedPresent, maxFrameNumber) ==
    /\ maxFrameNumber = 0 \/ next.mFrameNumber <= maxFrameNumber
    /\ expectedPresent - MAX_REASONABLE_NSEC <= next.mTimestamp
    /\ next.mTimestamp <= expectedPresent

\* Fault: the last item may be dropped.
dropsLast == mQueue # <<>> /\ forceDrop

DropsFront ==
    /\ Len(mQueue) > 1
    /\ \/ forceDrop
       \/ /\ ~mQueue[1].mIsAutoTimestamp
          /\ NextIsTimely(mQueue[2], acquiring.expectedPresent, acquiring.maxFrameNumber)

acquireDropsFront ==
    LET front == Head(mQueue)
    IN /\ acquiring.step = "drop"
       /\ DropsFront
       /\ IF front.mIsStale THEN UNCHANGED <<mSlots, mFreeBuffers, mActiveBuffers>>
          ELSE giveBack(front.mSlot, freeQueued(mSlots[front.mSlot]), mSlots,
                        mFreeBuffers, mActiveBuffers)
       /\ mQueue' = Tail(mQueue)
       /\ UNCHANGED <<mFreeSlots, mUnusedSlots, mSharedBufferSlot, thread, consumerVars, notQueue>>

\* The front item is due and the consumer is ready for it.
FrontIsDue(front) ==
    /\ \/ front.mTimestamp <= acquiring.expectedPresent
       \/ front.mTimestamp > acquiring.expectedPresent + MAX_REASONABLE_NSEC
    /\ acquiring.maxFrameNumber > 0 => front.mFrameNumber <= acquiring.maxFrameNumber
    /\ ~(acquiring.extra /\ front.mIsDroppable)

acquireAfterDropping ==
    /\ acquiring.step = "drop" /\ ~DropsFront
    /\ FrontIsDue(Head(mQueue))
    /\ TakesFront
    /\ acquiring' = NotAcquiring
    /\ UNCHANGED <<listVars, mSharedBufferSlot, notQueue>>

\* PRESENT_LATER or NO_BUFFER_AVAILABLE: the call returns and notifies nobody.
acquireReturnsLater ==
    /\ acquiring.step = "drop" /\ ~DropsFront
    /\ ~FrontIsDue(Head(mQueue))
    /\ acquiring' = NotAcquiring
    /\ UNCHANGED <<mSlots, mQueue, listVars, mSharedBufferSlot, thread, held, delivered, notQueue>>

\* In shared buffer mode with auto refresh and nothing queued, the shared
\* buffer is acquired again, after a wait if a buffer is being allocated.
acquireWaitsWhileAllocating ==
    /\ Calling
    /\ MayAcquire /\ mQueue = <<>> /\ sharedBufferAvailable
    /\ mIsAllocating
    /\ acquiring' = [NotAcquiring EXCEPT !.step = "wait"]
    /\ UNCHANGED <<mSlots, mQueue, listVars, mSharedBufferSlot, thread, held, delivered, notQueue>>

\* After a wait mQueue may have items, and the iterator that erase() is given
\* was taken while it was empty: the front item may or may not be erased.  An
\* invalid mSharedBufferSlot is used as an index; nothing is modelled then.
acquireSharedBuffer ==
    LET s == mSharedBufferSlot
        b == [mSlots[s] EXCEPT !.mAcquireCalled = TRUE]
    IN /\ \/ Calling /\ MayAcquire /\ mQueue = <<>> /\ sharedBufferAvailable
          \/ acquiring.step = "wait" /\ MutexFree
       /\ waitWhileAllocating
       /\ s # INVALID_BUFFER_SLOT
       /\ mSlots[s].mAcquireCount < MaxShares
       /\ mSlots' = [mSlots EXCEPT ![s] = IF mQueue = <<>> THEN acquireNotInQueue(b)
                                          ELSE acquire(b)]
       /\ \/ mQueue' = mQueue
          \/ mQueue # <<>> /\ mQueue' = Tail(mQueue)
       /\ held' = With([slot |-> s, frame |-> mFrameCounter,
                        buffer |-> mSlots[s].mGraphicBuffer])
       /\ acquiring' = NotAcquiring
       /\ thread' = notifyBufferReleased(thread)
       /\ UNCHANGED <<listVars, mSharedBufferSlot, delivered, notQueue>>

-----------------------------------------------------------------------------
(* releaseBuffer, detachBuffer, attachBuffer.                              *)

\* The frame number tells a buffer that was reallocated since from the one
\* the consumer holds, except for the shared buffer.
IsStaleRelease(h) ==
    h.frame # mSlots[h.slot].mFrameNumber /\ ~mSlots[h.slot].mShared

\* STALE_BUFFER_SLOT or BAD_VALUE: the consumer only forgets the buffer.
releaseIsRefused(h) ==
    /\ Calling
    /\ \/ h.slot >= getTotalSlotCount
       \/ IsStaleRelease(h)
       \/ ~isAcquired(mSlots[h.slot])
    /\ held' = Without(h)
    /\ UNCHANGED <<mSlots, mQueue, listVars, mSharedBufferSlot, thread, acquiring, delivered,
                   notQueue>>

releaseBuffer(h) ==
    /\ Calling
    /\ h.slot < getTotalSlotCount
    /\ ~IsStaleRelease(h)
    /\ isAcquired(mSlots[h.slot])
    /\ giveBack(h.slot, release(mSlots[h.slot]), mSlots, mFreeBuffers, mActiveBuffers)
    /\ held' = Without(h)
    /\ thread' = notifyBufferReleased(thread)
    /\ UNCHANGED <<mQueue, mFreeSlots, mUnusedSlots, mSharedBufferSlot, acquiring, delivered,
                   notQueue>>

\* The consumer names a slot, so it must hold only one buffer from it.
detachAcquired(h) ==
    /\ Calling
    /\ held[h] = 1 /\ \A g \in DOMAIN held : g.slot = h.slot => g = h
    /\ ~mIsAbandoned
    /\ ~mode.mSharedBufferMode /\ h.slot # mSharedBufferSlot
    /\ h.slot < getTotalSlotCount /\ isAcquired(mSlots[h.slot])
    /\ mActiveBuffers' = mActiveBuffers \ {h.slot}
    /\ mFreeSlots' = mFreeSlots \cup {h.slot}
    /\ mSlots' = clearBufferSlots(mSlots, {h.slot})
    /\ held' = Without(h)
    /\ outside' = [outside EXCEPT !.consumer = @ \cup ({h.buffer} \ {NoBuffer})]
    /\ thread' = notifyBufferReleased(thread)
    /\ UNCHANGED <<mQueue, mFreeBuffers, mUnusedSlots, mSharedBufferSlot, limitVars,
                   connectionVars, mode, frameVars, allocationVars, callbackVars, owed,
                   acquiring, delivered>>

attachAcquired(b) ==
    \E found \in SlotIds :
        /\ Calling
        /\ ~mode.mSharedBufferMode
        /\ acquiredCount < mMaxAcquiredBufferCount + 1
        /\ b.generation = mode.mGenerationNumber
        /\ \/ /\ IsFirst(found, mFreeSlots)
              /\ mFreeSlots' = mFreeSlots \ {found}
              /\ UNCHANGED mFreeBuffers
           \/ /\ mFreeSlots = {} /\ mFreeBuffers # <<>>
              /\ found = Head(mFreeBuffers)
              /\ mFreeBuffers' = Tail(mFreeBuffers)
              /\ UNCHANGED mFreeSlots
        /\ mActiveBuffers' = mActiveBuffers \cup {found}
        /\ mSlots' = [mSlots EXCEPT ![found] =
                         acquireNotInQueue([@ EXCEPT !.mGraphicBuffer = b,
                                                     !.mNeedsReallocation = TRUE,
                                                     !.mFrameNumber = 0,
                                                     !.mAcquireCalled = FALSE])]
        /\ held' = With([slot |-> found, frame |-> 0, buffer |-> b])
        /\ outside' = [outside EXCEPT !.consumer = @ \ {b}]
        /\ UNCHANGED <<mQueue, mUnusedSlots, mSharedBufferSlot, limitVars, connectionVars, mode,
                       frameVars, allocationVars, callbackVars, owed, thread, acquiring,
                       delivered>>

-----------------------------------------------------------------------------
(* connect, disconnect and the operations that change limits and modes.    *)

consumerConnect(controlledByApp) ==
    /\ Calling /\ ~mIsAbandoned
    /\ mConsumerListener' = TRUE
    /\ mode' = [mode EXCEPT !.mConsumerControlledByApp = controlledByApp]
    /\ UNCHANGED <<mSlots, mQueue, listVars, mSharedBufferSlot, limitVars, mConnectedApi,
                   mIsAbandoned, frameVars, allocationVars, callbackVars, thread, owed,
                   consumerVars, outside>>

\* The queue is abandoned; the producer only finds out on its next call.
consumerDisconnect ==
    /\ Calling /\ mConsumerListener
    /\ mIsAbandoned' = TRUE /\ mConsumerListener' = FALSE
    /\ mQueue' = <<>>
    /\ freeAllBuffers
    /\ mSharedBufferSlot' = INVALID_BUFFER_SLOT
    /\ thread' = notifyBufferReleased(thread)
    /\ UNCHANGED <<limitVars, mConnectedApi, mode, frameVars, allocationVars, callbackVars,
                   owed, consumerVars, outside>>

setMaxBufferCount(bufferCount) ==
    /\ Calling
    /\ 1 <= bufferCount /\ bufferCount <= NUM_BUFFER_SLOTS
    /\ mConnectedApi = NO_CONNECTED_API
    /\ mMaxAcquiredBufferCount <= bufferCount
    /\ adjustAvailableSlots(maxBufferCountFor(mode.mAsyncMode, mode.mDequeueBufferCannotBlock,
                                              bufferCount) - getMaxBufferCount)
    /\ mMaxBufferCount' = bufferCount
    /\ UNCHANGED <<mQueue, mActiveBuffers, mSharedBufferSlot, slotCount, mMaxAcquiredBufferCount,
                   mMaxDequeuedBufferCount, connectionVars, mode, frameVars, allocationVars,
                   callbackVars, thread, owed, consumerVars, outside>>

\* The producer's limit does not change and nobody is notified.
setMaxAcquiredBufferCount(n) ==
    /\ Calling
    /\ 1 <= n /\ n <= getTotalSlotCount - 2
    /\ waitWhileAllocating
    /\ ~mIsAbandoned
    /\ n # mMaxAcquiredBufferCount
    /\ acquiredCount <= n
    /\ n + mMaxDequeuedBufferCount + Spare <= mMaxBufferCount
    /\ adjustAvailableSlots(n - mMaxAcquiredBufferCount)
    /\ mMaxAcquiredBufferCount' = n
    /\ UNCHANGED <<mQueue, mActiveBuffers, mSharedBufferSlot, slotCount, mMaxBufferCount,
                   mMaxDequeuedBufferCount, connectionVars, mode, frameVars, allocationVars,
                   callbackVars, thread, owed, consumerVars, outside>>

notConfig == <<mSlots, mQueue, listVars, mSharedBufferSlot, limitVars, connectionVars, frameVars,
               allocationVars, callbackVars, thread, owed, consumerVars, outside>>

allowUnlimitedSlots(allow) ==
    /\ Calling /\ ~mIsAbandoned
    /\ mConnectedApi = NO_CONNECTED_API
    /\ mode' = [mode EXCEPT !.mAllowExtendedSlotCount = allow]
    /\ UNCHANGED notConfig

\* setDefaultBufferSize, setDefaultBufferFormat and setConsumerUsageBits.
setDefaultBufferSize(attributes) ==
    /\ Calling
    /\ mode' = [mode EXCEPT !.mDefault = attributes]
    /\ UNCHANGED notConfig

setAllowExtraAcquire(allow) ==
    /\ Calling
    /\ mode' = [mode EXCEPT !.mAllowExtraAcquire = allow]
    /\ UNCHANGED notConfig

discardFreeBuffers ==
    /\ Calling
    /\ mFreeBuffers # <<>>
    /\ mFreeSlots' = mFreeSlots \cup Range(mFreeBuffers)
    /\ mSlots' = clearBufferSlots(mSlots, Range(mFreeBuffers))
    /\ mFreeBuffers' = <<>>
    /\ UNCHANGED <<mQueue, mUnusedSlots, mActiveBuffers, mSharedBufferSlot, thread, consumerVars,
                   notQueue>>
=============================================================================
