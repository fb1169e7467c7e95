------------------------- MODULE BufferQueueProducer -------------------------
(***************************************************************************)
(* The operations of BufferQueueProducer (libs/gui/BufferQueueProducer.cpp)*)
(* as steps of producer threads.  A call that returns an error without     *)
(* having changed anything is no step.                                     *)
(***************************************************************************)
EXTENDS BufferQueueCore

notSlots == <<mQueue, limitVars, connectionVars, mode, frameVars, callbackVars,
              consumerVars>>

-----------------------------------------------------------------------------
(* waitForFreeSlotThenRelock: what one pass of its loop finds.             *)

OverDequeueLimit ==
    mBufferHasBeenQueued /\ dequeuedCount >= mMaxDequeuedBufferCount
TooManyBuffers == Len(mQueue) > getMaxBufferCount
SharedSlotExists == mode.mSharedBufferMode /\ mSharedBufferSlot # INVALID_BUFFER_SLOT

\* In non-blocking mode the caller gets WOULD_BLOCK instead of waiting, unless
\* the consumer briefly holds its one extra buffer.
MayNotBlock ==
    /\ mode.mDequeueBufferCannotBlock \/ mode.mAsyncMode
    /\ acquiredCount <= mMaxAcquiredBufferCount

\* The thread sleeps on mDequeueCondition, or returns WOULD_BLOCK.
waitForBufferRelease(t, local, sleeping) ==
    thread' = [thread EXCEPT ![t] =
                  IF MayNotBlock THEN Idle
                  ELSE [local EXCEPT !.pc = sleeping, !.timed = mode.mDequeueTimeout >= 0]]

\* wait_for() runs into the timeout and the call returns TIMED_OUT.
dequeueTimesOut(t) ==
    /\ At(t, "wait") \/ At(t, "attachWait")
    /\ thread[t].timed
    /\ thread' = Return(thread, t)
    /\ UNCHANGED <<mSlots, listVars, mSharedBufferSlot, allocationVars, notSlots, owed, outside>>

\* The condition variable may wake up without a notification.
wakesSpuriously(t) ==
    /\ At(t, "wait") \/ At(t, "attachWait")
    /\ thread' = [thread EXCEPT ![t] = notifyBufferReleased(thread)[t]]
    /\ UNCHANGED <<mSlots, listVars, mSharedBufferSlot, allocationVars, notSlots, owed, outside>>

-----------------------------------------------------------------------------
(* dequeueBuffer.                                                          *)

\* The first locked scope, which is the only check that anybody is connected.
dequeueBuffer(t, request) ==
    /\ At(t, "idle")
    /\ Connected
    /\ thread' = [thread EXCEPT ![t] = [@ EXCEPT !.pc = "dequeue", !.request = request]]
    /\ UNCHANGED <<mSlots, listVars, mSharedBufferSlot, allocationVars, notSlots, owed, outside>>

\* The second locked scope starts by waiting for a running allocation when
\* there is no free buffer.
dequeueWaitsWhileAllocating(t) ==
    /\ At(t, "dequeue")
    /\ mFreeBuffers = <<>> /\ mIsAllocating
    /\ thread' = [thread EXCEPT ![t].pc = "dequeueAlloc"]
    /\ mDequeueWaitingForAllocation' = TRUE
    /\ UNCHANGED <<mSlots, listVars, mSharedBufferSlot, mIsAllocating, notSlots, owed, outside>>

\* Fault: the waiting flag stays set.
staysWaiting(t) ==
    /\ \/ At(t, "dequeue") /\ ~(mFreeBuffers = <<>> /\ mIsAllocating)
       \/ At(t, "dequeueAlloc") /\ ~mIsAllocating
       \/ At(t, "woken")
    /\ UNCHANGED mDequeueWaitingForAllocation

\* Thread t looks for a slot: it gets past that wait, or it was woken up.
InDequeue(t) ==
    /\ \/ At(t, "dequeue") /\ ~(mFreeBuffers = <<>> /\ mIsAllocating)
       \/ At(t, "dequeueAlloc") /\ waitWhileAllocating
       \/ At(t, "woken")
    /\ mDequeueWaitingForAllocation' =
          (mDequeueWaitingForAllocation /\ thread[t].pc # "dequeueAlloc")

Resolve(request) == IF request = 0 THEN mode.mDefault ELSE request
Wanted(t) == IF thread[t].attributes = 0 THEN Resolve(thread[t].request)
             ELSE thread[t].attributes
needsReallocation(s, attributes) ==
    ~(/\ mSlots[s].mGraphicBuffer # NoBuffer
      /\ mSlots[s].mGraphicBuffer.attributes = attributes)

\* Without mAllowAllocation, the first k free buffers are discarded because
\* they do not have the requested attributes.
Discards(k, attributes) ==
    IF mode.mAllowAllocation \/ TooManyBuffers \/ SharedSlotExists THEN k = 0
    ELSE /\ \A i \in 1 .. k : needsReallocation(mFreeBuffers[i], attributes)
         /\ k < Len(mFreeBuffers) => ~needsReallocation(mFreeBuffers[k + 1], attributes)
Discarded(k) == {mFreeBuffers[i] : i \in 1 .. k}

dequeueReturnsError(t) ==
    /\ InDequeue(t)
    /\ \/ mIsAbandoned
       \/ OverDequeueLimit
       \/ /\ SharedSlotExists /\ ~TooManyBuffers
          /\ needsReallocation(mSharedBufferSlot, Wanted(t))
    /\ thread' = Return(thread, t)
    /\ UNCHANGED <<mSlots, listVars, mSharedBufferSlot, mIsAllocating, notSlots, owed, outside>>

dequeueFindsNothing(t) ==
    /\ InDequeue(t)
    /\ ~mIsAbandoned /\ ~OverDequeueLimit
    /\ \E k \in 0 .. Len(mFreeBuffers) :
         /\ Discards(k, Wanted(t))
         /\ \/ TooManyBuffers
            \/ /\ ~SharedSlotExists /\ k = Len(mFreeBuffers)
               /\ mode.mAllowAllocation => mFreeSlots = {}
         /\ mFreeBuffers' = SubSeq(mFreeBuffers, k + 1, Len(mFreeBuffers))
         /\ mFreeSlots' = mFreeSlots \cup Discarded(k)
         /\ mSlots' = clearBufferSlots(mSlots, Discarded(k))
    /\ waitForBufferRelease(t, [thread[t] EXCEPT !.attributes = Wanted(t)], "wait")
    /\ UNCHANGED <<mUnusedSlots, mActiveBuffers, mSharedBufferSlot, mIsAllocating,
                   notSlots, owed, outside>>

\* The first buffer dequeued in shared buffer mode becomes the shared one.
BecomesShared == mode.mSharedBufferMode /\ mSharedBufferSlot = INVALID_BUFFER_SLOT
ShareSlot(s) == mSharedBufferSlot' = IF BecomesShared THEN s ELSE mSharedBufferSlot
Shared(slot) == IF BecomesShared THEN [slot EXCEPT !.mShared = TRUE] ELSE slot

\* waitForFreeSlotThenRelock(Dequeue) returns the slot found after k discards.
waitForFreeSlotDequeue(found, k) ==
    \/ /\ SharedSlotExists /\ found = mSharedBufferSlot
       /\ UNCHANGED <<mFreeSlots, mFreeBuffers>>
    \/ /\ ~SharedSlotExists /\ k < Len(mFreeBuffers) /\ found = mFreeBuffers[k + 1]
       /\ mFreeBuffers' = SubSeq(mFreeBuffers, k + 2, Len(mFreeBuffers))
       /\ mFreeSlots' = mFreeSlots \cup Discarded(k)
    \/ /\ ~SharedSlotExists /\ mFreeBuffers = <<>>
       /\ mode.mAllowAllocation /\ IsFirst(found, mFreeSlots)
       /\ mFreeSlots' = mFreeSlots \ {found}
       /\ UNCHANGED mFreeBuffers

dequeueFinds(t, found, k) ==
    /\ InDequeue(t)
    /\ ~mIsAbandoned /\ ~OverDequeueLimit /\ ~TooManyBuffers
    /\ Discards(k, Wanted(t))
    /\ waitForFreeSlotDequeue(found, k)
    /\ mActiveBuffers' = mActiveBuffers \cup ({found} \ {mSharedBufferSlot})
    /\ ShareSlot(found)
    /\ UNCHANGED <<mUnusedSlots, notSlots, outside>>

dequeueReusesBuffer(t) ==
    \E found \in SlotIds, k \in 0 .. Len(mFreeBuffers) :
        /\ dequeueFinds(t, found, k)
        /\ ~needsReallocation(found, Wanted(t))
        /\ SharedSlotExists => mSlots[found].mDequeueCount < MaxShares
        /\ mSlots' = [clearBufferSlots(mSlots, Discarded(k)) EXCEPT ![found] =
                         Shared(dequeue([@ EXCEPT !.mNeedsReallocation = FALSE]))]
        /\ thread' = Return(thread, t)
        /\ UNCHANGED <<mIsAllocating, owed>>

dequeueReallocates(t) ==
    \E found \in SlotIds :
        /\ dequeueFinds(t, found, 0)
        /\ needsReallocation(found, Wanted(t)) /\ mSharedBufferSlot # found
        /\ mSlots' = [mSlots EXCEPT ![found] =
                         Shared(dequeue([@ EXCEPT !.mNeedsReallocation = FALSE,
                                                  !.mAcquireCalled = FALSE,
                                                  !.mGraphicBuffer = NoBuffer,
                                                  !.mRequestBufferCalled = FALSE]))]
        /\ thread' = [thread EXCEPT ![t] = [Idle EXCEPT !.pc = "allocating", !.slot = found,
                                                        !.attributes = Wanted(t)]]
        /\ mIsAllocating' = TRUE
        /\ Owes(t, mSlots[found].mGraphicBuffer # NoBuffer)

\* The GraphicBuffer was created without the mutex; now it is put in its slot.
dequeueFinishesAllocation(t, ok) ==
    LET s == thread[t].slot
    IN /\ At(t, "allocating")
       /\ \/ /\ ok /\ ~mIsAbandoned
             /\ \E id \in FreshIds :
                  mSlots' = [mSlots EXCEPT ![s].mGraphicBuffer =
                                [id |-> id, attributes |-> thread[t].attributes,
                                 generation |-> mode.mGenerationNumber]]
             /\ UNCHANGED mFreeSlots
          \/ /\ ~ok \/ mIsAbandoned
             /\ mFreeSlots' = mFreeSlots \cup {s}
             /\ mSlots' = clearBufferSlots(mSlots, {s})
       /\ mIsAllocating' = FALSE
       /\ thread' = Return(thread, t)
       /\ UNCHANGED <<mFreeBuffers, mUnusedSlots, mActiveBuffers, mSharedBufferSlot,
                      mDequeueWaitingForAllocation, notSlots, owed, outside>>

-----------------------------------------------------------------------------
(* requestBuffer, detachBuffer, detachNextBuffer, attachBuffer.            *)

requestBuffer(t, s) ==
    /\ At(t, "idle") /\ ClientHolds(s)
    /\ Connected /\ s < getTotalSlotCount
    /\ mSlots' = [mSlots EXCEPT ![s].mRequestBufferCalled = TRUE]
    /\ UNCHANGED <<listVars, mSharedBufferSlot, allocationVars, notSlots, thread, owed, outside>>

detachBuffer(t, s) ==
    /\ At(t, "idle") /\ ClientHolds(s)
    /\ Connected /\ s < getTotalSlotCount
    /\ ~mode.mSharedBufferMode /\ mSharedBufferSlot # s
    /\ mSlots[s].mRequestBufferCalled
    /\ outside' = [outside EXCEPT !.producer = @ \cup ({mSlots[s].mGraphicBuffer} \ {NoBuffer})]
    /\ mActiveBuffers' = mActiveBuffers \ {s}
    /\ mFreeSlots' = mFreeSlots \cup {s}
    /\ mSlots' = clearBufferSlots(mSlots, {s})
    /\ thread' = notifyBufferReleased(thread)
    /\ Owes(t, TRUE)
    /\ UNCHANGED <<mFreeBuffers, mUnusedSlots, mSharedBufferSlot, allocationVars, notSlots>>

\* The checks of detachNextBuffer and attachBuffer come before they wait for a
\* running allocation and are not repeated after it.
detachNextWaitsWhileAllocating(t) ==
    /\ At(t, "idle") /\ Connected /\ ~mode.mSharedBufferMode
    /\ mIsAllocating
    /\ thread' = [thread EXCEPT ![t].pc = "detachNextAlloc"]
    /\ UNCHANGED <<mSlots, listVars, mSharedBufferSlot, allocationVars, notSlots, owed, outside>>

detachNextBuffer(t) ==
    /\ \/ At(t, "idle") /\ Connected /\ ~mode.mSharedBufferMode
       \/ At(t, "detachNextAlloc")
    /\ waitWhileAllocating
    /\ thread' = Return(thread, t)
    /\ \/ /\ mFreeBuffers = <<>>
          /\ UNCHANGED <<mSlots, mFreeBuffers, mFreeSlots, owed, outside>>
       \/ /\ mFreeBuffers # <<>>
          /\ mFreeBuffers' = Tail(mFreeBuffers)
          /\ mFreeSlots' = mFreeSlots \cup {Head(mFreeBuffers)}
          /\ outside' = [outside EXCEPT !.producer =
                             @ \cup ({mSlots[Head(mFreeBuffers)].mGraphicBuffer} \ {NoBuffer})]
          /\ mSlots' = clearBufferSlots(mSlots, {Head(mFreeBuffers)})
          /\ Owes(t, TRUE)
    /\ UNCHANGED <<mUnusedSlots, mActiveBuffers, mSharedBufferSlot, allocationVars, notSlots>>

\* Thread t calls attachBuffer with a buffer that no other call is attaching.
CallsAttach(t, b) ==
    /\ At(t, "idle") /\ Connected /\ ~mode.mSharedBufferMode
    /\ \A u \in Producers : thread[u].buffer # b
    /\ b.generation = mode.mGenerationNumber

attachWaitsWhileAllocating(t, b) ==
    /\ CallsAttach(t, b) /\ mIsAllocating
    /\ thread' = [thread EXCEPT ![t] = [@ EXCEPT !.pc = "attachAlloc", !.buffer = b]]
    /\ UNCHANGED <<mSlots, listVars, mSharedBufferSlot, allocationVars, notSlots, owed, outside>>

InAttach(t, b) ==
    \/ CallsAttach(t, b) /\ waitWhileAllocating
    \/ At(t, "attachAlloc") /\ waitWhileAllocating /\ thread[t].buffer = b
    \/ At(t, "attachWoken") /\ thread[t].buffer = b

attachReturnsError(t, b) ==
    /\ InAttach(t, b)
    /\ mIsAbandoned \/ OverDequeueLimit
    /\ thread' = Return(thread, t)
    /\ UNCHANGED <<mSlots, listVars, mSharedBufferSlot, allocationVars, notSlots, owed, outside>>

attachFindsNothing(t, b) ==
    /\ InAttach(t, b)
    /\ ~mIsAbandoned /\ ~OverDequeueLimit
    /\ TooManyBuffers \/ (~SharedSlotExists /\ mFreeSlots = {} /\ mFreeBuffers = <<>>)
    /\ waitForBufferRelease(t, [Idle EXCEPT !.buffer = b], "attachWait")
    /\ UNCHANGED <<mSlots, listVars, mSharedBufferSlot, allocationVars, notSlots, owed, outside>>

\* Fault: a free slot is used but stays in mFreeSlots.
attachesKeepingFree(found) ==
    ~SharedSlotExists /\ IsFirst(found, mFreeSlots) /\ UNCHANGED <<mFreeSlots, mFreeBuffers>>

\* waitForFreeSlotThenRelock(Attach) prefers free slots to free buffers.
waitForFreeSlotAttach(found) ==
    \/ /\ SharedSlotExists /\ found = mSharedBufferSlot
       /\ UNCHANGED <<mFreeSlots, mFreeBuffers>>
    \/ /\ ~SharedSlotExists /\ IsFirst(found, mFreeSlots)
       /\ mFreeSlots' = mFreeSlots \ {found}
       /\ UNCHANGED mFreeBuffers
    \/ /\ ~SharedSlotExists /\ mFreeSlots = {}
       /\ mFreeBuffers # <<>> /\ found = Head(mFreeBuffers)
       /\ mFreeBuffers' = Tail(mFreeBuffers)
       /\ UNCHANGED mFreeSlots

attachBuffer(t, b) ==
    \E found \in SlotIds :
        /\ InAttach(t, b)
        /\ ~mIsAbandoned /\ ~OverDequeueLimit /\ ~TooManyBuffers
        /\ waitForFreeSlotAttach(found)
        /\ SharedSlotExists => mSlots[found].mDequeueCount < MaxShares
        /\ mSlots' = [mSlots EXCEPT ![found] =
                         dequeue([@ EXCEPT !.mGraphicBuffer = b, !.mRequestBufferCalled = TRUE,
                                           !.mAcquireCalled = FALSE,
                                           !.mNeedsReallocation = FALSE])]
        /\ mActiveBuffers' = mActiveBuffers \cup {found}
        /\ outside' = [outside EXCEPT !.producer = @ \ {b}]
        /\ thread' = Return(thread, t)
        /\ UNCHANGED <<mUnusedSlots, mSharedBufferSlot, allocationVars, notSlots, owed>>

-----------------------------------------------------------------------------
(* queueBuffer and cancelBuffer.                                           *)

\* Fault: mQueueBufferCanDrop is not asked for.
dropsWithoutAsking(sharedSlot, s) ==
    mode.mAsyncMode \/ ConsumerIsSurfaceFlinger \/ mode.mLegacyBufferDrop

IsDroppable(sharedSlot, s) ==
    \/ mode.mAsyncMode
    \/ (ConsumerIsSurfaceFlinger \/ mode.mLegacyBufferDrop) /\ mode.mQueueBufferCanDrop
    \/ mode.mSharedBufferMode /\ sharedSlot = s

\* The queued item: frame f in slot s, whose record is b.
NewItem(s, b, f, timestamp, auto, droppable) ==
    [mSlot |-> s, mFrameNumber |-> f, mGraphicBuffer |-> b.mGraphicBuffer,
     mAcquireCalled |-> b.mAcquireCalled, mIsDroppable |-> droppable, mIsStale |-> FALSE,
     mTimestamp |-> timestamp, mIsAutoTimestamp |-> auto]

\* The last item of mQueue, when it is to be overwritten by the new one.
Replaces == mQueue # <<>> /\ mQueue[Len(mQueue)].mIsDroppable
LastItem == mQueue[Len(mQueue)]

queueBuffer(t, s, timestamp, auto) ==
    LET frame == mFrameCounter + 1
        queued == queue([Shared(mSlots[s]) EXCEPT !.mFrameNumber = frame])
        slots == [mSlots EXCEPT ![s] = queued]
        item == NewItem(s, mSlots[s], frame, timestamp, auto,
                        IsDroppable(IF BecomesShared THEN s ELSE mSharedBufferSlot, s))
    IN /\ At(t, "idle") /\ ClientHolds(s)
       /\ mFrameCounter < MaxFrames
       /\ Connected /\ s < getTotalSlotCount
       /\ mSlots[s].mRequestBufferCalled
       /\ ShareSlot(s)
       /\ mFrameCounter' = frame
       /\ mQueue' = IF Replaces THEN [mQueue EXCEPT ![Len(mQueue)] = item]
                    ELSE Append(mQueue, item)
       /\ IF Replaces /\ ~LastItem.mIsStale
          THEN giveBack(LastItem.mSlot, freeQueued(slots[LastItem.mSlot]), slots,
                        mFreeBuffers, mActiveBuffers)
          ELSE mSlots' = slots /\ UNCHANGED <<mFreeBuffers, mActiveBuffers>>
       /\ mBufferHasBeenQueued' = TRUE
       /\ mNextCallbackTicket' = mNextCallbackTicket + 1
       /\ thread' = [notifyBufferReleased(thread) EXCEPT ![t] =
                        [Idle EXCEPT !.pc = "callback", !.ticket = mNextCallbackTicket,
                                     !.frame = frame]]
       /\ UNCHANGED <<mFreeSlots, mUnusedSlots, limitVars, connectionVars, mode,
                      allocationVars, mCurrentCallbackTicket, notified, owed,
                      consumerVars, outside>>

\* A crop outside the buffer is refused after the shared slot has been chosen.
queueBufferBadCrop(t, s) ==
    /\ At(t, "idle") /\ ClientHolds(s)
    /\ Connected /\ s < getTotalSlotCount
    /\ mSlots[s].mRequestBufferCalled
    /\ BecomesShared
    /\ ShareSlot(s)
    /\ mSlots' = [mSlots EXCEPT ![s] = Shared(@)]
    /\ UNCHANGED <<listVars, allocationVars, notSlots, thread, owed, outside>>

\* Faults: nobody waits for its turn, or everybody waits for the next one.
anyTurn(t) == TRUE
nextTurn(t) == thread[t].ticket < mCurrentCallbackTicket

\* queueBuffer, under mCallbackMutex: onFrameAvailable or onFrameReplaced.
MyTurn(t) == thread[t].ticket = mCurrentCallbackTicket
queueCallsBack(t) ==
    /\ At(t, "callback")
    /\ MyTurn(t)
    /\ notified' = thread[t].frame
    /\ mCurrentCallbackTicket' = mCurrentCallbackTicket + 1
    /\ thread' = Return(thread, t)
    /\ UNCHANGED <<mSlots, mQueue, listVars, mSharedBufferSlot, limitVars, connectionVars, mode,
                   frameVars, allocationVars, mNextCallbackTicket, owed, consumerVars, outside>>

cancelBuffer(t, s) ==
    /\ At(t, "idle") /\ ClientHolds(s)
    /\ Connected /\ s < getTotalSlotCount
    /\ ~mode.mSharedBufferMode
    /\ giveBack(s, cancel(mSlots[s]), mSlots, mFreeBuffers, mActiveBuffers)
    /\ thread' = notifyBufferReleased(thread)
    /\ UNCHANGED <<mFreeSlots, mUnusedSlots, mSharedBufferSlot, allocationVars, notSlots,
                   owed, outside>>

-----------------------------------------------------------------------------
(* allocateBuffers: a loop that drops the mutex for every allocation.      *)

allocateBuffers(t, request) ==
    /\ At(t, "idle")
    /\ thread' = [thread EXCEPT ![t] = [@ EXCEPT !.pc = "prealloc", !.request = request]]
    /\ UNCHANGED <<mSlots, listVars, mSharedBufferSlot, allocationVars, notSlots, owed, outside>>

allocateBuffersReturns(t) ==
    /\ At(t, "prealloc") /\ waitWhileAllocating
    /\ ~mode.mAllowAllocation \/ mFreeSlots = {}
    /\ thread' = Return(thread, t)
    /\ UNCHANGED <<mSlots, listVars, mSharedBufferSlot, allocationVars, notSlots, owed, outside>>

allocateBuffersStarts(t) ==
    /\ At(t, "prealloc") /\ waitWhileAllocating
    /\ mode.mAllowAllocation /\ mFreeSlots # {}
    /\ mIsAllocating' = TRUE
    /\ thread' = [thread EXCEPT ![t] = [@ EXCEPT !.pc = "preallocating",
                                                 !.attributes = Resolve(thread[t].request)]]
    /\ UNCHANGED <<mSlots, listVars, mSharedBufferSlot, mDequeueWaitingForAllocation,
                   notSlots, owed, outside>>

\* The allocation failed, or the attributes to use changed meanwhile.
allocateBuffersGivesUp(t, ok) ==
    /\ At(t, "preallocating")
    /\ ~ok \/ Resolve(thread[t].request) # thread[t].attributes
    /\ mIsAllocating' = FALSE
    /\ thread' = [thread EXCEPT ![t] =
                     IF ok THEN [Idle EXCEPT !.pc = "prealloc", !.request = thread[t].request]
                     ELSE Idle]
    /\ UNCHANGED <<mSlots, listVars, mSharedBufferSlot, mDequeueWaitingForAllocation,
                   notSlots, owed, outside>>

\* The new buffer goes to the front of mFreeBuffers; its generation number is
\* the one the GraphicBuffer constructor sets.
allocateBuffersFills(t) ==
    /\ At(t, "preallocating")
    /\ Resolve(thread[t].request) = thread[t].attributes
    /\ \/ mFreeSlots = {} /\ UNCHANGED <<mSlots, mFreeSlots, mFreeBuffers>>
       \/ \E s \in mFreeSlots, id \in FreshIds :
            /\ IsFirst(s, mFreeSlots)
            /\ mSlots' = [mSlots EXCEPT ![s] =
                             [ClearedSlot EXCEPT !.mGraphicBuffer =
                                [id |-> id, attributes |-> thread[t].attributes,
                                 generation |-> 0]]]
            /\ mFreeBuffers' = <<s>> \o mFreeBuffers
            /\ mFreeSlots' = mFreeSlots \ {s}
    /\ mIsAllocating' = FALSE
    /\ thread' = [thread EXCEPT ![t] =
                     [Idle EXCEPT !.request = thread[t].request,
                                  !.pc = IF mDequeueWaitingForAllocation
                                         THEN "preallocYield" ELSE "prealloc"]]
    /\ UNCHANGED <<mUnusedSlots, mActiveBuffers, mSharedBufferSlot,
                   mDequeueWaitingForAllocation, notSlots, owed, outside>>

\* A dequeueBuffer that waited for the allocation gets to run first.
allocateBuffersResumes(t) ==
    /\ At(t, "preallocYield") /\ ~mDequeueWaitingForAllocation
    /\ thread' = [thread EXCEPT ![t].pc = "prealloc"]
    /\ UNCHANGED <<mSlots, listVars, mSharedBufferSlot, allocationVars, notSlots, owed, outside>>

-----------------------------------------------------------------------------
(* connect and disconnect.                                                 *)

\* Fault: the slots are not adjusted when the blocking mode changes.
neverAdjusts(async, cannotBlock) == 0

\* The limit on buffers with other blocking modes, minus the present one.
LimitChange(async, cannotBlock) ==
    maxBufferCountFor(async, cannotBlock, mMaxBufferCount) - getMaxBufferCount

\* An unknown api is refused only after everything else has been done.
connect(t, api, producerControlledByApp) ==
    LET byApp == mode.mConsumerControlledByApp /\ producerControlledByApp
    IN /\ At(t, "idle")
       /\ ~mIsAbandoned /\ mConsumerListener
       /\ mConnectedApi = NO_CONNECTED_API
       /\ adjustAvailableSlots(LimitChange(mode.mAsyncMode,
                                           mode.mDequeueTimeout < 0 /\ byApp))
       /\ mConnectedApi' = IF api \in Apis THEN api ELSE mConnectedApi
       /\ mBufferHasBeenQueued' = FALSE
       /\ mode' = [mode EXCEPT !.mDequeueBufferCannotBlock = byApp /\ mode.mDequeueTimeout < 0,
                               !.mQueueBufferCanDrop = byApp /\ mode.mDequeueTimeout <= 0,
                               !.mLegacyBufferDrop = TRUE, !.mAllowAllocation = TRUE]
       /\ UNCHANGED <<mQueue, mActiveBuffers, mSharedBufferSlot, limitVars, mIsAbandoned,
                      mConsumerListener, mFrameCounter, allocationVars, callbackVars, thread,
                      owed, consumerVars, outside>>

\* Also what binderDied does when the producer's process dies.
disconnect(t, api) ==
    /\ At(t, "idle") /\ waitWhileAllocating
    /\ ~mIsAbandoned
    /\ api \in Apis /\ mConnectedApi = api
    /\ freeAllBuffers
    /\ mQueue' = staleQueue
    /\ mSharedBufferSlot' = INVALID_BUFFER_SLOT
    /\ mConnectedApi' = NO_CONNECTED_API
    /\ thread' = notifyBufferReleased(thread)
    /\ Owes(t, TRUE)
    /\ UNCHANGED <<limitVars, mIsAbandoned, mConsumerListener, mode, frameVars,
                   allocationVars, callbackVars, consumerVars, outside>>

-----------------------------------------------------------------------------
(* The operations that change limits and modes.                            *)

setMaxDequeuedBufferCount(t, n) ==
    LET asked == getMinUndequeuedBufferCount + n
        bufferCount == IF asked > getTotalSlotCount THEN NUM_BUFFER_SLOTS ELSE asked
        count == bufferCount - getMinUndequeuedBufferCount
    IN /\ At(t, "idle") /\ waitWhileAllocating
       /\ ~mIsAbandoned
       /\ n # mMaxDequeuedBufferCount
       /\ dequeuedCount <= n
       /\ getMinMaxBufferCount <= bufferCount /\ bufferCount <= mMaxBufferCount
       /\ adjustAvailableSlots(count - mMaxDequeuedBufferCount)
       /\ mMaxDequeuedBufferCount' = count
       /\ thread' = notifyBufferReleased(thread)
       /\ Owes(t, count < mMaxDequeuedBufferCount)
       /\ UNCHANGED <<mQueue, mActiveBuffers, mSharedBufferSlot, slotCount, mMaxBufferCount,
                      mMaxAcquiredBufferCount, connectionVars, mode, frameVars, allocationVars,
                      callbackVars, consumerVars, outside>>

setAsyncMode(t, async) ==
    LET delta == LimitChange(async, mode.mDequeueBufferCannotBlock)
    IN /\ At(t, "idle") /\ waitWhileAllocating
       /\ ~mIsAbandoned
       /\ async # mode.mAsyncMode
       /\ mMaxAcquiredBufferCount + mMaxDequeuedBufferCount
             + NonBlocking(async, mode.mDequeueBufferCannotBlock) <= mMaxBufferCount
       /\ adjustAvailableSlots(delta)
       /\ mode' = [mode EXCEPT !.mAsyncMode = async]
       /\ thread' = notifyBufferReleased(thread)
       /\ Owes(t, delta < 0)
       /\ UNCHANGED <<mQueue, mActiveBuffers, mSharedBufferSlot, limitVars, connectionVars,
                      frameVars, allocationVars, callbackVars, consumerVars, outside>>

setDequeueTimeout(t, timeout) ==
    LET cannotBlock == timeout < 0 /\ mode.mDequeueBufferCannotBlock
    IN /\ At(t, "idle")
       /\ adjustAvailableSlots(LimitChange(mode.mAsyncMode, cannotBlock))
       /\ mode' = [mode EXCEPT !.mDequeueTimeout = timeout,
                               !.mDequeueBufferCannotBlock = cannotBlock,
                               !.mQueueBufferCanDrop = @ /\ timeout <= 0]
       /\ UNCHANGED <<mQueue, mActiveBuffers, mSharedBufferSlot, limitVars, connectionVars,
                      frameVars, allocationVars, callbackVars, thread, owed, consumerVars,
                      outside>>

\* Nothing changes, mMaxBufferCount included, when the slots already exist.
extendSlotCount(t, size) ==
    /\ At(t, "idle")
    /\ ~mIsAbandoned /\ mode.mAllowExtendedSlotCount
    /\ size > mMaxBufferCount /\ size > slotCount /\ size <= MaxSlotCount
    /\ slotCount' = size /\ mMaxBufferCount' = size
    /\ mUnusedSlots' = mUnusedSlots \cup slotCount .. size - 1
    /\ UNCHANGED <<mSlots, mQueue, mFreeSlots, mFreeBuffers, mActiveBuffers, mSharedBufferSlot,
                   mMaxAcquiredBufferCount, mMaxDequeuedBufferCount, connectionVars, mode,
                   frameVars, allocationVars, callbackVars, thread, owed, consumerVars, outside>>

notMode == <<mSlots, mQueue, listVars, limitVars, connectionVars, frameVars,
             allocationVars, callbackVars, thread, owed, consumerVars, outside>>

setSharedBufferMode(t, sharedBufferMode) ==
    /\ At(t, "idle")
    /\ mode' = [mode EXCEPT !.mSharedBufferMode = sharedBufferMode]
    /\ mSharedBufferSlot' = IF sharedBufferMode THEN mSharedBufferSlot ELSE INVALID_BUFFER_SLOT
    /\ UNCHANGED notMode

\* The operations that only set a flag.
allowAllocation(t, allow) ==
    /\ At(t, "idle")
    /\ mode' = [mode EXCEPT !.mAllowAllocation = allow]
    /\ UNCHANGED <<notMode, mSharedBufferSlot>>

setGenerationNumber(t, generationNumber) ==
    /\ At(t, "idle")
    /\ mode' = [mode EXCEPT !.mGenerationNumber = generationNumber]
    /\ UNCHANGED <<notMode, mSharedBufferSlot>>

setAutoRefresh(t, autoRefresh) ==
    /\ At(t, "idle")
    /\ mode' = [mode EXCEPT !.mAutoRefresh = autoRefresh]
    /\ UNCHANGED <<notMode, mSharedBufferSlot>>

setLegacyBufferDrop(t, drop) ==
    /\ At(t, "idle")
    /\ mode' = [mode EXCEPT !.mLegacyBufferDrop = drop]
    /\ UNCHANGED <<notMode, mSharedBufferSlot>>

setPresentMode(t, presentMode) ==
    /\ At(t, "idle")
    /\ mode' = [mode EXCEPT !.mPresentMode = presentMode,
                            !.mLegacyBufferDrop = presentMode = "DEFAULT"]
    /\ UNCHANGED <<notMode, mSharedBufferSlot>>
=============================================================================
