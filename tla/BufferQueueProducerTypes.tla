---------------------- MODULE BufferQueueProducerTypes ----------------------
(***************************************************************************)
(* The producer's operations on slots and frames keep the types of the     *)
(* BufferQueue.                                                            *)
(***************************************************************************)
EXTENDS BufferQueueTypeFacts

USE DEF listVars, limitVars, connectionVars, allocationVars, frameVars, callbackVars,
        consumerVars, notSlots, notQueue, notMode, notConfig

-----------------------------------------------------------------------------
(* Steps of calls that only move a thread.                                 *)

\* dequeueBuffer starts, waits and returns without a slot.
LEMMA DequeueWaitTypes ==
    ASSUME TypeOK, NEW t \in Producers
    PROVE  /\ dequeueTimesOut(t) => TypeOK'
           /\ wakesSpuriously(t) => TypeOK'
           /\ \A request \in Requests : dequeueBuffer(t, request) => TypeOK'
           /\ dequeueWaitsWhileAllocating(t) => TypeOK'
           /\ dequeueReturnsError(t) => TypeOK'
<1> USE LocalTypes, ThreadTypes, ThreadStepTypes
<1>1. ASSUME dequeueTimesOut(t) PROVE TypeOK'
    BY <1>1 DEF dequeueTimesOut
<1>2. ASSUME wakesSpuriously(t) PROVE TypeOK'
    BY <1>2 DEF wakesSpuriously
<1>3. ASSUME NEW request \in Requests, dequeueBuffer(t, request) PROVE TypeOK'
    <2>1. request \in 0 .. NumAttributes
        BY InputAssumption
    <2> QED
        BY <1>3, <2>1, LocalUpdates, Zenon DEF dequeueBuffer
<1>4. ASSUME dequeueWaitsWhileAllocating(t) PROVE TypeOK'
    BY <1>4, LocalUpdates, Zenon DEF dequeueWaitsWhileAllocating
<1>5. ASSUME dequeueReturnsError(t) PROVE TypeOK'
    BY <1>5, Zenon DEF dequeueReturnsError, InDequeue
<1> QED
    BY <1>1, <1>2, <1>3, <1>4, <1>5

\* allocateBuffers, without the step that hands over the new buffers.
LEMMA AllocateTypes ==
    ASSUME TypeOK, NEW t \in Producers
    PROVE  /\ \A request \in Requests : allocateBuffers(t, request) => TypeOK'
           /\ allocateBuffersReturns(t) => TypeOK'
           /\ allocateBuffersStarts(t) => TypeOK'
           /\ \A ok \in BOOLEAN : allocateBuffersGivesUp(t, ok) => TypeOK'
           /\ allocateBuffersResumes(t) => TypeOK'
<1> USE LocalTypes, ThreadTypes, ThreadStepTypes
<1>1. ASSUME NEW request \in Requests, allocateBuffers(t, request) PROVE TypeOK'
    <2>1. request \in 0 .. NumAttributes
        BY InputAssumption
    <2> QED
        BY <1>1, <2>1, LocalUpdates, Zenon DEF allocateBuffers
<1>2. ASSUME allocateBuffersReturns(t) PROVE TypeOK'
    BY <1>2 DEF allocateBuffersReturns
<1>3. ASSUME allocateBuffersStarts(t) PROVE TypeOK'
    <2>1. thread[t].request \in 0 .. NumAttributes
        BY DEF Threads, Locals
    <2>2. Resolve(thread[t].request) \in 0 .. NumAttributes
        BY <2>1 DEF Attributes
    <2> QED
        BY <1>3, <2>2, LocalUpdates, Zenon DEF allocateBuffersStarts
<1>4. ASSUME NEW ok \in BOOLEAN, allocateBuffersGivesUp(t, ok) PROVE TypeOK'
    <2>1. thread[t].request \in 0 .. NumAttributes
        BY DEF Threads, Locals
    <2>2. [Idle EXCEPT !.pc = "prealloc", !.request = thread[t].request] \in Threads
        BY <2>1, LocalUpdates, Zenon
    <2>3. thread' \in [Producers -> Threads]
        BY <1>4, <2>2, Zenon DEF allocateBuffersGivesUp
    <2> QED
        BY <1>4, <2>3, Zenon DEF allocateBuffersGivesUp
<1>5. ASSUME allocateBuffersResumes(t) PROVE TypeOK'
    BY <1>5, LocalUpdates, Zenon DEF allocateBuffersResumes
<1> QED
    BY <1>1, <1>2, <1>3, <1>4, <1>5

\* attachBuffer and detachNextBuffer wait or fail.
LEMMA AttachWaitTypes ==
    ASSUME TypeOK, NEW t \in Producers
    PROVE  /\ detachNextWaitsWhileAllocating(t) => TypeOK'
           /\ \A b \in Buffers : /\ attachWaitsWhileAllocating(t, b) => TypeOK'
                                 /\ attachReturnsError(t, b) => TypeOK'
                                 /\ attachFindsNothing(t, b) => TypeOK'
           /\ onBuffersReleased(t) => TypeOK'
<1> USE LocalTypes, ThreadTypes, ThreadStepTypes
<1>1. ASSUME detachNextWaitsWhileAllocating(t) PROVE TypeOK'
    BY <1>1, LocalUpdates, Zenon DEF detachNextWaitsWhileAllocating
<1>2. ASSUME NEW b \in Buffers, attachWaitsWhileAllocating(t, b) PROVE TypeOK'
    BY <1>2, LocalUpdates, Zenon DEF attachWaitsWhileAllocating
<1>3. ASSUME NEW b \in Buffers, attachReturnsError(t, b) PROVE TypeOK'
    BY <1>3 DEF attachReturnsError
<1>4. ASSUME NEW b \in Buffers, attachFindsNothing(t, b) PROVE TypeOK'
    <2> DEFINE local == [Idle EXCEPT !.buffer = b]
               timed == mode.mDequeueTimeout >= 0
    <2>0. local \in Threads
        BY LocalUpdates, Zenon
    <2>1. timed \in BOOLEAN
        BY DEF TypeOK, FlagTypes, Modes
    <2> HIDE DEF local, timed
    <2>2. [local EXCEPT !.pc = "attachWait", !.timed = timed] \in Threads
        BY <2>0, <2>1, LocalUpdates, Zenon
    <2>3. thread' = [thread EXCEPT ![t] =
                        IF MayNotBlock THEN Idle
                        ELSE [local EXCEPT !.pc = "attachWait", !.timed = timed]]
        BY <1>4, Zenon DEF attachFindsNothing, waitForBufferRelease, local, timed
    <2> QED
        BY <1>4, <2>2, <2>3 DEF attachFindsNothing
<1>5. ASSUME onBuffersReleased(t) PROVE TypeOK'
    BY <1>5 DEF onBuffersReleased
<1> QED
    BY <1>1, <1>2, <1>3, <1>4, <1>5

-----------------------------------------------------------------------------
(* dequeueBuffer finds a slot or not, and allocates.                       *)

\* The free buffers that are discarded, and the lists after that.
LEMMA DiscardTypes ==
    ASSUME ListTypes, NEW k \in 0 .. Len(mFreeBuffers)
    PROVE  /\ Discarded(k) \subseteq SlotIds
           /\ SubSeq(mFreeBuffers, k + 1, Len(mFreeBuffers)) \in Seq(SlotIds)
           /\ SubSeq(mFreeBuffers, k + 2, Len(mFreeBuffers)) \in Seq(SlotIds)
           /\ k < Len(mFreeBuffers) => mFreeBuffers[k + 1] \in SlotIds
BY SubSeqInSeq DEF ListTypes, Discarded

\* waitForFreeSlotThenRelock finds no slot.
LEMMA DequeueFindsNothingTypes ==
    ASSUME TypeOK, NEW t \in Producers, dequeueFindsNothing(t)
    PROVE  TypeOK'
<1>1. PICK k \in 0 .. Len(mFreeBuffers) :
        /\ mFreeBuffers' = SubSeq(mFreeBuffers, k + 1, Len(mFreeBuffers))
        /\ mFreeSlots' = mFreeSlots \cup Discarded(k)
        /\ mSlots' = clearBufferSlots(mSlots, Discarded(k))
    BY Zenon DEF dequeueFindsNothing
<1>2. ListTypes' /\ mSlots' \in [SlotIds -> BufferSlots]
    BY <1>1, DiscardTypes, ClearTypes, Zenon DEF dequeueFindsNothing, TypeOK, SlotTypes, ListTypes
<1> DEFINE local == [thread[t] EXCEPT !.attributes = Wanted(t)]
           timed == mode.mDequeueTimeout >= 0
<1>3. local \in Threads
    <2>1. Wanted(t) \in 0 .. NumAttributes /\ Wanted(t) # 0
        BY LocalTypes DEF Attributes
    <2> QED
        BY <2>1, LocalTypes, LocalUpdates, Zenon
<1>4. timed \in BOOLEAN
    BY DEF TypeOK, FlagTypes, Modes
<1> HIDE DEF local, timed
<1>5. [local EXCEPT !.pc = "wait", !.timed = timed] \in Threads
    BY <1>3, <1>4, LocalUpdates, Zenon
<1>6. thread' = [thread EXCEPT ![t] = IF MayNotBlock THEN Idle
                                      ELSE [local EXCEPT !.pc = "wait", !.timed = timed]]
    BY Zenon DEF dequeueFindsNothing, waitForBufferRelease, local, timed
<1>7. thread' \in [Producers -> Threads]
    BY <1>5, <1>6, LocalTypes, ThreadTypes, Zenon
<1>8. mDequeueWaitingForAllocation' \in BOOLEAN
    BY DEF dequeueFindsNothing, InDequeue
<1> QED
    BY <1>2, <1>7, <1>8, SlotStepTypes, LocalTypes
    DEF dequeueFindsNothing, TypeOK, ClientTypes

\* What dequeueFinds says about the lists and the flags.
LEMMA DequeueFindsTypes ==
    ASSUME TypeOK, NEW t \in Producers, NEW found \in SlotIds,
           NEW k \in 0 .. Len(mFreeBuffers), dequeueFinds(t, found, k)
    PROVE  ListTypes' /\ mDequeueWaitingForAllocation' \in BOOLEAN
<1>1. mFreeSlots' \subseteq SlotIds /\ mFreeBuffers' \in Seq(SlotIds)
    BY DiscardTypes, Zenon DEF dequeueFinds, waitForFreeSlotDequeue, TypeOK, ListTypes, IsFirst
<1>2. mDequeueWaitingForAllocation' \in BOOLEAN
    BY DEF dequeueFinds, InDequeue
<1> QED
    BY <1>1, <1>2 DEF dequeueFinds, ShareSlot, TypeOK, ListTypes

\* dequeueBuffer hands out a free buffer.
LEMMA DequeueReusesTypes ==
    ASSUME TypeOK, NEW t \in Producers, dequeueReusesBuffer(t)
    PROVE  TypeOK'
<1>1. PICK found \in SlotIds, k \in 0 .. Len(mFreeBuffers) :
        /\ dequeueFinds(t, found, k)
        /\ mSlots' = [clearBufferSlots(mSlots, Discarded(k)) EXCEPT ![found] =
                         Shared(dequeue([@ EXCEPT !.mNeedsReallocation = FALSE]))]
        /\ thread' = Return(thread, t)
        /\ UNCHANGED <<mIsAllocating, owed>>
    BY Zenon DEF dequeueReusesBuffer
<1>2. ListTypes' /\ mDequeueWaitingForAllocation' \in BOOLEAN
    BY <1>1, DequeueFindsTypes
<1> DEFINE slots == clearBufferSlots(mSlots, Discarded(k))
           new == Shared(dequeue([slots[found] EXCEPT !.mNeedsReallocation = FALSE]))
<1>3. slots \in [SlotIds -> BufferSlots]
    BY ClearTypes DEF TypeOK, SlotTypes
<1>4. [slots[found] EXCEPT !.mNeedsReallocation = FALSE] \in BufferSlots
    BY <1>3, Zenon DEF BufferSlots
<1>5. new \in BufferSlots
    BY <1>4, TransitionTypes
<1>6. mSlots' = [slots EXCEPT ![found] = new]
    BY <1>1
<1> HIDE DEF slots, new
<1>7. mSlots' \in [SlotIds -> BufferSlots]
    BY <1>3, <1>5, <1>6
<1>8. thread' \in [Producers -> Threads]
    BY <1>1, LocalTypes, ThreadTypes, Zenon
<1> QED
    BY <1>1, <1>2, <1>7, <1>8, SlotStepTypes, LocalTypes DEF dequeueFinds, TypeOK, ClientTypes

\* dequeueBuffer claims a slot and starts to allocate.
LEMMA DequeueReallocatesTypes ==
    ASSUME TypeOK, NEW t \in Producers, dequeueReallocates(t)
    PROVE  TypeOK'
<1>1. PICK found \in SlotIds :
        /\ dequeueFinds(t, found, 0)
        /\ mSlots' = [mSlots EXCEPT ![found] =
                         Shared(dequeue([@ EXCEPT !.mNeedsReallocation = FALSE,
                                                  !.mAcquireCalled = FALSE,
                                                  !.mGraphicBuffer = NoBuffer,
                                                  !.mRequestBufferCalled = FALSE]))]
        /\ thread' = [thread EXCEPT ![t] = [Idle EXCEPT !.pc = "allocating", !.slot = found,
                                                        !.attributes = Wanted(t)]]
        /\ mIsAllocating' = TRUE
        /\ Owes(t, mSlots[found].mGraphicBuffer # NoBuffer)
    BY Zenon DEF dequeueReallocates
<1>2. ListTypes' /\ mDequeueWaitingForAllocation' \in BOOLEAN
    <2>1. 0 \in 0 .. Len(mFreeBuffers)
        BY DEF TypeOK, ListTypes
    <2> QED
        BY <1>1, <2>1, DequeueFindsTypes
<1> DEFINE new == Shared(dequeue([mSlots[found] EXCEPT !.mNeedsReallocation = FALSE,
                                                       !.mAcquireCalled = FALSE,
                                                       !.mGraphicBuffer = NoBuffer,
                                                       !.mRequestBufferCalled = FALSE]))
<1>3. mSlots \in [SlotIds -> BufferSlots]
    BY DEF TypeOK, SlotTypes
<1>4. [mSlots[found] EXCEPT !.mNeedsReallocation = FALSE, !.mAcquireCalled = FALSE,
         !.mGraphicBuffer = NoBuffer, !.mRequestBufferCalled = FALSE] \in BufferSlots
    BY <1>3, Zenon DEF BufferSlots, MaybeBuffer
<1>5. new \in BufferSlots
    BY <1>4, TransitionTypes
<1>6. mSlots' = [mSlots EXCEPT ![found] = new]
    BY <1>1
<1> HIDE DEF new
<1>7. mSlots' \in [SlotIds -> BufferSlots]
    BY <1>3, <1>5, <1>6
<1>8. [Idle EXCEPT !.pc = "allocating", !.slot = found, !.attributes = Wanted(t)] \in Threads
    <2>1. Wanted(t) \in 0 .. NumAttributes /\ Wanted(t) # 0
        BY LocalTypes DEF Attributes
    <2> QED
        BY <2>1, IdleUpdates, Zenon
<1>9. thread' \in [Producers -> Threads]
    BY <1>1, <1>8, LocalTypes, ThreadTypes
<1> QED
    BY <1>1, <1>2, <1>7, <1>9, SlotStepTypes, LocalTypes
    DEF dequeueFinds, Owes, TypeOK, ClientTypes

\* dequeueBuffer comes back from the allocator.
LEMMA FinishesTypes ==
    ASSUME TypeOK, NEW t \in Producers, NEW ok \in BOOLEAN, dequeueFinishesAllocation(t, ok)
    PROVE  TypeOK'
<1> DEFINE s == thread[t].slot
<1>1. /\ mSlots \in [SlotIds -> BufferSlots] /\ ListTypes /\ s \in SlotIds
      /\ thread[t].attributes \in Attributes /\ mode.mGenerationNumber \in Nat
    BY LocalTypes
    DEF TypeOK, SlotTypes, FlagTypes, Modes, dequeueFinishesAllocation, At, Threads, Locals,
        Attributes
<1> HIDE DEF s
<1>2. ASSUME NEW id \in FreshIds
      PROVE  [id |-> id, attributes |-> thread[t].attributes,
              generation |-> mode.mGenerationNumber] \in MaybeBuffer
    BY <1>1 DEF FreshIds, MaybeBuffer, Buffers
<1>3. \A b \in MaybeBuffer : [mSlots EXCEPT ![s].mGraphicBuffer = b] \in [SlotIds -> BufferSlots]
    BY <1>1 DEF BufferSlots
<1>4. mSlots' \in [SlotIds -> BufferSlots]
    <2>1. CASE \E id \in FreshIds :
                 mSlots' = [mSlots EXCEPT ![s].mGraphicBuffer =
                               [id |-> id, attributes |-> thread[t].attributes,
                                generation |-> mode.mGenerationNumber]]
        BY <1>2, <1>3, <2>1, Zenon
    <2>2. CASE mSlots' = clearBufferSlots(mSlots, {s})
        BY <1>1, <2>2, ClearTypes
    <2> QED
        BY <2>1, <2>2, Zenon DEF dequeueFinishesAllocation, s
<1>5. ListTypes'
    BY <1>1 DEF dequeueFinishesAllocation, ListTypes, s
<1>6. thread' \in [Producers -> Threads]
    BY LocalTypes, ThreadTypes DEF dequeueFinishesAllocation
<1> QED
    BY <1>4, <1>5, <1>6, SlotStepTypes, LocalTypes, Zenon
    DEF dequeueFinishesAllocation, TypeOK, ClientTypes

-----------------------------------------------------------------------------
(* The other operations on a slot.                                         *)

\* requestBuffer and a refused queueBuffer only mark a slot.
LEMMA MarkTypes ==
    ASSUME TypeOK, NEW t \in Producers, NEW s \in SlotIds
    PROVE  /\ requestBuffer(t, s) => TypeOK'
           /\ queueBufferBadCrop(t, s) => TypeOK'
<1>1. mSlots \in [SlotIds -> BufferSlots]
    BY DEF TypeOK, SlotTypes
<1>2. ASSUME requestBuffer(t, s) PROVE TypeOK'
    <2>1. mSlots' \in [SlotIds -> BufferSlots]
        BY <1>1, <1>2, Zenon DEF requestBuffer, BufferSlots
    <2> QED
        BY <1>2, <2>1, SlotStepTypes, LocalTypes DEF requestBuffer, TypeOK, ListTypes, ClientTypes
<1>3. ASSUME queueBufferBadCrop(t, s) PROVE TypeOK'
    <2>1. mSlots' \in [SlotIds -> BufferSlots]
        BY <1>1, <1>3, TransitionTypes DEF queueBufferBadCrop
    <2>2. ListTypes'
        BY <1>3 DEF queueBufferBadCrop, ShareSlot, TypeOK, ListTypes
    <2> QED
        BY <1>3, <2>1, <2>2, SlotStepTypes, LocalTypes DEF queueBufferBadCrop, TypeOK, ClientTypes
<1> QED
    BY <1>2, <1>3

\* A buffer the producer's client gets when it detaches slot s.
LEMMA DetachedTypes ==
    ASSUME TypeOK, NEW s \in SlotIds
    PROVE  /\ [outside EXCEPT !.producer = @ \cup ({mSlots[s].mGraphicBuffer} \ {NoBuffer})]
                \in [producer : SUBSET Buffers, consumer : SUBSET Buffers]
           /\ mSlots[s].mGraphicBuffer \in MaybeBuffer
<1>1. mSlots[s].mGraphicBuffer \in MaybeBuffer
    BY DEF TypeOK, SlotTypes, BufferSlots
<1> QED
    BY <1>1 DEF TypeOK, ClientTypes, MaybeBuffer

\* detachBuffer and detachNextBuffer.
LEMMA DetachTypes ==
    ASSUME TypeOK, NEW t \in Producers
    PROVE  /\ \A s \in SlotIds : detachBuffer(t, s) => TypeOK'
           /\ detachNextBuffer(t) => TypeOK'
<1>1. mSlots \in [SlotIds -> BufferSlots] /\ ListTypes
    BY DEF TypeOK, SlotTypes
<1>2. ASSUME NEW s \in SlotIds, detachBuffer(t, s) PROVE TypeOK'
    <2>1. ListTypes' /\ mSlots' \in [SlotIds -> BufferSlots]
        BY <1>1, <1>2, ClearTypes DEF detachBuffer, ListTypes
    <2>2. thread' \in [Producers -> Threads]
        BY <1>2, LocalTypes, ThreadTypes DEF detachBuffer
    <2>3. outside' \in [producer : SUBSET Buffers, consumer : SUBSET Buffers]
        BY <1>2, DetachedTypes DEF detachBuffer
    <2> QED
        BY <1>2, <2>1, <2>2, <2>3, SlotStepTypes, LocalTypes DEF detachBuffer, Owes
<1>3. ASSUME detachNextBuffer(t) PROVE TypeOK'
    <2>1. thread' \in [Producers -> Threads]
        BY <1>3, LocalTypes, ThreadTypes DEF detachNextBuffer
    <2>2. CASE mFreeBuffers = <<>>
        BY <1>3, <2>1, <2>2, ThreadStepTypes, LocalTypes DEF detachNextBuffer
    <2>3. CASE mFreeBuffers # <<>>
        <3>1. Head(mFreeBuffers) \in SlotIds /\ Tail(mFreeBuffers) \in Seq(SlotIds)
            BY <1>1, <2>3 DEF ListTypes
        <3>2. ListTypes' /\ mSlots' \in [SlotIds -> BufferSlots]
            BY <1>1, <1>3, <2>3, <3>1, ClearTypes, Zenon DEF detachNextBuffer, ListTypes
        <3>3. outside' \in [producer : SUBSET Buffers, consumer : SUBSET Buffers]
            BY <1>3, <2>3, <3>1, DetachedTypes, Zenon DEF detachNextBuffer
        <3> QED
            BY <1>3, <2>1, <2>3, <3>2, <3>3, SlotStepTypes, LocalTypes DEF detachNextBuffer, Owes
    <2> QED
        BY <2>2, <2>3
<1> QED
    BY <1>2, <1>3

\* attachBuffer.
LEMMA AttachTypes ==
    ASSUME TypeOK, NEW t \in Producers, NEW b \in Buffers, attachBuffer(t, b)
    PROVE  TypeOK'
<1>1. PICK found \in SlotIds :
        /\ waitForFreeSlotAttach(found)
        /\ mSlots' = [mSlots EXCEPT ![found] =
                         dequeue([@ EXCEPT !.mGraphicBuffer = b, !.mRequestBufferCalled = TRUE,
                                           !.mAcquireCalled = FALSE,
                                           !.mNeedsReallocation = FALSE])]
        /\ mActiveBuffers' = mActiveBuffers \cup {found}
        /\ outside' = [outside EXCEPT !.producer = @ \ {b}]
        /\ thread' = Return(thread, t)
        /\ UNCHANGED <<mUnusedSlots, mSharedBufferSlot, allocationVars, notSlots, owed>>
    BY Zenon DEF attachBuffer
<1>2. mSlots \in [SlotIds -> BufferSlots] /\ ListTypes
    BY DEF TypeOK, SlotTypes
<1> DEFINE new == [mSlots[found] EXCEPT !.mGraphicBuffer = b, !.mRequestBufferCalled = TRUE,
                                        !.mAcquireCalled = FALSE, !.mNeedsReallocation = FALSE]
<1>3. new \in BufferSlots
    BY <1>2, Zenon DEF BufferSlots, MaybeBuffer
<1>8. mSlots' = [mSlots EXCEPT ![found] = dequeue(new)]
    BY <1>1
<1> HIDE DEF new
<1>4. mSlots' \in [SlotIds -> BufferSlots]
    BY <1>2, <1>3, <1>8, TransitionTypes
<1>5. ListTypes'
    <2>1. mFreeBuffers # <<>> => Tail(mFreeBuffers) \in Seq(SlotIds)
        BY <1>2 DEF ListTypes
    <2>2. mFreeBuffers' \in Seq(SlotIds) /\ mFreeSlots' \subseteq SlotIds
        BY <1>1, <1>2, <2>1, Zenon DEF waitForFreeSlotAttach, ListTypes
    <2> QED
        BY <1>1, <1>2, <2>2 DEF ListTypes
<1>6. thread' \in [Producers -> Threads]
    BY <1>1, LocalTypes, ThreadTypes
<1>7. outside' \in [producer : SUBSET Buffers, consumer : SUBSET Buffers]
    BY <1>1 DEF TypeOK, ClientTypes
<1> QED
    BY <1>1, <1>4, <1>5, <1>6, <1>7, SlotStepTypes, LocalTypes

\* cancelBuffer.
LEMMA CancelTypes ==
    ASSUME TypeOK, NEW t \in Producers, NEW s \in SlotIds, cancelBuffer(t, s)
    PROVE  TypeOK'
<1>1. mSlots \in [SlotIds -> BufferSlots] /\ ListTypes /\ cancel(mSlots[s]) \in BufferSlots
    BY TransitionTypes DEF TypeOK, SlotTypes
<1>2. mSlots' \in [SlotIds -> BufferSlots] /\ ListTypes'
    BY <1>1, GiveBackTypes DEF cancelBuffer, ListTypes
<1>3. thread' \in [Producers -> Threads]
    BY LocalTypes, ThreadTypes DEF cancelBuffer
<1> QED
    BY <1>2, <1>3, SlotStepTypes, LocalTypes DEF cancelBuffer, TypeOK, ClientTypes

\* The item that queueBuffer adds to mQueue.
LEMMA ItemTypes ==
    ASSUME NEW s \in SlotIds, NEW b \in BufferSlots, NEW f \in Nat, NEW timestamp \in Nat,
           NEW auto \in BOOLEAN, NEW droppable \in BOOLEAN
    PROVE  NewItem(s, b, f, timestamp, auto, droppable) \in BufferItems
BY DEF NewItem, BufferItems, BufferSlots

\* queueBuffer under the lock.
LEMMA QueueTypes ==
    ASSUME TypeOK, NEW t \in Producers, NEW s \in SlotIds, NEW timestamp \in Nat,
           NEW auto \in BOOLEAN, queueBuffer(t, s, timestamp, auto)
    PROVE  TypeOK'
<1> DEFINE frame == mFrameCounter + 1
           queued == queue([Shared(mSlots[s]) EXCEPT !.mFrameNumber = frame])
           slots == [mSlots EXCEPT ![s] = queued]
           droppable == IsDroppable(IF BecomesShared THEN s ELSE mSharedBufferSlot, s)
           item == NewItem(s, mSlots[s], frame, timestamp, auto, droppable)
<1>1. mSlots \in [SlotIds -> BufferSlots] /\ ListTypes /\ frame \in Nat
    BY DEF TypeOK, SlotTypes, FlagTypes
<1>2. droppable \in BOOLEAN
    BY DEF IsDroppable
<1>3. queued \in BufferSlots
    <2>1. Shared(mSlots[s]) \in BufferSlots
        BY <1>1, TransitionTypes
    <2>2. [Shared(mSlots[s]) EXCEPT !.mFrameNumber = frame] \in BufferSlots
        BY <1>1, <2>1 DEF BufferSlots
    <2> QED
        BY <2>2, TransitionTypes
<1> HIDE DEF frame, queued, droppable
<1>4. item \in BufferItems
    BY <1>1, <1>2, ItemTypes
<1>5. slots \in [SlotIds -> BufferSlots]
    BY <1>1, <1>3
<1> HIDE DEF slots, item
<1>6. /\ ShareSlot(s) /\ mFrameCounter' = frame
      /\ mQueue' = IF Replaces THEN [mQueue EXCEPT ![Len(mQueue)] = item] ELSE Append(mQueue, item)
      /\ IF Replaces /\ ~LastItem.mIsStale
         THEN giveBack(LastItem.mSlot, freeQueued(slots[LastItem.mSlot]), slots,
                       mFreeBuffers, mActiveBuffers)
         ELSE mSlots' = slots /\ UNCHANGED <<mFreeBuffers, mActiveBuffers>>
      /\ thread' = [notifyBufferReleased(thread) EXCEPT ![t] =
                       [Idle EXCEPT !.pc = "callback", !.ticket = mNextCallbackTicket,
                                    !.frame = frame]]
    BY Zenon DEF queueBuffer, frame, queued, slots, droppable, item
<1>7. mQueue' \in Seq(BufferItems) /\ mQueue' # <<>>
    <2>1. mQueue \in Seq(BufferItems)
        BY DEF TypeOK, SlotTypes
    <2>2. CASE Replaces
        <3>1. Len(mQueue) \in 1 .. Len(mQueue) /\ mQueue' = [mQueue EXCEPT ![Len(mQueue)] = item]
            BY <1>6, <2>1, <2>2 DEF Replaces
        <3>2. mQueue' \in Seq(BufferItems) /\ Len(mQueue') = Len(mQueue)
            BY <1>4, <2>1, <3>1
        <3> QED
            BY <2>1, <3>1, <3>2
    <2>3. CASE ~Replaces
        BY <1>4, <1>6, <2>1, <2>3
    <2> QED
        BY <2>2, <2>3
<1>8. /\ mSlots' \in [SlotIds -> BufferSlots]
      /\ mActiveBuffers' \subseteq SlotIds /\ mFreeBuffers' \in Seq(SlotIds)
    <2>1. CASE Replaces /\ ~LastItem.mIsStale
        <3>1. LastItem.mSlot \in SlotIds
            <4>1. mQueue \in Seq(BufferItems) /\ Len(mQueue) \in 1 .. Len(mQueue)
                BY <2>1 DEF TypeOK, SlotTypes, Replaces
            <4>2. LastItem \in BufferItems
                BY <4>1 DEF LastItem
            <4> QED
                BY <4>2 DEF BufferItems
        <3>2. freeQueued(slots[LastItem.mSlot]) \in BufferSlots
            BY <1>5, <3>1, TransitionTypes
        <3> QED
            BY <1>1, <1>5, <1>6, <2>1, <3>1, <3>2, GiveBackTypes
    <2>2. CASE ~(Replaces /\ ~LastItem.mIsStale)
        BY <1>1, <1>5, <1>6, <2>2 DEF ListTypes
    <2> QED
        BY <2>1, <2>2
<1>9. ListTypes'
    BY <1>1, <1>6, <1>8 DEF queueBuffer, ListTypes, ShareSlot
<1>10. [Idle EXCEPT !.pc = "callback", !.ticket = mNextCallbackTicket, !.frame = frame] \in Threads
    <2>1. mNextCallbackTicket \in Nat /\ frame \in Nat
        BY <1>1 DEF TypeOK, CallTypes
    <2> QED
        BY <2>1, IdleUpdates, Zenon
<1>11. thread' \in [Producers -> Threads]
    BY <1>6, <1>10, LocalTypes, ThreadTypes
<1>12. UNCHANGED <<limitVars, connectionVars, mode, allocationVars, mCurrentCallbackTicket,
                   notified, owed, consumerVars, outside>>
    BY DEF queueBuffer
<1>13. mBufferHasBeenQueued' = TRUE /\ mNextCallbackTicket' = mNextCallbackTicket + 1
    BY DEF queueBuffer
<1>14. LimitTypes' /\ FlagTypes' /\ ClientTypes'
    BY <1>1, <1>6, <1>12, <1>13 DEF TypeOK, LimitTypes, FlagTypes, ClientTypes
<1>15. CallTypes'
    BY <1>7, <1>11, <1>12, <1>13 DEF TypeOK, CallTypes
<1> QED
    BY <1>7, <1>8, <1>9, <1>14, <1>15 DEF TypeOK, SlotTypes

\* The callbacks of queueBuffer.
LEMMA CallsBackTypes ==
    ASSUME TypeOK, NEW t \in Producers, queueCallsBack(t)
    PROVE  TypeOK'
<1>1. thread' \in [Producers -> Threads] /\ thread[t].frame \in Nat
    BY LocalTypes, ThreadTypes DEF queueCallsBack, Threads, Locals
<1> QED
    BY <1>1
    DEF queueCallsBack, TypeOK, SlotTypes, ListTypes, LimitTypes, FlagTypes, CallTypes, ClientTypes

\* allocateBuffers fills the slots it found.
LEMMA FillsTypes ==
    ASSUME TypeOK, NEW t \in Producers, allocateBuffersFills(t)
    PROVE  TypeOK'
<1>1. mSlots \in [SlotIds -> BufferSlots] /\ ListTypes /\ thread[t] \in Threads
    BY LocalTypes DEF TypeOK, SlotTypes
<1>2. thread[t].attributes \in Attributes /\ thread[t].request \in 0 .. NumAttributes
    BY <1>1, LocalTypes DEF allocateBuffersFills, Threads, Locals
<1>3. mSlots' \in [SlotIds -> BufferSlots] /\ ListTypes'
    <2>1. CASE UNCHANGED <<mSlots, mFreeSlots, mFreeBuffers>>
        BY <1>1, <2>1 DEF allocateBuffersFills, ListTypes
    <2>2. ASSUME NEW s \in mFreeSlots, NEW id \in FreshIds,
                 /\ mSlots' = [mSlots EXCEPT ![s] =
                                  [ClearedSlot EXCEPT !.mGraphicBuffer =
                                     [id |-> id, attributes |-> thread[t].attributes,
                                      generation |-> 0]]]
                 /\ mFreeBuffers' = <<s>> \o mFreeBuffers
                 /\ mFreeSlots' = mFreeSlots \ {s}
          PROVE  mSlots' \in [SlotIds -> BufferSlots] /\ ListTypes'
        <3> DEFINE b == [id |-> id, attributes |-> thread[t].attributes, generation |-> 0]
        <3>1. b \in MaybeBuffer
            BY <1>2 DEF FreshIds, MaybeBuffer, Buffers
        <3> HIDE DEF b
        <3>2. [ClearedSlot EXCEPT !.mGraphicBuffer = b] \in BufferSlots
            BY <1>1, <3>1, ClearTypes DEF BufferSlots
        <3>3. mSlots' \in [SlotIds -> BufferSlots]
            BY <1>1, <2>2, <3>2, Zenon DEF b
        <3>4. mFreeBuffers' \in Seq(SlotIds)
            BY <1>1, <2>2 DEF ListTypes
        <3> QED
            BY <1>1, <2>2, <3>3, <3>4 DEF allocateBuffersFills, ListTypes
    <2> QED
        BY <2>1, <2>2, Zenon DEF allocateBuffersFills
<1>4. \A pc \in {"prealloc", "preallocYield"} :
        [Idle EXCEPT !.request = thread[t].request, !.pc = pc] \in Threads
    BY <1>2, IdleUpdates, Zenon
<1>5. thread' \in [Producers -> Threads]
    <2>1. thread' = [thread EXCEPT ![t] =
                        [Idle EXCEPT !.request = thread[t].request,
                                     !.pc = IF mDequeueWaitingForAllocation
                                            THEN "preallocYield" ELSE "prealloc"]]
        BY DEF allocateBuffersFills
    <2> QED
        BY <1>4, <2>1, LocalTypes, ThreadTypes, Zenon
<1> QED
    BY <1>3, <1>5, SlotStepTypes, LocalTypes, Zenon DEF allocateBuffersFills, TypeOK, ClientTypes

-----------------------------------------------------------------------------
(* All of them.                                                            *)

\* The steps of calls in progress keep the types.
LEMMA ContinueTypes ==
    ASSUME TypeOK, NEW t \in Producers, Continue(t)
    PROVE  TypeOK'
<1>1. AllocationResults \subseteq BOOLEAN
    BY InputAssumption
<1>2. outside.producer \subseteq Buffers
    BY DEF TypeOK, ClientTypes
<1>3. CASE \/ dequeueWaitsWhileAllocating(t) \/ dequeueReturnsError(t) \/ dequeueFindsNothing(t)
           \/ dequeueReusesBuffer(t) \/ dequeueReallocates(t) \/ dequeueTimesOut(t)
           \/ queueCallsBack(t) \/ onBuffersReleased(t)
    BY <1>3, DequeueWaitTypes, DequeueFindsNothingTypes, DequeueReusesTypes,
       DequeueReallocatesTypes, CallsBackTypes, AttachWaitTypes
<1>4. CASE \E ok \in AllocationResults : dequeueFinishesAllocation(t, ok)
    BY <1>1, <1>4, FinishesTypes
<1>5. CASE \/ allocateBuffersReturns(t) \/ allocateBuffersStarts(t)
           \/ \E ok \in AllocationResults : allocateBuffersGivesUp(t, ok)
           \/ allocateBuffersFills(t) \/ allocateBuffersResumes(t)
    BY <1>1, <1>5, AllocateTypes, FillsTypes
<1>6. CASE detachNextBuffer(t)
    BY <1>6, DetachTypes
<1>7. CASE \E b \in outside.producer :
             attachReturnsError(t, b) \/ attachFindsNothing(t, b) \/ attachBuffer(t, b)
    BY <1>2, <1>7, AttachWaitTypes, AttachTypes, Zenon
<1> QED
    BY <1>3, <1>4, <1>5, <1>6, <1>7, Zenon DEF Continue, Proceeds

\* The producer's calls that move slots keep the types.
LEMMA ProduceTypes ==
    ASSUME TypeOK, NEW t \in Producers, Produce(t)
    PROVE  TypeOK'
<1>1. outside.producer \subseteq Buffers
    BY DEF TypeOK, ClientTypes
<1>2. CASE \E request \in Requests : dequeueBuffer(t, request) \/ allocateBuffers(t, request)
    BY <1>2, DequeueWaitTypes, AllocateTypes
<1>3. CASE \E s \in SlotIds : \/ requestBuffer(t, s) \/ cancelBuffer(t, s) \/ detachBuffer(t, s)
                              \/ queueBufferBadCrop(t, s)
    BY <1>3, MarkTypes, CancelTypes, DetachTypes
<1>4. CASE \E s \in SlotIds : \E timestamp \in Timestamps, auto \in AutoTimestamps :
             queueBuffer(t, s, timestamp, auto)
    <2>1. Timestamps \subseteq Nat /\ AutoTimestamps \subseteq BOOLEAN
        BY InputAssumption
    <2> QED
        BY <1>4, <2>1, QueueTypes
<1>5. CASE detachNextWaitsWhileAllocating(t) \/ detachNextBuffer(t)
    BY <1>5, AttachWaitTypes, DetachTypes
<1>6. CASE \E b \in outside.producer :
             \/ attachWaitsWhileAllocating(t, b)
             \/ attachReturnsError(t, b) \/ attachFindsNothing(t, b) \/ attachBuffer(t, b)
    BY <1>1, <1>6, AttachWaitTypes, AttachTypes, Zenon
<1> QED
    BY <1>2, <1>3, <1>4, <1>5, <1>6, Zenon DEF Produce
=============================================================================
