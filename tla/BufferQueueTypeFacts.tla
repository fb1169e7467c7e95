------------------------ MODULE BufferQueueTypeFacts ------------------------
(***************************************************************************)
(* The types of the values a BufferQueue computes, of the steps its        *)
(* operations have in common, and of the operations that set its limits    *)
(* and modes.                                                              *)
(***************************************************************************)
EXTENDS BufferQueue, TLAPS

USE DEF listVars, limitVars, connectionVars, allocationVars, frameVars, callbackVars,
        consumerVars, notSlots, notQueue, notMode, notConfig

-----------------------------------------------------------------------------
(* Sequences: the list of free buffers and the queue.                      *)

\* The elements of a sequence over S are in S.
LEMMA RangeInSet ==
    ASSUME NEW S, NEW q \in Seq(S)
    PROVE  Range(q) \subseteq S
BY DEF Range

\* A part of a sequence over S is a sequence over S.
LEMMA SubSeqInSeq ==
    ASSUME NEW S, NEW q \in Seq(S), NEW m \in 1 .. Len(q) + 1, NEW n \in 0 .. Len(q)
    PROVE  SubSeq(q, m, n) \in Seq(S)
OBVIOUS

\* Taking the front off a nonempty sequence.
LEMMA FrontAndRest ==
    ASSUME NEW S, NEW q \in Seq(S), q # <<>>
    PROVE  /\ Head(q) \in S /\ Tail(q) \in Seq(S)
           /\ Len(q) \in Nat /\ Len(Tail(q)) = Len(q) - 1
OBVIOUS

-----------------------------------------------------------------------------
(* The values the variables are given have the right types.                *)

\* Every BufferState transition gives a slot.
LEMMA TransitionTypes ==
    ASSUME NEW b \in BufferSlots
    PROVE  /\ dequeue(b) \in BufferSlots /\ queue(b) \in BufferSlots
           /\ cancel(b) \in BufferSlots /\ freeQueued(b) \in BufferSlots
           /\ acquire(b) \in BufferSlots /\ acquireNotInQueue(b) \in BufferSlots
           /\ release(b) \in BufferSlots
           /\ Shared(b) \in BufferSlots /\ Unshared(b) \in BufferSlots
<1>1. \A n \in Nat : Decrement(n) \in Nat /\ n + 1 \in Nat
    BY DEF Decrement
<1>2. dequeue(b) \in BufferSlots
    BY <1>1 DEF BufferSlots, dequeue
<1>3. queue(b) \in BufferSlots
    BY <1>1, Zenon DEF BufferSlots, queue
<1>4. cancel(b) \in BufferSlots
    BY <1>1 DEF BufferSlots, cancel
<1>5. freeQueued(b) \in BufferSlots
    BY <1>1 DEF BufferSlots, freeQueued
<1>6. acquire(b) \in BufferSlots
    BY <1>1, Zenon DEF BufferSlots, acquire
<1>7. acquireNotInQueue(b) \in BufferSlots
    BY <1>1 DEF BufferSlots, acquireNotInQueue
<1>8. release(b) \in BufferSlots
    BY <1>1 DEF BufferSlots, release
<1>9. Shared(b) \in BufferSlots /\ Unshared(b) \in BufferSlots
    BY Zenon DEF BufferSlots, Shared, Unshared
<1> QED
    BY <1>2, <1>3, <1>4, <1>5, <1>6, <1>7, <1>8, <1>9

\* A cleared slot is a slot, and so are the other ones.
LEMMA ClearTypes ==
    ASSUME NEW slots \in [SlotIds -> BufferSlots], NEW S
    PROVE  ClearedSlot \in BufferSlots /\ clearBufferSlots(slots, S) \in [SlotIds -> BufferSlots]
<1>1. ClearedSlot \in BufferSlots
    BY Zenon DEF ClearedSlot, NewSlot, BufferSlots, MaybeBuffer
<1> QED
    BY <1>1 DEF clearBufferSlots

\* A thread that gets a new record, that returns, or that is notified.
LEMMA ThreadTypes ==
    ASSUME NEW threads \in [Producers -> Threads]
    PROVE  /\ Idle \in Threads
           /\ \A t \in Producers : Return(threads, t) \in [Producers -> Threads]
           /\ \A t \in Producers, x \in Threads :
                [threads EXCEPT ![t] = x] \in [Producers -> Threads]
           /\ notifyBufferReleased(threads) \in [Producers -> Threads]
<1>1. Idle \in Threads
    BY InputAssumption DEF Idle, Threads, Locals, MaybeBuffer
<1>2. \A x \in Threads : /\ [x EXCEPT !.pc = "woken"] \in Threads
                         /\ [x EXCEPT !.pc = "attachWoken"] \in Threads
    BY DEF Threads, Locals
<1>3. notifyBufferReleased(threads) \in [Producers -> Threads]
    BY <1>2 DEF notifyBufferReleased
<1> QED
    BY <1>1, <1>3 DEF Return

\* The consumer's bag after one buffer was acquired or given back.
LEMMA HoldingTypes ==
    ASSUME DOMAIN held \subseteq Holdings, NEW h \in Holdings
    PROVE  DOMAIN With(h) \subseteq Holdings /\ DOMAIN Without(h) \subseteq Holdings
BY DEF With, Without

\* Moving slots between the lists, as adjustAvailableSlotsLocked,
\* freeAllBuffersLocked and the operations that give a reference back do.
LEMMA AdjustTypes ==
    ASSUME SlotTypes, ListTypes, NEW delta \in Int, adjustAvailableSlots(delta)
    PROVE  /\ mSlots' \in [SlotIds -> BufferSlots]
           /\ mFreeSlots' \subseteq SlotIds /\ mUnusedSlots' \subseteq SlotIds
           /\ mFreeBuffers' \in Seq(SlotIds)
<1> USE DEF SlotTypes, ListTypes
<1>1. CASE delta >= 0
    BY <1>1 DEF adjustAvailableSlots
<1>2. CASE delta < 0
    <2>1. PICK emptied \in SUBSET mFreeSlots, kept \in 0 .. Len(mFreeBuffers) :
            LET freed == {mFreeBuffers[i] : i \in kept + 1 .. Len(mFreeBuffers)}
            IN /\ mFreeSlots' = mFreeSlots \ emptied
               /\ mFreeBuffers' = SubSeq(mFreeBuffers, 1, kept)
               /\ mUnusedSlots' = mUnusedSlots \cup emptied \cup freed
               /\ mSlots' = clearBufferSlots(mSlots, emptied \cup freed)
        <3>1. ~(delta >= 0)
            BY <1>2
        <3> QED
            BY <3>1, Zenon DEF adjustAvailableSlots
    <2>2. \A i \in kept + 1 .. Len(mFreeBuffers) : mFreeBuffers[i] \in SlotIds
        OBVIOUS
    <2>3. SubSeq(mFreeBuffers, 1, kept) \in Seq(SlotIds)
        BY SubSeqInSeq
    <2> QED
        BY <2>1, <2>2, <2>3, ClearTypes
<1> QED
    BY <1>1, <1>2 DEF adjustAvailableSlots

\* freeAllBuffersLocked.
LEMMA FreeAllTypes ==
    ASSUME SlotTypes, ListTypes, freeAllBuffers
    PROVE  /\ mSlots' \in [SlotIds -> BufferSlots]
           /\ mFreeSlots' \subseteq SlotIds /\ mUnusedSlots' \subseteq SlotIds
           /\ mActiveBuffers' \subseteq SlotIds /\ mFreeBuffers' \in Seq(SlotIds)
<1>1. Range(mFreeBuffers) \subseteq SlotIds
    BY RangeInSet DEF ListTypes
<1> QED
    BY <1>1, ClearTypes DEF SlotTypes, ListTypes, freeAllBuffers

\* A reference to a slot is given back.
LEMMA GiveBackTypes ==
    ASSUME ListTypes, NEW s \in SlotIds, NEW b \in BufferSlots,
           NEW slots \in [SlotIds -> BufferSlots],
           giveBack(s, b, slots, mFreeBuffers, mActiveBuffers)
    PROVE  /\ mSlots' \in [SlotIds -> BufferSlots]
           /\ mActiveBuffers' \subseteq SlotIds /\ mFreeBuffers' \in Seq(SlotIds)
BY TransitionTypes DEF giveBack, ListTypes

\* The record of a thread, and what its fields may become.
LEMMA LocalTypes ==
    ASSUME TypeOK, NEW t \in Producers
    PROVE  /\ thread \in [Producers -> Threads] /\ thread[t] \in Threads
           /\ owed \subseteq Producers
           /\ mIsAllocating \in BOOLEAN /\ mDequeueWaitingForAllocation \in BOOLEAN
           /\ Wanted(t) \in Attributes
           /\ \A request \in 0 .. NumAttributes : Resolve(request) \in Attributes
<1>1. thread[t] \in Threads
    BY DEF TypeOK, CallTypes
<1>2. \A request \in 0 .. NumAttributes : Resolve(request) \in Attributes
    BY InputAssumption DEF TypeOK, FlagTypes, Modes, Resolve, Attributes
<1>3. Wanted(t) \in Attributes
    BY <1>1, <1>2, InputAssumption DEF Wanted, Threads, Locals, Attributes
<1> QED
    BY <1>1, <1>2, <1>3 DEF TypeOK, CallTypes, FlagTypes

\* The records that the steps of a call give to its thread.
LEMMA LocalUpdates ==
    ASSUME NEW x \in Threads
    PROVE  /\ [x EXCEPT !.pc = "dequeueAlloc"] \in Threads
           /\ [x EXCEPT !.pc = "detachNextAlloc"] \in Threads
           /\ [x EXCEPT !.pc = "prealloc"] \in Threads
           /\ \A a \in 0 .. NumAttributes :
                /\ [x EXCEPT !.pc = "dequeue", !.request = a] \in Threads
                /\ [x EXCEPT !.pc = "prealloc", !.request = a] \in Threads
                /\ [x EXCEPT !.pc = "preallocating", !.attributes = a] \in Threads
                /\ a # 0 => [x EXCEPT !.attributes = a] \in Threads
           /\ \A b \in Buffers : /\ [x EXCEPT !.pc = "attachAlloc", !.buffer = b] \in Threads
                                 /\ [x EXCEPT !.buffer = b] \in Threads
           /\ \A pc \in {"wait", "attachWait"}, timed \in BOOLEAN :
                [x EXCEPT !.pc = pc, !.timed = timed] \in Threads
<1> USE DEF Threads, Locals, MaybeBuffer
<1>1. /\ [x EXCEPT !.pc = "dequeueAlloc"] \in Threads
      /\ [x EXCEPT !.pc = "detachNextAlloc"] \in Threads
      /\ [x EXCEPT !.pc = "prealloc"] \in Threads
    OBVIOUS
<1>2. ASSUME NEW a \in 0 .. NumAttributes
      PROVE  /\ [x EXCEPT !.pc = "dequeue", !.request = a] \in Threads
             /\ [x EXCEPT !.pc = "prealloc", !.request = a] \in Threads
             /\ [x EXCEPT !.pc = "preallocating", !.attributes = a] \in Threads
             /\ a # 0 => [x EXCEPT !.attributes = a] \in Threads
    <2>1. [x EXCEPT !.pc = "dequeue", !.request = a] \in Threads
        BY Zenon
    <2>2. [x EXCEPT !.pc = "prealloc", !.request = a] \in Threads
        BY Zenon
    <2>3. [x EXCEPT !.pc = "preallocating", !.attributes = a] \in Threads
        BY Zenon
    <2>4. a # 0 => [x EXCEPT !.attributes = a] \in Threads
        BY Zenon
    <2> QED
        BY <2>1, <2>2, <2>3, <2>4, Zenon
<1>3. ASSUME NEW b \in Buffers
      PROVE  /\ [x EXCEPT !.pc = "attachAlloc", !.buffer = b] \in Threads
             /\ [x EXCEPT !.buffer = b] \in Threads
    <2>1. [x EXCEPT !.pc = "attachAlloc", !.buffer = b] \in Threads
        BY Zenon
    <2>2. [x EXCEPT !.buffer = b] \in Threads
        BY Zenon
    <2> QED
        BY <2>1, <2>2, Zenon
<1>4. ASSUME NEW pc \in {"wait", "attachWait"}, NEW timed \in BOOLEAN
      PROVE  [x EXCEPT !.pc = pc, !.timed = timed] \in Threads
    BY Zenon
<1> HIDE DEF Threads, Locals, MaybeBuffer
<1> QED
    BY <1>1, <1>2, <1>3, <1>4, Zenon

\* The records that an idle thread gets.
LEMMA IdleUpdates ==
    /\ Idle \in Threads
    /\ \A ticket, frame \in Nat :
         [Idle EXCEPT !.pc = "callback", !.ticket = ticket, !.frame = frame] \in Threads
    /\ \A a \in 0 .. NumAttributes, pc \in {"prealloc", "preallocYield"} :
         [Idle EXCEPT !.request = a, !.pc = pc] \in Threads
    /\ \A s \in SlotIds, a \in 0 .. NumAttributes :
         a # 0 => [Idle EXCEPT !.pc = "allocating", !.slot = s, !.attributes = a] \in Threads
<1>1. Idle \in Threads
    BY InputAssumption DEF Idle, Threads, Locals, MaybeBuffer
<1> USE <1>1 DEF Threads, Locals
<1>2. ASSUME NEW ticket \in Nat, NEW frame \in Nat
      PROVE  [Idle EXCEPT !.pc = "callback", !.ticket = ticket, !.frame = frame] \in Threads
    BY Zenon
<1>3. ASSUME NEW a \in 0 .. NumAttributes, NEW pc \in {"prealloc", "preallocYield"}
      PROVE  [Idle EXCEPT !.request = a, !.pc = pc] \in Threads
    BY Zenon
<1>4. ASSUME NEW s \in SlotIds, NEW a \in 0 .. NumAttributes, a # 0
      PROVE  [Idle EXCEPT !.pc = "allocating", !.slot = s, !.attributes = a] \in Threads
    BY <1>4, Zenon
<1> HIDE DEF Threads, Locals
<1> QED
    BY <1>1, <1>2, <1>3, <1>4, Zenon

\* The limits are integers.
LEMMA LimitValues ==
    ASSUME TypeOK
    PROVE  /\ getMaxBufferCount \in Int /\ getTotalSlotCount \in Nat
           /\ getMinUndequeuedBufferCount \in Nat
           /\ \A async, cannotBlock : LimitChange(async, cannotBlock) \in Int
           /\ \A async, cannotBlock : \A n \in Nat :
                maxBufferCountFor(async, cannotBlock, n) \in Int
<1> USE DEF TypeOK, LimitTypes
<1>1. \A async, cannotBlock : NonBlocking(async, cannotBlock) \in {0, 1}
    BY DEF NonBlocking
<1>2. \A async, cannotBlock : \A n \in Nat : maxBufferCountFor(async, cannotBlock, n) \in Int
    BY <1>1 DEF maxBufferCountFor, Smaller
<1>3. getMaxBufferCount \in Int
    BY <1>2 DEF getMaxBufferCount
<1>4. getTotalSlotCount \in Nat
    BY SlotAssumption DEF getTotalSlotCount
<1>5. getMinUndequeuedBufferCount \in Nat
    BY <1>1 DEF getMinUndequeuedBufferCount, Spare
<1>6. \A async, cannotBlock : LimitChange(async, cannotBlock) \in Int
    BY <1>2, <1>3 DEF LimitChange
<1> QED
    BY <1>2, <1>3, <1>4, <1>5, <1>6

-----------------------------------------------------------------------------
(* Steps that leave most of the state alone.                               *)

\* A step that changes only thread, owed and the allocation flags.
LEMMA ThreadStepTypes ==
    ASSUME TypeOK, thread' \in [Producers -> Threads], owed' \subseteq Producers,
           mIsAllocating' \in BOOLEAN, mDequeueWaitingForAllocation' \in BOOLEAN,
           UNCHANGED <<mSlots, listVars, mSharedBufferSlot, notSlots, outside>>
    PROVE  TypeOK'
BY DEF TypeOK, SlotTypes, ListTypes, LimitTypes, FlagTypes, CallTypes, ClientTypes

\* A step that changes slots and lists, threads and allocation flags only.
LEMMA SlotStepTypes ==
    ASSUME TypeOK, mSlots' \in [SlotIds -> BufferSlots], ListTypes',
           thread' \in [Producers -> Threads], owed' \subseteq Producers,
           mIsAllocating' \in BOOLEAN, mDequeueWaitingForAllocation' \in BOOLEAN,
           outside' \in [producer : SUBSET Buffers, consumer : SUBSET Buffers],
           UNCHANGED notSlots
    PROVE  TypeOK'
BY DEF TypeOK, SlotTypes, LimitTypes, FlagTypes, CallTypes, ClientTypes

\* A step that adjusts the slots and changes limits, mode and api.
LEMMA AdjustStepTypes ==
    ASSUME TypeOK, NEW delta \in Int, adjustAvailableSlots(delta),
           LimitTypes', mode' \in Modes, mConnectedApi' \in Apis \cup {NO_CONNECTED_API},
           mBufferHasBeenQueued' \in BOOLEAN,
           thread' \in [Producers -> Threads], owed' \subseteq Producers,
           UNCHANGED <<mQueue, mActiveBuffers, mSharedBufferSlot, mIsAbandoned,
                       mConsumerListener, mFrameCounter, allocationVars, callbackVars,
                       consumerVars, outside>>
    PROVE  TypeOK'
<1>1. SlotTypes' /\ ListTypes'
    BY AdjustTypes DEF TypeOK, SlotTypes, ListTypes
<1> QED
    BY <1>1 DEF TypeOK, FlagTypes, CallTypes, ClientTypes

-----------------------------------------------------------------------------
(* connect, disconnect and the operations that change limits and modes.    *)

\* connect.
LEMMA ConnectTypes ==
    ASSUME TypeOK, NEW t \in Producers, NEW api \in ConnectApis, NEW byApp \in BOOLEAN,
           connect(t, api, byApp)
    PROVE  TypeOK'
<1>1. mode \in Modes /\ mode.mDequeueTimeout \in Int
    BY DEF TypeOK, FlagTypes, Modes
<1> DEFINE can == mode.mConsumerControlledByApp /\ byApp
           cannotBlock == can /\ mode.mDequeueTimeout < 0
           canDrop == can /\ mode.mDequeueTimeout <= 0
<1>2. cannotBlock \in BOOLEAN /\ canDrop \in BOOLEAN
    OBVIOUS
<1>3. \A x, y \in BOOLEAN :
        [mode EXCEPT !.mDequeueBufferCannotBlock = x, !.mQueueBufferCanDrop = y,
                     !.mLegacyBufferDrop = TRUE, !.mAllowAllocation = TRUE] \in Modes
    BY <1>1, Zenon DEF Modes
<1>4. mode' = [mode EXCEPT !.mDequeueBufferCannotBlock = cannotBlock,
                           !.mQueueBufferCanDrop = canDrop,
                           !.mLegacyBufferDrop = TRUE, !.mAllowAllocation = TRUE]
    BY Zenon DEF connect
<1> HIDE DEF cannotBlock, canDrop
<1>5. mode' \in Modes
    BY <1>2, <1>3, <1>4, Zenon
<1>6. PICK delta \in Int : adjustAvailableSlots(delta)
    BY LimitValues DEF connect
<1>7. /\ mBufferHasBeenQueued' = FALSE /\ mConnectedApi' = IF api \in Apis THEN api ELSE mConnectedApi
      /\ UNCHANGED <<mQueue, mActiveBuffers, mSharedBufferSlot, limitVars, mIsAbandoned,
                     mConsumerListener, mFrameCounter, allocationVars, callbackVars, thread,
                     owed, consumerVars, outside>>
    BY DEF connect
<1>8. mConnectedApi' \in Apis \cup {NO_CONNECTED_API} /\ LimitTypes'
    BY <1>7 DEF TypeOK, FlagTypes, LimitTypes
<1> QED
    BY <1>5, <1>6, <1>7, <1>8, AdjustStepTypes, LocalTypes, Zenon

\* disconnect, which makes the queued items stale.
LEMMA DisconnectTypes ==
    ASSUME TypeOK, NEW t \in Producers, NEW api, disconnect(t, api)
    PROVE  TypeOK'
<1>1. SlotTypes /\ ListTypes
    BY DEF TypeOK
<1>2. mQueue' \in Seq(BufferItems)
    <2> DEFINE stale(x) == [x EXCEPT !.mIsStale = TRUE, !.mAcquireCalled = FALSE]
    <2>1. \A x \in BufferItems : stale(x) \in BufferItems
        BY Zenon DEF BufferItems
    <2>2. mQueue' = [i \in 1 .. Len(mQueue) |-> stale(mQueue[i])]
        BY Zenon DEF disconnect, staleQueue
    <2>3. mQueue \in Seq(BufferItems) /\ Len(mQueue) \in Nat
        BY <1>1 DEF SlotTypes
    <2> HIDE DEF stale
    <2>4. mQueue' \in [1 .. Len(mQueue) -> BufferItems]
        BY <2>1, <2>2, <2>3
    <2> QED
        BY <2>3, <2>4
<1>3. ListTypes' /\ mSlots' \in [SlotIds -> BufferSlots]
    BY <1>1, FreeAllTypes DEF disconnect, ListTypes
<1>4. thread' \in [Producers -> Threads] /\ owed' \subseteq Producers
    BY LocalTypes, ThreadTypes DEF disconnect, Owes
<1>5. UNCHANGED <<limitVars, mIsAbandoned, mConsumerListener, mode, frameVars,
                  allocationVars, callbackVars, consumerVars, outside>>
    BY DEF disconnect
<1>6. LimitTypes' /\ ClientTypes'
    BY <1>5 DEF TypeOK, LimitTypes, ClientTypes
<1>7. FlagTypes'
    BY <1>5 DEF TypeOK, FlagTypes, disconnect
<1>8. acquiring.step # "drop"
    BY Zenon DEF disconnect, At, MutexFree
<1>9. CallTypes'
    BY <1>4, <1>5, <1>8 DEF TypeOK, CallTypes
<1> QED
    BY <1>2, <1>3, <1>6, <1>7, <1>9 DEF TypeOK, SlotTypes

\* The producer's operations that change a limit.
LEMMA SetLimitTypes ==
    ASSUME TypeOK, NEW t \in Producers
    PROVE  /\ \A n \in Counts : setMaxDequeuedBufferCount(t, n) => TypeOK'
           /\ \A async \in BOOLEAN : setAsyncMode(t, async) => TypeOK'
           /\ \A timeout \in Timeouts : setDequeueTimeout(t, timeout) => TypeOK'
           /\ \A size \in Counts : extendSlotCount(t, size) => TypeOK'
<1>0. mode \in Modes /\ mConnectedApi \in Apis \cup {NO_CONNECTED_API}
      /\ mBufferHasBeenQueued \in BOOLEAN /\ LimitTypes
    BY DEF TypeOK, FlagTypes
<1>1. ASSUME NEW n \in Counts, setMaxDequeuedBufferCount(t, n) PROVE TypeOK'
    <2>1. n \in Nat
        BY InputAssumption
    <2> DEFINE asked == getMinUndequeuedBufferCount + n
               bufferCount == IF asked > getTotalSlotCount THEN NUM_BUFFER_SLOTS ELSE asked
               count == bufferCount - getMinUndequeuedBufferCount
    <2>2. count \in Int /\ count - mMaxDequeuedBufferCount \in Int
        BY <1>0, <2>1, LimitValues, SlotAssumption DEF LimitTypes
    <2> HIDE DEF count
    <2>3. /\ adjustAvailableSlots(count - mMaxDequeuedBufferCount)
          /\ mMaxDequeuedBufferCount' = count
          /\ thread' = notifyBufferReleased(thread)
          /\ Owes(t, count < mMaxDequeuedBufferCount)
          /\ UNCHANGED <<mQueue, mActiveBuffers, mSharedBufferSlot, slotCount, mMaxBufferCount,
                         mMaxAcquiredBufferCount, connectionVars, mode, frameVars, allocationVars,
                         callbackVars, consumerVars, outside>>
        BY <1>1, Zenon DEF setMaxDequeuedBufferCount, count
    <2>4. LimitTypes' /\ owed' \subseteq Producers
        BY <1>0, <2>2, <2>3, LocalTypes DEF LimitTypes, Owes
    <2> QED
        <3>1. thread' \in [Producers -> Threads]
            BY <2>3, LocalTypes, ThreadTypes
        <3>2. PICK delta \in Int : adjustAvailableSlots(delta)
            BY <2>2, <2>3
        <3> QED
            BY <1>0, <2>3, <2>4, <3>1, <3>2, AdjustStepTypes
<1>2. ASSUME NEW async \in BOOLEAN, setAsyncMode(t, async) PROVE TypeOK'
    <2>1. mode' \in Modes
        BY <1>0, <1>2 DEF setAsyncMode, Modes
    <2>2. LimitTypes' /\ owed' \subseteq Producers
        BY <1>0, <1>2, LocalTypes DEF setAsyncMode, LimitTypes, Owes
    <2> QED
        BY <1>0, <1>2, <2>1, <2>2, LimitValues, AdjustStepTypes, LocalTypes, ThreadTypes
        DEF setAsyncMode
<1>3. ASSUME NEW timeout \in Timeouts, setDequeueTimeout(t, timeout) PROVE TypeOK'
    <2>1. timeout \in Int
        BY InputAssumption
    <2> DEFINE cannotBlock == timeout < 0 /\ mode.mDequeueBufferCannotBlock
               canDrop == mode.mQueueBufferCanDrop /\ timeout <= 0
    <2>2. cannotBlock \in BOOLEAN /\ canDrop \in BOOLEAN
        BY <2>1
    <2>3. \A x, y \in BOOLEAN :
            [mode EXCEPT !.mDequeueTimeout = timeout, !.mDequeueBufferCannotBlock = x,
                         !.mQueueBufferCanDrop = y] \in Modes
        BY <1>0, <2>1, Zenon DEF Modes
    <2>4. mode' = [mode EXCEPT !.mDequeueTimeout = timeout,
                               !.mDequeueBufferCannotBlock = cannotBlock,
                               !.mQueueBufferCanDrop = canDrop]
        BY <1>3, Zenon DEF setDequeueTimeout
    <2> HIDE DEF cannotBlock, canDrop
    <2>5. mode' \in Modes
        BY <2>2, <2>3, <2>4, Zenon
    <2>6. PICK delta \in Int : adjustAvailableSlots(delta)
        BY <1>3, LimitValues DEF setDequeueTimeout
    <2>7. LimitTypes'
        BY <1>0, <1>3 DEF setDequeueTimeout, LimitTypes
    <2> QED
        BY <1>0, <1>3, <2>5, <2>6, <2>7, AdjustStepTypes, LocalTypes DEF setDequeueTimeout
<1>4. ASSUME NEW size \in Counts, extendSlotCount(t, size) PROVE TypeOK'
    <2>1. LimitTypes'
        BY <1>0, <1>4, InputAssumption, SlotAssumption DEF extendSlotCount, LimitTypes
    <2>2. ListTypes'
        BY <1>0, <1>4, InputAssumption, SlotAssumption
        DEF extendSlotCount, TypeOK, LimitTypes, ListTypes, SlotIds
    <2> QED
        BY <1>4, <2>1, <2>2 DEF extendSlotCount, TypeOK, SlotTypes, FlagTypes, CallTypes, ClientTypes
<1> QED
    BY <1>1, <1>2, <1>3, <1>4

\* The operations that only set flags of the mode.
LEMMA ModeTypes ==
    ASSUME TypeOK, NEW t
    PROVE  /\ \A b \in BOOLEAN : /\ setSharedBufferMode(t, b) => TypeOK'
                                 /\ allowAllocation(t, b) => TypeOK'
                                 /\ setAutoRefresh(t, b) => TypeOK'
                                 /\ setLegacyBufferDrop(t, b) => TypeOK'
                                 /\ allowUnlimitedSlots(b) => TypeOK'
                                 /\ setAllowExtraAcquire(b) => TypeOK'
           /\ \A g \in Generations : setGenerationNumber(t, g) => TypeOK'
           /\ \A m \in {"DEFAULT", "FIFO_LATEST_READY"} : setPresentMode(t, m) => TypeOK'
           /\ \A a \in Attributes : setDefaultBufferSize(a) => TypeOK'
<1>0. mode \in Modes
    BY DEF TypeOK, FlagTypes
<1>1. ASSUME mode' \in Modes, mSharedBufferSlot' \in {mSharedBufferSlot, INVALID_BUFFER_SLOT},
             UNCHANGED notMode
      PROVE  TypeOK'
    BY <1>1 DEF TypeOK, SlotTypes, ListTypes, LimitTypes, FlagTypes, CallTypes, ClientTypes
<1>2. ASSUME NEW b \in BOOLEAN, setSharedBufferMode(t, b) PROVE TypeOK'
    BY <1>0, <1>1, <1>2 DEF setSharedBufferMode, Modes
<1>3. ASSUME NEW b \in BOOLEAN, allowAllocation(t, b) PROVE TypeOK'
    BY <1>0, <1>1, <1>3 DEF allowAllocation, Modes
<1>4. ASSUME NEW b \in BOOLEAN, setAutoRefresh(t, b) PROVE TypeOK'
    BY <1>0, <1>1, <1>4 DEF setAutoRefresh, Modes
<1>5. ASSUME NEW b \in BOOLEAN, setLegacyBufferDrop(t, b) PROVE TypeOK'
    BY <1>0, <1>1, <1>5 DEF setLegacyBufferDrop, Modes
<1>6. ASSUME NEW b \in BOOLEAN, allowUnlimitedSlots(b) PROVE TypeOK'
    BY <1>0, <1>1, <1>6 DEF allowUnlimitedSlots, Modes
<1>7. ASSUME NEW b \in BOOLEAN, setAllowExtraAcquire(b) PROVE TypeOK'
    BY <1>0, <1>1, <1>7 DEF setAllowExtraAcquire, Modes
<1>8. ASSUME NEW g \in Generations, setGenerationNumber(t, g) PROVE TypeOK'
    <2>1. g \in Nat
        BY InputAssumption
    <2> QED
        BY <1>0, <1>1, <1>8, <2>1 DEF setGenerationNumber, Modes
<1>9. ASSUME NEW m \in {"DEFAULT", "FIFO_LATEST_READY"}, setPresentMode(t, m) PROVE TypeOK'
    BY <1>0, <1>1, <1>9, Zenon DEF setPresentMode, Modes
<1>10. ASSUME NEW a \in Attributes, setDefaultBufferSize(a) PROVE TypeOK'
    BY <1>0, <1>1, <1>10 DEF setDefaultBufferSize, Modes
<1> QED
    BY <1>2, <1>3, <1>4, <1>5, <1>6, <1>7, <1>8, <1>9, <1>10

\* The producer's calls that set limits and modes keep the types.
LEMMA ConfigureTypes ==
    ASSUME TypeOK, NEW t \in Producers, Configure(t)
    PROVE  TypeOK'
<1>1. CASE \E api \in ConnectApis, byApp \in ControlledByApp : connect(t, api, byApp)
    <2>1. ControlledByApp \subseteq BOOLEAN
        BY InputAssumption
    <2> QED
        BY <1>1, <2>1, ConnectTypes
<1>2. CASE \E api \in ConnectApis : disconnect(t, api)
    BY <1>2, DisconnectTypes
<1>3. CASE \/ \E n \in Counts : setMaxDequeuedBufferCount(t, n) \/ extendSlotCount(t, n)
           \/ \E b \in BOOLEAN : setAsyncMode(t, b)
           \/ \E d \in Timeouts : setDequeueTimeout(t, d)
    BY <1>3, SetLimitTypes
<1>4. CASE \/ \E b \in BOOLEAN : \/ setSharedBufferMode(t, b) \/ allowAllocation(t, b)
                                 \/ setAutoRefresh(t, b) \/ setLegacyBufferDrop(t, b)
           \/ \E g \in Generations : setGenerationNumber(t, g)
           \/ \E m \in {"DEFAULT", "FIFO_LATEST_READY"} : setPresentMode(t, m)
    BY <1>4, ModeTypes
<1> QED
    BY <1>1, <1>2, <1>3, <1>4, Zenon DEF Configure
=============================================================================
