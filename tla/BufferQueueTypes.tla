-------------------------- MODULE BufferQueueTypes --------------------------
(***************************************************************************)
(* Proof that a BufferQueue keeps the types of its variables, for any      *)
(* number of slots, threads and frames and any set of calls.               *)
(***************************************************************************)
EXTENDS BufferQueueProducerTypes

USE DEF listVars, limitVars, connectionVars, allocationVars, frameVars, callbackVars,
        consumerVars, notSlots, notQueue, notMode, notConfig

-----------------------------------------------------------------------------
(* The consumer's operations.                                              *)

\* A step of acquireBuffer or releaseBuffer.
LEMMA ConsumerStepTypes ==
    ASSUME TypeOK, mSlots' \in [SlotIds -> BufferSlots], mQueue' \in Seq(BufferItems),
           mActiveBuffers' \subseteq SlotIds, mFreeBuffers' \in Seq(SlotIds),
           thread' \in [Producers -> Threads], acquiring' \in Acquirings,
           acquiring'.step = "drop" => mQueue' # <<>>,
           DOMAIN held' \subseteq Holdings, delivered' \in Nat,
           UNCHANGED <<mFreeSlots, mUnusedSlots, mSharedBufferSlot, notQueue>>
    PROVE  TypeOK'
BY Zenon DEF TypeOK, SlotTypes, ListTypes, LimitTypes, FlagTypes, CallTypes, ClientTypes

\* What the consumer's steps start from.
LEMMA ConsumerTypes ==
    ASSUME TypeOK
    PROVE  /\ mSlots \in [SlotIds -> BufferSlots] /\ mQueue \in Seq(BufferItems) /\ ListTypes
           /\ thread \in [Producers -> Threads] /\ acquiring \in Acquirings
           /\ acquiring.step = "drop" => mQueue # <<>>
           /\ NotAcquiring \in Acquirings /\ NotAcquiring.step # "drop"
           /\ DOMAIN held \subseteq Holdings /\ delivered \in Nat /\ mFrameCounter \in Nat
           /\ mQueue # <<>> => Head(mQueue) \in BufferItems /\ Tail(mQueue) \in Seq(BufferItems)
<1>1. NotAcquiring \in Acquirings /\ NotAcquiring.step # "drop"
    BY DEF NotAcquiring, Acquirings
<1>2. mQueue \in Seq(BufferItems)
    BY DEF TypeOK, SlotTypes
<1> QED
    BY <1>1, <1>2, FrontAndRest DEF TypeOK, SlotTypes, FlagTypes, CallTypes, ClientTypes

\* acquireBuffer takes the front of the queue.
LEMMA TakesFrontTypes ==
    ASSUME TypeOK, mQueue # <<>>, TakesFront
    PROVE  /\ mSlots' \in [SlotIds -> BufferSlots] /\ mQueue' \in Seq(BufferItems)
           /\ thread' \in [Producers -> Threads]
           /\ DOMAIN held' \subseteq Holdings /\ delivered' \in Nat
<1> DEFINE front == Head(mQueue)
           b == [mSlots[front.mSlot] EXCEPT !.mAcquireCalled = TRUE]
<1>1. front \in BufferItems
    BY ConsumerTypes
<1>2. /\ front.mSlot \in SlotIds /\ front.mFrameNumber \in Nat
      /\ front.mGraphicBuffer \in MaybeBuffer
    BY <1>1 DEF BufferItems
<1> HIDE DEF front
<1>3. b \in BufferSlots
    <2>1. mSlots[front.mSlot] \in BufferSlots
        BY <1>2, ConsumerTypes
    <2> QED
        BY <2>1, Zenon DEF BufferSlots
<1>4. [slot |-> front.mSlot, frame |-> front.mFrameNumber, buffer |-> front.mGraphicBuffer]
        \in Holdings
    BY <1>2 DEF Holdings
<1>5. mSlots' = IF front.mIsStale THEN mSlots
                ELSE [mSlots EXCEPT ![front.mSlot] = acquire(b)]
    BY DEF TakesFront, front
<1> HIDE DEF b
<1>6. mSlots' \in [SlotIds -> BufferSlots]
    BY <1>2, <1>3, <1>5, ConsumerTypes, TransitionTypes
<1> QED
    BY <1>2, <1>4, <1>6, ConsumerTypes, HoldingTypes, ThreadTypes DEF TakesFront, front

\* The steps of acquireBuffer on a nonempty queue.
LEMMA AcquireTypes ==
    ASSUME TypeOK
    PROVE  /\ \A p : acquireBuffer(p) => TypeOK'
           /\ \A p \in ExpectedPresents, f \in MaxFrameNumbers :
                acquireStartsDropping(p, f) => TypeOK'
           /\ acquireDropsFront => TypeOK'
           /\ acquireAfterDropping => TypeOK'
           /\ acquireReturnsLater => TypeOK'
           /\ acquireWaitsWhileAllocating => TypeOK'
<1>1. ASSUME NEW p, acquireBuffer(p) PROVE TypeOK'
    BY <1>1, ConsumerTypes, TakesFrontTypes, ConsumerStepTypes
    DEF acquireBuffer, Calling, MutexFree, ListTypes
<1>2. ASSUME NEW p \in ExpectedPresents, NEW f \in MaxFrameNumbers, acquireStartsDropping(p, f)
      PROVE  TypeOK'
    <2>1. p \in Nat /\ f \in Nat
        BY InputAssumption
    <2>2. acquireNonDroppableBuffer \in BOOLEAN
        BY DEF acquireNonDroppableBuffer
    <2>3. acquiring' \in Acquirings
        BY <1>2, <2>1, <2>2 DEF acquireStartsDropping, Acquirings
    <2> QED
        BY <1>2, <2>3, ConsumerTypes, ConsumerStepTypes DEF acquireStartsDropping, ListTypes
<1>3. ASSUME acquireDropsFront PROVE TypeOK'
    <2>1. mQueue # <<>> /\ mQueue' = Tail(mQueue) /\ mQueue' # <<>>
        <3>1. mQueue # <<>> /\ mQueue' = Tail(mQueue) /\ Len(mQueue) > 1
            BY <1>3, ConsumerTypes DEF acquireDropsFront, DropsFront
        <3>2. Len(mQueue') = Len(mQueue) - 1 /\ Len(mQueue) \in Nat
            BY <3>1, ConsumerTypes, FrontAndRest
        <3>3. Len(mQueue') # 0 /\ Len(<<>>) = 0
            BY <3>1, <3>2
        <3> QED
            BY <3>1, <3>3, Zenon
    <2>2. Head(mQueue).mSlot \in SlotIds
        BY <2>1, ConsumerTypes DEF BufferItems
    <2>3. freeQueued(mSlots[Head(mQueue).mSlot]) \in BufferSlots
        BY <2>2, ConsumerTypes, TransitionTypes, Zenon
    <2>4. /\ mSlots' \in [SlotIds -> BufferSlots]
          /\ mActiveBuffers' \subseteq SlotIds /\ mFreeBuffers' \in Seq(SlotIds)
        <3>1. CASE Head(mQueue).mIsStale
            BY <1>3, <3>1, ConsumerTypes DEF acquireDropsFront, ListTypes
        <3>2. CASE ~Head(mQueue).mIsStale
            BY <1>3, <2>2, <2>3, <3>2, ConsumerTypes, GiveBackTypes DEF acquireDropsFront
        <3> QED
            BY <3>1, <3>2
    <2> QED
        BY <1>3, <2>1, <2>4, ConsumerTypes, ConsumerStepTypes DEF acquireDropsFront
<1>4. ASSUME acquireAfterDropping PROVE TypeOK'
    BY <1>4, ConsumerTypes, TakesFrontTypes, ConsumerStepTypes DEF acquireAfterDropping, ListTypes
<1>5. ASSUME acquireReturnsLater PROVE TypeOK'
    BY <1>5, ConsumerTypes, ConsumerStepTypes DEF acquireReturnsLater, ListTypes
<1>6. ASSUME acquireWaitsWhileAllocating PROVE TypeOK'
    <2>1. acquiring' \in Acquirings /\ acquiring'.step # "drop"
        BY <1>6, Zenon DEF acquireWaitsWhileAllocating, NotAcquiring, Acquirings
    <2> QED
        BY <1>6, <2>1, ConsumerTypes, ConsumerStepTypes DEF acquireWaitsWhileAllocating, ListTypes
<1> QED
    BY <1>1, <1>2, <1>3, <1>4, <1>5, <1>6

\* acquireBuffer gives out the shared buffer again.
LEMMA AcquireSharedTypes ==
    ASSUME TypeOK, acquireSharedBuffer
    PROVE  TypeOK'
<1> DEFINE s == mSharedBufferSlot
           b == [mSlots[s] EXCEPT !.mAcquireCalled = TRUE]
<1>1. s \in SlotIds
    BY ConsumerTypes DEF acquireSharedBuffer, ListTypes
<1> HIDE DEF s
<1>2. b \in BufferSlots /\ mSlots[s].mGraphicBuffer \in MaybeBuffer
    BY <1>1, ConsumerTypes, Zenon DEF BufferSlots
<1>3. mSlots' = [mSlots EXCEPT ![s] = IF mQueue = <<>> THEN acquireNotInQueue(b) ELSE acquire(b)]
    BY DEF acquireSharedBuffer, s
<1> HIDE DEF b
<1>4. mSlots' \in [SlotIds -> BufferSlots]
    BY <1>1, <1>2, <1>3, ConsumerTypes, TransitionTypes
<1>5. mQueue' \in Seq(BufferItems)
    BY ConsumerTypes DEF acquireSharedBuffer
<1>6. [slot |-> s, frame |-> mFrameCounter, buffer |-> mSlots[s].mGraphicBuffer] \in Holdings
    BY <1>1, <1>2, ConsumerTypes, Zenon DEF Holdings
<1>7. DOMAIN held' \subseteq Holdings
    BY <1>6, ConsumerTypes, HoldingTypes DEF acquireSharedBuffer, s
<1>8. thread' \in [Producers -> Threads]
    BY ConsumerTypes, ThreadTypes DEF acquireSharedBuffer
<1> QED
    BY <1>4, <1>5, <1>7, <1>8, ConsumerTypes, ConsumerStepTypes DEF acquireSharedBuffer, ListTypes

\* releaseBuffer and the consumer's detachBuffer.
LEMMA ReleaseTypes ==
    ASSUME TypeOK, NEW h \in DOMAIN held
    PROVE  /\ releaseIsRefused(h) => TypeOK'
           /\ releaseBuffer(h) => TypeOK'
           /\ detachAcquired(h) => TypeOK'
<1>1. h \in Holdings /\ DOMAIN Without(h) \subseteq Holdings
    BY ConsumerTypes, HoldingTypes
<1>2. h.slot \in SlotIds /\ h.buffer \in MaybeBuffer
    BY <1>1 DEF Holdings
<1>3. ASSUME releaseIsRefused(h) PROVE TypeOK'
    BY <1>1, <1>3, ConsumerTypes, ConsumerStepTypes DEF releaseIsRefused, ListTypes
<1>4. ASSUME releaseBuffer(h) PROVE TypeOK'
    <2>1. release(mSlots[h.slot]) \in BufferSlots
        BY <1>2, ConsumerTypes, TransitionTypes
    <2>2. /\ mSlots' \in [SlotIds -> BufferSlots]
          /\ mActiveBuffers' \subseteq SlotIds /\ mFreeBuffers' \in Seq(SlotIds)
        <3>1. giveBack(h.slot, release(mSlots[h.slot]), mSlots, mFreeBuffers, mActiveBuffers)
            BY <1>4 DEF releaseBuffer
        <3> QED
            BY <1>2, <2>1, <3>1, ConsumerTypes, GiveBackTypes
    <2>3. /\ thread' = notifyBufferReleased(thread) /\ held' = Without(h)
          /\ UNCHANGED <<mQueue, mFreeSlots, mUnusedSlots, mSharedBufferSlot, acquiring, delivered,
                         notQueue>>
        BY <1>4 DEF releaseBuffer
    <2>4. thread' \in [Producers -> Threads]
        BY <2>3, ConsumerTypes, ThreadTypes
    <2> QED
        BY <1>1, <2>2, <2>3, <2>4, ConsumerTypes, ConsumerStepTypes
<1>5. ASSUME detachAcquired(h) PROVE TypeOK'
    <2>1. mSlots' \in [SlotIds -> BufferSlots] /\ ListTypes'
        BY <1>2, <1>5, ConsumerTypes, ClearTypes DEF detachAcquired, ListTypes
    <2>2. thread' \in [Producers -> Threads]
        BY <1>5, ConsumerTypes, ThreadTypes DEF detachAcquired
    <2>3. ClientTypes'
        BY <1>1, <1>2, <1>5 DEF detachAcquired, TypeOK, ClientTypes, MaybeBuffer
    <2>4. UNCHANGED <<mQueue, limitVars, connectionVars, mode, frameVars, allocationVars,
                      callbackVars, owed, acquiring, delivered>>
        BY <1>5 DEF detachAcquired
    <2> QED
        BY <2>1, <2>2, <2>3, <2>4 DEF TypeOK, SlotTypes, LimitTypes, FlagTypes, CallTypes
<1> QED
    BY <1>3, <1>4, <1>5

\* The consumer's attachBuffer.
LEMMA AttachAcquiredTypes ==
    ASSUME TypeOK, NEW b \in outside.consumer, attachAcquired(b)
    PROVE  TypeOK'
<1>0. b \in Buffers /\ b \in MaybeBuffer
    BY DEF TypeOK, ClientTypes, MaybeBuffer
<1>1. PICK found \in SlotIds :
        /\ \/ /\ mFreeSlots' = mFreeSlots \ {found}
              /\ UNCHANGED mFreeBuffers
           \/ /\ mFreeBuffers # <<>>
              /\ mFreeBuffers' = Tail(mFreeBuffers)
              /\ UNCHANGED mFreeSlots
        /\ mActiveBuffers' = mActiveBuffers \cup {found}
        /\ mSlots' = [mSlots EXCEPT ![found] =
                         acquireNotInQueue([@ EXCEPT !.mGraphicBuffer = b,
                                                     !.mNeedsReallocation = TRUE,
                                                     !.mFrameNumber = 0,
                                                     !.mAcquireCalled = FALSE])]
        /\ held' = With([slot |-> found, frame |-> 0, buffer |-> b])
        /\ outside' = [outside EXCEPT !.consumer = @ \ {b}]
        /\ UNCHANGED <<mQueue, mUnusedSlots, mSharedBufferSlot, limitVars, connectionVars, mode,
                       frameVars, allocationVars, callbackVars, owed, thread, acquiring,
                       delivered>>
    BY Zenon DEF attachAcquired
<1> DEFINE new == [mSlots[found] EXCEPT !.mGraphicBuffer = b, !.mNeedsReallocation = TRUE,
                                        !.mFrameNumber = 0, !.mAcquireCalled = FALSE]
           h == [slot |-> found, frame |-> 0, buffer |-> b]
<1>2. new \in BufferSlots /\ h \in Holdings
    BY <1>0, ConsumerTypes, Zenon DEF BufferSlots, Holdings
<1>3. mSlots' = [mSlots EXCEPT ![found] = acquireNotInQueue(new)] /\ held' = With(h)
    BY <1>1, ConsumerTypes
<1> HIDE DEF new, h
<1>4. mSlots' \in [SlotIds -> BufferSlots]
    BY <1>2, <1>3, ConsumerTypes, TransitionTypes
<1>5. ListTypes'
    BY <1>1, ConsumerTypes, FrontAndRest, Zenon DEF ListTypes
<1>6. DOMAIN held' \subseteq Holdings
    BY <1>2, <1>3, ConsumerTypes, HoldingTypes
<1>7. outside' \in [producer : SUBSET Buffers, consumer : SUBSET Buffers]
    BY <1>1 DEF TypeOK, ClientTypes
<1> QED
    BY <1>1, <1>4, <1>5, <1>6, <1>7
   , Zenon DEF TypeOK, SlotTypes, LimitTypes, FlagTypes, CallTypes, ClientTypes

\* The consumer's connect and disconnect, and dropping buffers.
LEMMA ConsumerConnectionTypes ==
    ASSUME TypeOK
    PROVE  /\ \A byApp \in BOOLEAN : consumerConnect(byApp) => TypeOK'
           /\ consumerDisconnect => TypeOK'
           /\ discardFreeBuffers => TypeOK'
           /\ dropDetachedBuffer => TypeOK'
<1>1. ASSUME NEW byApp \in BOOLEAN, consumerConnect(byApp) PROVE TypeOK'
    <2>1. mode' \in Modes
        BY <1>1 DEF consumerConnect, TypeOK, FlagTypes, Modes
    <2>2. FlagTypes'
        BY <1>1, <2>1 DEF consumerConnect, TypeOK, FlagTypes
    <2> QED
        BY <1>1, <2>2
        DEF consumerConnect, TypeOK, SlotTypes, ListTypes, LimitTypes, CallTypes, ClientTypes
<1>2. ASSUME consumerDisconnect PROVE TypeOK'
    <2>1. mSlots' \in [SlotIds -> BufferSlots] /\ ListTypes'
        BY <1>2, FreeAllTypes DEF consumerDisconnect, TypeOK, ListTypes
    <2>2. mQueue' \in Seq(BufferItems)
        BY <1>2 DEF consumerDisconnect
    <2>3. thread' \in [Producers -> Threads]
        BY <1>2, ConsumerTypes, ThreadTypes DEF consumerDisconnect
    <2>4. UNCHANGED <<limitVars, mConnectedApi, mode, frameVars, allocationVars, callbackVars,
                      owed, consumerVars, outside>>
          /\ mIsAbandoned' = TRUE /\ mConsumerListener' = FALSE
          /\ acquiring.step # "drop"
        BY <1>2 DEF consumerDisconnect, Calling, MutexFree
    <2>5. FlagTypes' /\ LimitTypes' /\ ClientTypes'
        BY <2>4, Zenon DEF TypeOK, FlagTypes, LimitTypes, ClientTypes
    <2>6. CallTypes'
        BY <2>3, <2>4 DEF TypeOK, CallTypes
    <2> QED
        BY <2>1, <2>2, <2>5, <2>6 DEF TypeOK, SlotTypes
<1>3. ASSUME discardFreeBuffers PROVE TypeOK'
    <2>1. Range(mFreeBuffers) \subseteq SlotIds
        BY RangeInSet DEF TypeOK, ListTypes
    <2>2. mSlots' \in [SlotIds -> BufferSlots] /\ ListTypes'
        BY <1>3, <2>1, ConsumerTypes, ClearTypes DEF discardFreeBuffers, ListTypes
    <2> QED
        BY <1>3, <2>2
        DEF discardFreeBuffers, TypeOK, SlotTypes, LimitTypes, FlagTypes, CallTypes, ClientTypes
<1>4. ASSUME dropDetachedBuffer PROVE TypeOK'
    <2>1. outside' \in [producer : SUBSET Buffers, consumer : SUBSET Buffers]
        BY <1>4, Zenon DEF dropDetachedBuffer, TypeOK, ClientTypes
    <2> QED
        BY <1>4, <2>1
        DEF dropDetachedBuffer, TypeOK, SlotTypes, ListTypes, LimitTypes, FlagTypes, CallTypes,
            ClientTypes
<1> QED
    BY <1>1, <1>2, <1>3, <1>4

\* The consumer's operations that change a limit.
LEMMA ConsumerLimitTypes ==
    ASSUME TypeOK, NEW n \in Counts
    PROVE  /\ setMaxBufferCount(n) => TypeOK'
           /\ setMaxAcquiredBufferCount(n) => TypeOK'
<1>0. mode \in Modes /\ mConnectedApi \in Apis \cup {NO_CONNECTED_API}
      /\ mBufferHasBeenQueued \in BOOLEAN /\ LimitTypes /\ owed \subseteq Producers
    BY DEF TypeOK, FlagTypes, CallTypes
<1>1. n \in Nat
    BY InputAssumption
<1>2. ASSUME setMaxBufferCount(n) PROVE TypeOK'
    <2>1. PICK delta \in Int : adjustAvailableSlots(delta)
        BY <1>1, <1>2, LimitValues DEF setMaxBufferCount
    <2>2. LimitTypes'
        BY <1>0, <1>1, <1>2 DEF setMaxBufferCount, LimitTypes
    <2> QED
        BY <1>0, <1>2, <2>1, <2>2, AdjustStepTypes, ConsumerTypes DEF setMaxBufferCount
<1>3. ASSUME setMaxAcquiredBufferCount(n) PROVE TypeOK'
    <2>1. PICK delta \in Int : adjustAvailableSlots(delta)
        BY <1>0, <1>1, <1>3 DEF setMaxAcquiredBufferCount, LimitTypes
    <2>2. LimitTypes'
        BY <1>0, <1>1, <1>3 DEF setMaxAcquiredBufferCount, LimitTypes
    <2> QED
        BY <1>0, <1>3, <2>1, <2>2, AdjustStepTypes, ConsumerTypes DEF setMaxAcquiredBufferCount
<1> QED
    BY <1>2, <1>3

\* The consumer's calls keep the types.
LEMMA ConsumeTypes ==
    ASSUME TypeOK, Consume \/ ContinueAcquire
    PROVE  TypeOK'
<1>1. CASE ContinueAcquire \/ acquireWaitsWhileAllocating \/ acquireSharedBuffer
    BY <1>1, AcquireTypes, AcquireSharedTypes DEF ContinueAcquire
<1>2. CASE \E p \in ExpectedPresents :
             acquireBuffer(p) \/ \E f \in MaxFrameNumbers : acquireStartsDropping(p, f)
    BY <1>2, AcquireTypes
<1>3. CASE \E h \in DOMAIN held : releaseBuffer(h) \/ releaseIsRefused(h) \/ detachAcquired(h)
    BY <1>3, ReleaseTypes
<1>4. CASE \E b \in outside.consumer : attachAcquired(b)
    BY <1>4, AttachAcquiredTypes
<1>5. CASE \/ \E byApp \in ControlledByApp : consumerConnect(byApp)
           \/ consumerDisconnect \/ discardFreeBuffers
    <2>1. ControlledByApp \subseteq BOOLEAN
        BY InputAssumption
    <2> QED
        BY <1>5, <2>1, ConsumerConnectionTypes
<1>6. CASE \E n \in Counts : setMaxBufferCount(n) \/ setMaxAcquiredBufferCount(n)
    BY <1>6, ConsumerLimitTypes
<1>7. CASE \/ \E b \in BOOLEAN : allowUnlimitedSlots(b) \/ setAllowExtraAcquire(b)
           \/ \E a \in Attributes : setDefaultBufferSize(a)
    BY <1>7, ModeTypes
<1> QED
    BY <1>1, <1>2, <1>3, <1>4, <1>5, <1>6, <1>7, Zenon DEF Consume

-----------------------------------------------------------------------------
(* The invariant.                                                          *)

\* A new BufferQueueCore is well typed.
LEMMA InitTypes == Init => TypeOK
<1> SUFFICES ASSUME Init PROVE TypeOK
    OBVIOUS
<1>1. 0 .. 1 \subseteq SlotIds /\ 2 .. NUM_BUFFER_SLOTS - 1 \subseteq SlotIds
    BY SlotAssumption DEF SlotIds
<1>2. NewSlot \in BufferSlots
    BY DEF NewSlot, BufferSlots, MaybeBuffer
<1>3. SlotTypes /\ ListTypes
    BY <1>1, <1>2 DEF Init, SlotTypes, ListTypes
<1>4. LimitTypes
    BY SlotAssumption DEF Init, LimitTypes
<1>5. 1 \in Attributes
    BY InputAssumption DEF Attributes
<1>6. mode \in Modes
    BY <1>5 DEF Init, Modes
<1>7. FlagTypes
    BY <1>6, Zenon DEF Init, FlagTypes
<1>8. NotAcquiring \in Acquirings /\ NotAcquiring.step # "drop"
    BY DEF NotAcquiring, Acquirings
<1>9. Idle \in Threads
    BY IdleUpdates, Zenon
<1>10. CallTypes
    BY <1>8, <1>9, Zenon DEF Init, CallTypes
<1>11. ClientTypes
    BY DEF Init, ClientTypes
<1> QED
    BY <1>3, <1>4, <1>7, <1>10, <1>11 DEF TypeOK

\* No step of the producers or of the consumer leaves the types.
LEMMA NextTypes == TypeOK /\ [Next]_vars => TypeOK'
<1> SUFFICES ASSUME TypeOK, [Next]_vars PROVE TypeOK'
    OBVIOUS
<1>1. ASSUME NEW t \in Producers, Continue(t) \/ Produce(t) \/ Configure(t) \/ wakesSpuriously(t)
      PROVE  TypeOK'
    BY <1>1, ContinueTypes, ProduceTypes, ConfigureTypes, DequeueWaitTypes
<1>2. CASE ContinueAcquire \/ Consume
    BY <1>2, ConsumeTypes
<1>3. CASE dropDetachedBuffer
    BY <1>3, ConsumerConnectionTypes
<1>4. CASE UNCHANGED vars
    BY <1>4, Zenon DEF vars, TypeOK, SlotTypes, ListTypes, LimitTypes, FlagTypes, CallTypes, ClientTypes
<1> QED
    BY <1>1, <1>2, <1>3, <1>4 DEF Next

\* In every behaviour of a BufferQueue the shared state keeps its types: in
\* particular every slot index kept in a list, an item, a holding or a thread
\* is an index of mSlots, and the drop loop of acquireBuffer never empties
\* the queue it then takes the front of.
THEOREM TypeCorrect == Spec => []TypeOK
BY InitTypes, NextTypes, PTL DEF Spec
=============================================================================
