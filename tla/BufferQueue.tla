----------------------------- MODULE BufferQueue -----------------------------
(***************************************************************************)
(* A BufferQueue: producer threads and one consumer that share a           *)
(* BufferQueueCore.  The constant Calls says which of the optional         *)
(* operations the clients use.                                             *)
(***************************************************************************)
EXTENDS BufferQueueProducer, BufferQueueConsumer

\* A client lets go of a buffer it has detached.
dropDetachedBuffer ==
    /\ MutexFree
    /\ \E side \in {"producer", "consumer"} : \E b \in outside[side] :
         /\ \A t \in Producers : thread[t].buffer # b
         /\ outside' = [outside EXCEPT ![side] = @ \ {b}]
    /\ UNCHANGED <<mSlots, mQueue, listVars, mSharedBufferSlot, limitVars, connectionVars, mode,
                   frameVars, allocationVars, callbackVars, thread, owed, consumerVars>>

\* The consumer's listener has handled onBuffersReleased.
onBuffersReleased(t) ==
    /\ t \in owed
    /\ owed' = owed \ {t}
    /\ UNCHANGED <<mSlots, mQueue, listVars, mSharedBufferSlot, limitVars, connectionVars, mode,
                   frameVars, allocationVars, callbackVars, thread, consumerVars, outside>>

\* Steps of a call in progress: they depend on the scheduler, not on a client.
Proceeds(t) ==
    \/ dequeueWaitsWhileAllocating(t) \/ dequeueReturnsError(t) \/ dequeueFindsNothing(t)
    \/ dequeueReusesBuffer(t) \/ dequeueReallocates(t)
    \/ \E ok \in AllocationResults : dequeueFinishesAllocation(t, ok)
    \/ dequeueTimesOut(t)
    \/ queueCallsBack(t)
    \/ /\ "allocateBuffers" \in Calls
       /\ \/ allocateBuffersReturns(t) \/ allocateBuffersStarts(t)
          \/ \E ok \in AllocationResults : allocateBuffersGivesUp(t, ok)
          \/ TRUE \in AllocationResults /\ allocateBuffersFills(t)
          \/ allocateBuffersResumes(t)
    \/ /\ "detachNextBuffer" \in Calls
       /\ thread[t].pc # "idle" /\ detachNextBuffer(t)
    \/ /\ "attachBuffer" \in Calls /\ thread[t].pc # "idle"
       /\ \E b \in outside.producer :
            attachReturnsError(t, b) \/ attachFindsNothing(t, b) \/ attachBuffer(t, b)

Continue(t) == Proceeds(t) \/ onBuffersReleased(t)

Produce(t) ==
    \/ t \in Dequeuers /\ \E request \in Requests : dequeueBuffer(t, request)
    \/ \E s \in SlotIds :
         \/ requestBuffer(t, s)
         \/ "cancelBuffer" \in Calls /\ cancelBuffer(t, s)
         \/ "detachBuffer" \in Calls /\ detachBuffer(t, s)
         \/ "badCrop" \in Calls /\ queueBufferBadCrop(t, s)
         \/ \E timestamp \in Timestamps, auto \in AutoTimestamps :
              queueBuffer(t, s, timestamp, auto)
    \/ "detachNextBuffer" \in Calls /\ thread[t].pc = "idle"
       /\ (detachNextWaitsWhileAllocating(t) \/ detachNextBuffer(t))
    \/ /\ "attachBuffer" \in Calls /\ thread[t].pc = "idle"
       /\ \E b \in outside.producer :
            \/ attachWaitsWhileAllocating(t, b)
            \/ attachReturnsError(t, b) \/ attachFindsNothing(t, b) \/ attachBuffer(t, b)
    \/ /\ "allocateBuffers" \in Calls
       /\ \E request \in Requests : allocateBuffers(t, request)

Configure(t) ==
    \/ \E api \in ConnectApis, byApp \in ControlledByApp : connect(t, api, byApp)
    \/ "disconnect" \in Calls /\ \E api \in ConnectApis : disconnect(t, api)
    \/ "setMaxDequeuedBufferCount" \in Calls
       /\ \E n \in Counts : setMaxDequeuedBufferCount(t, n)
    \/ "setAsyncMode" \in Calls /\ \E b \in BOOLEAN : setAsyncMode(t, b)
    \/ "setDequeueTimeout" \in Calls /\ \E d \in Timeouts : setDequeueTimeout(t, d)
    \/ "extendSlotCount" \in Calls /\ \E n \in Counts : extendSlotCount(t, n)
    \/ "setSharedBufferMode" \in Calls /\ \E b \in BOOLEAN : setSharedBufferMode(t, b)
    \/ "allowAllocation" \in Calls /\ \E b \in BOOLEAN : allowAllocation(t, b)
    \/ "setGenerationNumber" \in Calls /\ \E g \in Generations : setGenerationNumber(t, g)
    \/ "setAutoRefresh" \in Calls /\ \E b \in BOOLEAN : setAutoRefresh(t, b)
    \/ "setLegacyBufferDrop" \in Calls /\ \E b \in BOOLEAN : setLegacyBufferDrop(t, b)
    \/ "setPresentMode" \in Calls
       /\ \E m \in {"DEFAULT", "FIFO_LATEST_READY"} : setPresentMode(t, m)

ContinueAcquire ==
    acquireDropsFront \/ acquireAfterDropping \/ acquireReturnsLater
    \/ (acquiring.step = "wait" /\ acquireSharedBuffer)

Consume ==
    \/ \E p \in ExpectedPresents :
         \/ acquireBuffer(p)
         \/ \E f \in MaxFrameNumbers : acquireStartsDropping(p, f)
    \/ "setAutoRefresh" \in Calls
       /\ (acquireWaitsWhileAllocating \/ (acquiring.step = "none" /\ acquireSharedBuffer))
    \/ \E h \in DOMAIN held :
         \/ releaseBuffer(h) \/ releaseIsRefused(h)
         \/ "detachAcquired" \in Calls /\ detachAcquired(h)
    \/ "attachAcquired" \in Calls /\ \E b \in outside.consumer : attachAcquired(b)
    \/ \E byApp \in ControlledByApp : consumerConnect(byApp)
    \/ "consumerDisconnect" \in Calls /\ consumerDisconnect
    \/ "setMaxBufferCount" \in Calls /\ \E n \in Counts : setMaxBufferCount(n)
    \/ "setMaxAcquiredBufferCount" \in Calls /\ \E n \in Counts : setMaxAcquiredBufferCount(n)
    \/ "allowUnlimitedSlots" \in Calls /\ \E b \in BOOLEAN : allowUnlimitedSlots(b)
    \/ "setDefaultBufferSize" \in Calls /\ \E a \in Attributes : setDefaultBufferSize(a)
    \/ "setAllowExtraAcquire" \in Calls /\ \E b \in BOOLEAN : setAllowExtraAcquire(b)
    \/ "discardFreeBuffers" \in Calls /\ discardFreeBuffers

Next ==
    \/ \E t \in Producers : Continue(t) \/ Produce(t) \/ Configure(t) \/ wakesSpuriously(t)
    \/ ContinueAcquire \/ Consume
    \/ dropDetachedBuffer

Spec == Init /\ [][Next]_vars

(***************************************************************************)
(* Fairness.  A thread inside a call is eventually scheduled, and what it  *)
(* calls back returns.  The consumer keeps acquiring what is queued and    *)
(* releasing what it holds, as the listeners of the framework do.  Nothing *)
(* is assumed of the producer's client between two calls.                  *)
(***************************************************************************)
Fairness ==
    /\ \A t \in Producers : WF_vars(Continue(t))
    /\ WF_vars(ContinueAcquire)
    /\ WF_vars(acquireBuffer(0))
    /\ WF_vars(\E h \in DOMAIN held : releaseBuffer(h) \/ releaseIsRefused(h))

FairSpec == Spec /\ Fairness

-----------------------------------------------------------------------------
(* Properties.                                                             *)

SlotTypes == mSlots \in [SlotIds -> BufferSlots] /\ mQueue \in Seq(BufferItems)
ListTypes ==
    /\ mFreeSlots \subseteq SlotIds /\ mFreeBuffers \in Seq(SlotIds)
    /\ mUnusedSlots \subseteq SlotIds /\ mActiveBuffers \subseteq SlotIds
    /\ mSharedBufferSlot \in SlotIds \cup {INVALID_BUFFER_SLOT}
LimitTypes ==
    /\ slotCount \in NUM_BUFFER_SLOTS .. MaxSlotCount /\ mMaxBufferCount \in Nat
    /\ mMaxAcquiredBufferCount \in Nat /\ mMaxDequeuedBufferCount \in Int
FlagTypes ==
    /\ mConnectedApi \in Apis \cup {NO_CONNECTED_API}
    /\ mIsAbandoned \in BOOLEAN /\ mConsumerListener \in BOOLEAN /\ mode \in Modes
    /\ mBufferHasBeenQueued \in BOOLEAN /\ mFrameCounter \in Nat
    /\ mIsAllocating \in BOOLEAN /\ mDequeueWaitingForAllocation \in BOOLEAN
CallTypes ==
    /\ mNextCallbackTicket \in Nat /\ mCurrentCallbackTicket \in Nat /\ notified \in Nat
    /\ thread \in [Producers -> Threads] /\ owed \subseteq Producers
    /\ acquiring \in Acquirings /\ (acquiring.step = "drop" => mQueue # <<>>)
    /\ delivered \in Nat
ClientTypes ==
    /\ DOMAIN held \subseteq Holdings
    /\ outside \in [producer : SUBSET Buffers, consumer : SUBSET Buffers]

\* The shared state has the types the headers declare.
TypeOK == SlotTypes /\ ListTypes /\ LimitTypes /\ FlagTypes /\ CallTypes /\ ClientTypes

\* Every slot that exists is in exactly one of the four lists, once.
SlotsPartitioned ==
    /\ IsInjective(mFreeBuffers)
    /\ mFreeSlots \cup Range(mFreeBuffers) \cup mUnusedSlots \cup mActiveBuffers
         = 0 .. slotCount - 1
    /\ mFreeSlots \cap (Range(mFreeBuffers) \cup mUnusedSlots \cup mActiveBuffers) = {}
    /\ mUnusedSlots \cap (Range(mFreeBuffers) \cup mActiveBuffers) = {}
    /\ Range(mFreeBuffers) \cap mActiveBuffers = {}

\* The state of every slot is the one its list stands for.  An active slot has
\* a buffer unless dequeueBuffer is allocating it without the mutex, of which
\* mIsAllocating tells the others.
SlotsMatchLists ==
    /\ \A s \in mFreeSlots \cup mUnusedSlots :
         isFree(mSlots[s]) /\ mSlots[s].mGraphicBuffer = NoBuffer
    /\ \A s \in Range(mFreeBuffers) :
         isFree(mSlots[s]) /\ mSlots[s].mGraphicBuffer # NoBuffer
    /\ \A s \in mActiveBuffers :
         /\ isFree(mSlots[s]) => mSlots[s].mShared
         /\ mSlots[s].mGraphicBuffer = NoBuffer => AllocatingFor(s) /\ mIsAllocating

\* What BufferQueueCore::validateConsistencyLocked expects whenever it runs,
\* except for its last check.
validateConsistency == SlotsPartitioned /\ SlotsMatchLists

\* The last check of validateConsistencyLocked: the number of slots in use is
\* the number the limits and the blocking mode ask for.
AllocatedSlotsMatchLimit ==
    Cardinality(mFreeSlots) + Len(mFreeBuffers) + Cardinality(mActiveBuffers)
        = getMaxBufferCount

\* What the comment in dequeueBuffer says of its wait: "such that we don't
\* allocate in parallel".  At most one thread is allocating without the mutex.
AllocationIsExclusive ==
    Cardinality({t \in Producers : thread[t].pc \in {"allocating", "preallocating"}}) <= 1

\* mQueue and the slots agree: a slot has as many queued references as there
\* are items for it that are not stale, and they carry the slot's buffer.
QueueMatchesSlots ==
    /\ \A s \in SlotIds :
         mSlots[s].mQueueCount = Cardinality({i \in 1 .. Len(mQueue) :
                                    mQueue[i].mSlot = s /\ ~mQueue[i].mIsStale})
    /\ \A i \in 1 .. Len(mQueue) :
         ~mQueue[i].mIsStale =>
             mQueue[i].mGraphicBuffer = mSlots[mQueue[i].mSlot].mGraphicBuffer

\* No buffer is in two slots, and a detached buffer is in none.
BuffersNotAliased ==
    \A s \in SlotIds : LET b == mSlots[s].mGraphicBuffer
                      IN b # NoBuffer =>
                           /\ \A r \in SlotIds \ {s} : mSlots[r].mGraphicBuffer # b
                           /\ b \notin outside.producer \cup outside.consumer

\* While the consumer holds a buffer the producer cannot get it: a slot with
\* that buffer is acquired and, unless shared, neither dequeued nor queued.
HeldBuffersExclusive ==
    \A h \in DOMAIN held, s \in SlotIds :
        h.buffer # NoBuffer /\ mSlots[s].mGraphicBuffer = h.buffer =>
            /\ isAcquired(mSlots[s])
            /\ mSlots[s].mShared \/ (~isDequeued(mSlots[s]) /\ ~isQueued(mSlots[s]))

\* No acquired slot is stuck: the consumer holds something whose release the
\* frame number check of releaseBuffer will not refuse.
AcquiredSlotsReleasable ==
    \A s \in mActiveBuffers : isAcquired(mSlots[s]) =>
        \E h \in DOMAIN held : /\ h.slot = s /\ h.buffer = mSlots[s].mGraphicBuffer
                               /\ ~IsStaleRelease(h)

\* No dequeueBuffer sleeps on mDequeueCondition while there is a slot that it
\* would find, or an abandoned queue that it would report.
NoLostWakeup ==
    \A t \in Producers : thread[t].pc = "wait" /\ MutexFree =>
        /\ ~mIsAbandoned
        /\ \/ TooManyBuffers
           \/ /\ mFreeBuffers = <<>>
              /\ mode.mAllowAllocation => mFreeSlots = {}

\* The consumer hears of queued frames in the order of their numbers, though
\* queueBuffer calls it after unlocking mMutex.
CallbacksInOrder == [][notified' > notified]_notified

\* A BufferQueue is a FrameStream: mQueue holds the frames that wait.
Stream == INSTANCE FrameStream WITH
    produced <- mFrameCounter,
    pending <- [i \in 1 .. Len(mQueue) |-> mQueue[i].mFrameNumber],
    abandoned <- mIsAbandoned
ImplementsFrameStream == Stream!Spec

\* In synchronous mode no frame is lost: acquireBuffer delivers every frame,
\* also those that a disconnect left in mQueue as stale items.
NoFrameLost == [][delivered' = delivered + 1]_delivered

\* A thread that called dequeueBuffer comes back, unless its client already
\* has every slot in use.
InUse == mFreeSlots \cup Range(mFreeBuffers) \cup mActiveBuffers
ClientHoldsAll == \A s \in InUse : isDequeued(mSlots[s])
DequeueReturns ==
    \A t \in Producers :
        thread[t].pc \in {"dequeue", "dequeueAlloc", "wait", "woken", "allocating"}
            ~> thread[t].pc = "idle" \/ ClientHoldsAll

\* allocateBuffers comes to an end, though it lets dequeueBuffer go first.
AllocateReturns ==
    \A t \in Producers : thread[t].pc \in {"prealloc", "preallocating", "preallocYield"}
                             ~> thread[t].pc = "idle"

\* queueBuffer gets its turn to call the consumer back and returns.
QueueReturns == \A t \in Producers : thread[t].pc = "callback" ~> thread[t].pc = "idle"

\* A queued frame, or a newer one in its place, reaches the consumer.
FramesArrive ==
    \A n \in 1 .. MaxFrames : mFrameCounter >= n ~> delivered >= n \/ mIsAbandoned

\* The shared slot is never lost to the lists: while there is one, it is an
\* active slot marked shared, and no other slot is taken for it.
SharedSlotIsActive ==
    mSharedBufferSlot # INVALID_BUFFER_SLOT =>
        mSharedBufferSlot \in mActiveBuffers /\ mSlots[mSharedBufferSlot].mShared
=============================================================================
