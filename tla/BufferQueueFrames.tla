------------------------- MODULE BufferQueueFrames -------------------------
(***************************************************************************)
(* Proofs about the frames of a BufferQueue: it implements FrameStream     *)
(* (unless the consumer re-acquires the shared buffer by auto refresh),    *)
(* and queueBuffer's callbacks reach the consumer in the order of the      *)
(* frames.                                                                 *)
(***************************************************************************)
EXTENDS BufferQueueTypes

USE DEF listVars, limitVars, connectionVars, allocationVars, frameVars, callbackVars,
        consumerVars, notSlots, notQueue, notMode, notConfig

-----------------------------------------------------------------------------
(* Most steps concern neither the frames nor the callbacks.                *)

\* A thread that waits for its callback ticket goes on waiting with it, and no
\* other thread begins to.
KeepsCallbacks(threads) ==
    \A u \in Producers : threads[u].pc = "callback" => threads[u] = thread[u]

\* The step leaves alone what the theorems below speak of.
Quiet ==
    /\ UNCHANGED <<mQueue, mFrameCounter, mIsAbandoned, mConsumerListener, delivered, acquiring,
                   callbackVars>>
    /\ KeepsCallbacks(thread')

\* The ways in which a quiet step updates the threads.
LEMMA KeepsCallbacksCases ==
    ASSUME thread \in [Producers -> Threads]
    PROVE  /\ KeepsCallbacks(thread) /\ KeepsCallbacks(notifyBufferReleased(thread))
           /\ \A t \in Producers : \A x :
                x.pc # "callback" => KeepsCallbacks([thread EXCEPT ![t] = x])
<1>1. KeepsCallbacks(notifyBufferReleased(thread))
    <2> SUFFICES ASSUME NEW u \in Producers, notifyBufferReleased(thread)[u].pc = "callback"
                 PROVE  notifyBufferReleased(thread)[u] = thread[u]
        BY DEF KeepsCallbacks
    <2>1. thread[u] \in Locals
        BY DEF Threads
    <2>2. \A x \in Locals : /\ [x EXCEPT !.pc = "woken"].pc = "woken"
                            /\ [x EXCEPT !.pc = "attachWoken"].pc = "attachWoken"
        BY DEF Locals
    <2> QED
        BY <2>1, <2>2 DEF notifyBufferReleased
<1>2. ASSUME NEW t \in Producers, NEW x, x.pc # "callback"
      PROVE  KeepsCallbacks([thread EXCEPT ![t] = x])
    BY <1>2 DEF KeepsCallbacks
<1> QED
    BY <1>1, <1>2 DEF KeepsCallbacks

\* The program counter after an update of a thread's locals.
LEMMA UpdatedPc ==
    ASSUME NEW x \in Threads
    PROVE  /\ \A p : [x EXCEPT !.pc = p].pc = p
           /\ \A p, v : /\ [x EXCEPT !.pc = p, !.request = v].pc = p
                        /\ [x EXCEPT !.pc = p, !.attributes = v].pc = p
                        /\ [x EXCEPT !.pc = p, !.buffer = v].pc = p
                        /\ [x EXCEPT !.pc = p, !.timed = v].pc = p
                        /\ [Idle EXCEPT !.pc = p, !.request = v].pc = p
                        /\ [Idle EXCEPT !.request = v, !.pc = p].pc = p
           /\ \A p, v, w : [Idle EXCEPT !.pc = p, !.slot = v, !.attributes = w].pc = p
BY DEF Threads, Locals, Idle

\* A step of a call that only moves thread t.
LEMMA QuietMove ==
    ASSUME NEW t \in Producers, thread \in [Producers -> Threads], NEW x, x.pc # "callback",
           thread' = [thread EXCEPT ![t] = x], UNCHANGED notSlots
    PROVE  Quiet
BY KeepsCallbacksCases, Zenon DEF Quiet

\* The thread that waits for a free slot, or returns WOULD_BLOCK.
LEMMA QuietWait ==
    ASSUME NEW t \in Producers, thread \in [Producers -> Threads], NEW x \in Threads,
           NEW sleeping \in {"wait", "attachWait"},
           waitForBufferRelease(t, x, sleeping), UNCHANGED notSlots
    PROVE  Quiet
<1> DEFINE y == IF MayNotBlock THEN Idle
                ELSE [x EXCEPT !.pc = sleeping, !.timed = mode.mDequeueTimeout >= 0]
<1>1. y.pc # "callback"
    BY UpdatedPc DEF Idle
<1>2. thread' = [thread EXCEPT ![t] = y]
    BY Zenon DEF waitForBufferRelease
<1> QED
    BY <1>1, <1>2, QuietMove, Zenon

\* dequeueBuffer, allocateBuffers and a timeout concern neither.
LEMMA QuietDequeue ==
    ASSUME TypeOK, NEW t \in Producers,
           \/ \E request \in Requests : dequeueBuffer(t, request) \/ allocateBuffers(t, request)
           \/ dequeueWaitsWhileAllocating(t) \/ dequeueReturnsError(t) \/ dequeueFindsNothing(t)
           \/ dequeueReusesBuffer(t) \/ dequeueReallocates(t)
           \/ \E ok \in BOOLEAN : dequeueFinishesAllocation(t, ok)
           \/ dequeueTimesOut(t) \/ wakesSpuriously(t)
    PROVE  Quiet
<1>0. thread \in [Producers -> Threads] /\ thread[t] \in Threads /\ Idle.pc = "idle"
    BY LocalTypes DEF Idle
<1> USE <1>0
<1>1. CASE \E request \in Requests : dequeueBuffer(t, request) \/ allocateBuffers(t, request)
    <2>1. PICK request \in Requests, p \in {"dequeue", "prealloc"} :
             /\ thread' = [thread EXCEPT ![t] = [@ EXCEPT !.pc = p, !.request = request]]
             /\ UNCHANGED notSlots
        BY <1>1, Zenon DEF dequeueBuffer, allocateBuffers
    <2> DEFINE x == [thread[t] EXCEPT !.pc = p, !.request = request]
    <2>2. x.pc # "callback" /\ thread' = [thread EXCEPT ![t] = x]
        BY <2>1, UpdatedPc
    <2> HIDE DEF x
    <2> QED
        BY <2>1, <2>2, QuietMove, Zenon
<1>2. CASE dequeueWaitsWhileAllocating(t)
    <2> DEFINE x == [thread[t] EXCEPT !.pc = "dequeueAlloc"]
    <2>1. x.pc # "callback" /\ thread' = [thread EXCEPT ![t] = x] /\ UNCHANGED notSlots
        BY <1>2, UpdatedPc DEF dequeueWaitsWhileAllocating
    <2> HIDE DEF x
    <2> QED
        BY <2>1, QuietMove, Zenon
<1>3. CASE dequeueReturnsError(t)
    BY <1>3, QuietMove, Zenon DEF dequeueReturnsError, Return
<1>4. CASE dequeueFindsNothing(t)
    <2>1. [thread[t] EXCEPT !.attributes = Wanted(t)] \in Threads
        <3>1. Wanted(t) \in 0 .. NumAttributes /\ Wanted(t) # 0
            BY LocalTypes DEF Attributes
        <3> QED
            BY <3>1, LocalUpdates, Zenon
    <2>2. /\ waitForBufferRelease(t, [thread[t] EXCEPT !.attributes = Wanted(t)], "wait")
          /\ UNCHANGED notSlots
        BY <1>4, Zenon DEF dequeueFindsNothing
    <2> QED
        BY <2>1, <2>2, QuietWait
<1>5. CASE dequeueReusesBuffer(t)
    <2>1. thread' = [thread EXCEPT ![t] = Idle] /\ UNCHANGED notSlots
        BY <1>5, Zenon DEF dequeueReusesBuffer, dequeueFinds, Return
    <2> QED
        BY <2>1, QuietMove, Zenon
<1>6. CASE dequeueReallocates(t)
    <2> DEFINE x(found) == [Idle EXCEPT !.pc = "allocating", !.slot = found,
                                        !.attributes = Wanted(t)]
    <2>1. PICK found \in SlotIds : thread' = [thread EXCEPT ![t] = x(found)] /\ UNCHANGED notSlots
        BY <1>6, Zenon DEF dequeueReallocates, dequeueFinds
    <2>2. x(found).pc # "callback"
        BY UpdatedPc
    <2> HIDE DEF x
    <2> QED
        BY <2>1, <2>2, QuietMove, Zenon
<1>7. CASE \E ok \in BOOLEAN : dequeueFinishesAllocation(t, ok)
    <2>1. thread' = [thread EXCEPT ![t] = Idle] /\ UNCHANGED notSlots
        BY <1>7, Zenon DEF dequeueFinishesAllocation, Return
    <2> QED
        BY <2>1, QuietMove, Zenon
<1>8. CASE dequeueTimesOut(t)
    BY <1>8, QuietMove, Zenon DEF dequeueTimesOut, Return
<1>9. CASE wakesSpuriously(t)
    <2>1. /\ thread' = [thread EXCEPT ![t] = notifyBufferReleased(thread)[t]]
          /\ UNCHANGED notSlots
        BY <1>9, Zenon DEF wakesSpuriously
    <2>2. CASE notifyBufferReleased(thread)[t].pc = "callback"
        <3>1. notifyBufferReleased(thread)[t] = thread[t]
            BY <2>2, KeepsCallbacksCases DEF KeepsCallbacks
        <3>2. thread' = thread
            BY <2>1, <3>1
        <3> QED
            BY <2>1, <3>2, KeepsCallbacksCases DEF Quiet
    <2> QED
        BY <2>1, <2>2, QuietMove, Zenon
<1> QED
    BY <1>1, <1>2, <1>3, <1>4, <1>5, <1>6, <1>7, <1>8, <1>9

\* Nor do requestBuffer, cancelBuffer, detachBuffer, a refused queueBuffer and
\* the callback that buffers were released.
LEMMA QuietSlotStep ==
    ASSUME TypeOK, NEW t \in Producers, NEW s \in SlotIds,
           \/ requestBuffer(t, s) \/ cancelBuffer(t, s) \/ detachBuffer(t, s)
           \/ queueBufferBadCrop(t, s) \/ onBuffersReleased(t)
    PROVE  Quiet
<1>1. thread \in [Producers -> Threads]
    BY LocalTypes
<1>2. /\ UNCHANGED <<mQueue, mFrameCounter, mIsAbandoned, mConsumerListener, delivered, acquiring,
                     callbackVars>>
      /\ UNCHANGED thread \/ thread' = notifyBufferReleased(thread)
    BY Zenon DEF requestBuffer, cancelBuffer, detachBuffer, queueBufferBadCrop, onBuffersReleased
<1> QED
    BY <1>1, <1>2, KeepsCallbacksCases DEF Quiet

\* Nor do detachNextBuffer and attachBuffer.
LEMMA QuietAttach ==
    ASSUME TypeOK, NEW t \in Producers,
           \/ detachNextWaitsWhileAllocating(t) \/ detachNextBuffer(t)
           \/ \E b \in outside.producer : \/ attachWaitsWhileAllocating(t, b)
                                          \/ attachReturnsError(t, b) \/ attachFindsNothing(t, b)
                                          \/ attachBuffer(t, b)
    PROVE  Quiet
<1>0. thread \in [Producers -> Threads] /\ thread[t] \in Threads /\ Idle.pc = "idle"
    BY LocalTypes DEF Idle
<1> USE <1>0
<1>1. CASE detachNextWaitsWhileAllocating(t)
    <2> DEFINE x == [thread[t] EXCEPT !.pc = "detachNextAlloc"]
    <2>1. x.pc # "callback" /\ thread' = [thread EXCEPT ![t] = x] /\ UNCHANGED notSlots
        BY <1>1, UpdatedPc DEF detachNextWaitsWhileAllocating
    <2> HIDE DEF x
    <2> QED
        BY <2>1, QuietMove, Zenon
<1>2. CASE detachNextBuffer(t) \/ \E b \in outside.producer :
                                     attachReturnsError(t, b) \/ attachBuffer(t, b)
    <2>1. thread' = [thread EXCEPT ![t] = Idle] /\ UNCHANGED notSlots
        BY <1>2, Zenon DEF detachNextBuffer, attachReturnsError, attachBuffer, Return
    <2> QED
        BY <2>1, QuietMove, Zenon
<1>3. ASSUME NEW b \in outside.producer, attachWaitsWhileAllocating(t, b) PROVE Quiet
    <2> DEFINE x == [thread[t] EXCEPT !.pc = "attachAlloc", !.buffer = b]
    <2>1. x.pc # "callback"
        BY UpdatedPc
    <2>2. thread' = [thread EXCEPT ![t] = x] /\ UNCHANGED notSlots
        BY <1>3, Zenon DEF attachWaitsWhileAllocating
    <2> HIDE DEF x
    <2> QED
        BY <2>1, <2>2, QuietMove, Zenon
<1>4. ASSUME NEW b \in outside.producer, attachFindsNothing(t, b) PROVE Quiet
    <2> DEFINE x == [Idle EXCEPT !.buffer = b]
    <2>1. x \in Threads
        <3>1. b \in Buffers
            BY DEF TypeOK, ClientTypes
        <3> QED
            BY <3>1, IdleUpdates, LocalUpdates, Zenon
    <2>2. waitForBufferRelease(t, x, "attachWait") /\ UNCHANGED notSlots
        BY <1>4, Zenon DEF attachFindsNothing
    <2> HIDE DEF x
    <2> QED
        BY <2>1, <2>2, QuietWait
<1> QED
    BY <1>1, <1>2, <1>3, <1>4

\* Nor does the loop of allocateBuffers.
LEMMA QuietAllocate ==
    ASSUME TypeOK, NEW t \in Producers,
           \/ allocateBuffersReturns(t) \/ allocateBuffersStarts(t)
           \/ \E ok \in BOOLEAN : allocateBuffersGivesUp(t, ok)
           \/ allocateBuffersFills(t) \/ allocateBuffersResumes(t)
    PROVE  Quiet
<1>0. thread \in [Producers -> Threads] /\ thread[t] \in Threads /\ Idle.pc = "idle"
    BY LocalTypes DEF Idle
<1> USE <1>0
<1>1. CASE allocateBuffersReturns(t)
    BY <1>1, QuietMove, Zenon DEF allocateBuffersReturns, Return
<1>2. CASE allocateBuffersStarts(t)
    <2> DEFINE x == [thread[t] EXCEPT !.pc = "preallocating",
                                      !.attributes = Resolve(thread[t].request)]
    <2>1. x.pc # "callback"
        BY UpdatedPc
    <2>2. thread' = [thread EXCEPT ![t] = x] /\ UNCHANGED notSlots
        BY <1>2, Zenon DEF allocateBuffersStarts
    <2> HIDE DEF x
    <2> QED
        BY <2>1, <2>2, QuietMove, Zenon
<1>3. ASSUME NEW ok \in BOOLEAN, allocateBuffersGivesUp(t, ok) PROVE Quiet
    <2> DEFINE x == IF ok THEN [Idle EXCEPT !.pc = "prealloc", !.request = thread[t].request]
                    ELSE Idle
    <2>1. x.pc # "callback" /\ thread' = [thread EXCEPT ![t] = x] /\ UNCHANGED notSlots
        BY <1>3, UpdatedPc DEF allocateBuffersGivesUp
    <2> HIDE DEF x
    <2> QED
        BY <2>1, QuietMove, Zenon
<1>4. CASE allocateBuffersFills(t)
    <2> DEFINE p == IF mDequeueWaitingForAllocation THEN "preallocYield" ELSE "prealloc"
               x == [Idle EXCEPT !.request = thread[t].request, !.pc = p]
    <2>1. thread' = [thread EXCEPT ![t] = x] /\ UNCHANGED notSlots
        BY <1>4, Zenon DEF allocateBuffersFills
    <2>2. x.pc # "callback"
        BY UpdatedPc
    <2> HIDE DEF x
    <2> QED
        BY <2>1, <2>2, QuietMove, Zenon
<1>5. CASE allocateBuffersResumes(t)
    <2> DEFINE x == [thread[t] EXCEPT !.pc = "prealloc"]
    <2>1. x.pc # "callback" /\ thread' = [thread EXCEPT ![t] = x] /\ UNCHANGED notSlots
        BY <1>5, UpdatedPc DEF allocateBuffersResumes
    <2> HIDE DEF x
    <2> QED
        BY <2>1, QuietMove, Zenon
<1> QED
    BY <1>1, <1>2, <1>3, <1>4, <1>5

\* Nor do the setters and connect.
LEMMA QuietConfigure ==
    ASSUME TypeOK, NEW t \in Producers, Configure(t)
    PROVE  Quiet \/ \E api \in ConnectApis : disconnect(t, api)
<1>1. thread \in [Producers -> Threads]
    BY LocalTypes
<1> DEFINE quiet == /\ UNCHANGED <<mQueue, mFrameCounter, mIsAbandoned, mConsumerListener,
                                   delivered, acquiring, callbackVars>>
                    /\ UNCHANGED thread \/ thread' = notifyBufferReleased(thread)
<1>2. quiet => Quiet
    BY <1>1, KeepsCallbacksCases DEF Quiet
<1>3. ASSUME NEW api, NEW byApp, connect(t, api, byApp) PROVE quiet
    BY <1>3, Zenon DEF connect
<1>4. ASSUME NEW n, setMaxDequeuedBufferCount(t, n) \/ extendSlotCount(t, n) PROVE quiet
    BY <1>4, Zenon DEF setMaxDequeuedBufferCount, extendSlotCount
<1>5. ASSUME NEW b, setAsyncMode(t, b) \/ setDequeueTimeout(t, b) PROVE quiet
    BY <1>5, Zenon DEF setAsyncMode, setDequeueTimeout
<1>6. ASSUME NEW b, \/ setSharedBufferMode(t, b) \/ allowAllocation(t, b)
                    \/ setGenerationNumber(t, b) \/ setAutoRefresh(t, b)
                    \/ setLegacyBufferDrop(t, b) \/ setPresentMode(t, b)
      PROVE  quiet
    BY <1>6, Zenon DEF setSharedBufferMode, allowAllocation, setGenerationNumber,
                       setAutoRefresh, setLegacyBufferDrop, setPresentMode
<1> HIDE DEF quiet
<1> QED
    BY <1>2, <1>3, <1>4, <1>5, <1>6, Zenon DEF Configure

\* Nor do the consumer's calls other than acquireBuffer, connect and
\* disconnect.
LEMMA QuietConsume ==
    ASSUME TypeOK,
           \/ \E h \in DOMAIN held : releaseBuffer(h) \/ releaseIsRefused(h) \/ detachAcquired(h)
           \/ \E b \in outside.consumer : attachAcquired(b)
           \/ \E n \in Counts : setMaxBufferCount(n) \/ setMaxAcquiredBufferCount(n)
           \/ \E b \in BOOLEAN : allowUnlimitedSlots(b) \/ setAllowExtraAcquire(b)
           \/ \E a \in Attributes : setDefaultBufferSize(a)
           \/ discardFreeBuffers \/ dropDetachedBuffer
    PROVE  Quiet
<1>1. thread \in [Producers -> Threads]
    BY ConsumerTypes
<1> DEFINE quiet == /\ UNCHANGED <<mQueue, mFrameCounter, mIsAbandoned, mConsumerListener,
                                   delivered, acquiring, callbackVars>>
                    /\ UNCHANGED thread \/ thread' = notifyBufferReleased(thread)
<1>2. quiet => Quiet
    BY <1>1, KeepsCallbacksCases DEF Quiet
<1>3. ASSUME NEW h \in DOMAIN held, releaseBuffer(h) \/ releaseIsRefused(h) \/ detachAcquired(h)
      PROVE  quiet
    BY <1>3, Zenon DEF releaseBuffer, releaseIsRefused, detachAcquired
<1>4. ASSUME NEW b, attachAcquired(b) PROVE quiet
    BY <1>4, Zenon DEF attachAcquired
<1>5. ASSUME NEW n, setMaxBufferCount(n) \/ setMaxAcquiredBufferCount(n) PROVE quiet
    BY <1>5, Zenon DEF setMaxBufferCount, setMaxAcquiredBufferCount
<1>6. ASSUME NEW b, allowUnlimitedSlots(b) \/ setAllowExtraAcquire(b) \/ setDefaultBufferSize(b)
      PROVE  quiet
    BY <1>6, Zenon DEF allowUnlimitedSlots, setAllowExtraAcquire, setDefaultBufferSize
<1>7. CASE discardFreeBuffers \/ dropDetachedBuffer
    BY <1>2, <1>7, Zenon DEF discardFreeBuffers, dropDetachedBuffer
<1> HIDE DEF quiet
<1> QED
    BY <1>2, <1>3, <1>4, <1>5, <1>6, <1>7, Zenon

\* What is left: queueBuffer and its callback, disconnect, acquireBuffer and
\* the consumer's connect and disconnect.
LEMMA NextCases ==
    ASSUME TypeOK, Next
    PROVE  \/ Quiet
           \/ \E t \in Producers : queueCallsBack(t)
           \/ \E t \in Producers : \E s \in SlotIds :
                \E timestamp \in Timestamps, auto \in AutoTimestamps :
                   queueBuffer(t, s, timestamp, auto)
           \/ \E t \in Producers : \E api \in ConnectApis : disconnect(t, api)
           \/ \E p \in ExpectedPresents :
                acquireBuffer(p) \/ \E f \in MaxFrameNumbers : acquireStartsDropping(p, f)
           \/ acquireDropsFront \/ acquireAfterDropping \/ acquireReturnsLater
           \/ acquiring.step = "wait" /\ acquireSharedBuffer
           \/ /\ "setAutoRefresh" \in Calls
              /\ acquireWaitsWhileAllocating \/ (acquiring.step = "none" /\ acquireSharedBuffer)
           \/ \E byApp \in ControlledByApp : consumerConnect(byApp)
           \/ consumerDisconnect
<1>1. AllocationResults \subseteq BOOLEAN
    BY InputAssumption
<1>2. ASSUME NEW t \in Producers, Continue(t) PROVE Quiet \/ queueCallsBack(t)
    <2>1. MaxSlotCount \in Nat /\ MaxSlotCount >= 2
        BY SlotAssumption
    <2>2. 0 \in SlotIds
        BY <2>1 DEF SlotIds
    <2> QED
        BY <1>1, <1>2, <2>2, QuietDequeue, QuietSlotStep, QuietAttach, QuietAllocate, Zenon
        DEF Continue, Proceeds
<1>3. ASSUME NEW t \in Producers, Produce(t)
      PROVE  \/ Quiet
             \/ \E s \in SlotIds : \E timestamp \in Timestamps, auto \in AutoTimestamps :
                   queueBuffer(t, s, timestamp, auto)
    BY <1>3, QuietDequeue, QuietSlotStep, QuietAttach, Zenon DEF Produce
<1>4. ASSUME NEW t \in Producers, wakesSpuriously(t) PROVE Quiet
    BY <1>4, QuietDequeue, Zenon
<1>5. CASE \E t \in Producers : Continue(t) \/ Produce(t) \/ Configure(t) \/ wakesSpuriously(t)
    BY <1>2, <1>3, <1>4, <1>5, QuietConfigure, Zenon
<1>6. CASE ContinueAcquire
    BY <1>6, Zenon DEF ContinueAcquire
<1>7. CASE Consume
    BY <1>7, QuietConsume, Zenon DEF Consume
<1>8. CASE dropDetachedBuffer
    BY <1>8, QuietConsume, Zenon
<1> QED
    BY <1>5, <1>6, <1>7, <1>8, Zenon DEF Next

-----------------------------------------------------------------------------
(* The callbacks of queueBuffer.  Tickets are given out with the frame     *)
(* numbers, under mMutex, so the order of the tickets that wait is the     *)
(* order of their frames, all of them newer than the last one notified.    *)

Waiting(t) == thread[t].pc = "callback"

CallbackInv ==
    /\ notified <= mFrameCounter /\ mCurrentCallbackTicket <= mNextCallbackTicket
    /\ \A t \in Producers : Waiting(t) =>
         /\ mCurrentCallbackTicket <= thread[t].ticket /\ thread[t].ticket < mNextCallbackTicket
         /\ notified < thread[t].frame /\ thread[t].frame <= mFrameCounter
    /\ \A t, u \in Producers : Waiting(t) /\ Waiting(u) /\ t # u =>
         /\ thread[t].ticket # thread[u].ticket
         /\ thread[t].ticket < thread[u].ticket => thread[t].frame < thread[u].frame

\* The types the callbacks need.
LEMMA CallbackTypes ==
    ASSUME TypeOK
    PROVE  /\ notified \in Nat /\ mFrameCounter \in Nat
           /\ mCurrentCallbackTicket \in Nat /\ mNextCallbackTicket \in Nat
           /\ \A t \in Producers : thread[t].ticket \in Nat /\ thread[t].frame \in Nat
<1>1. thread \in [Producers -> Threads]
    BY ConsumerTypes
<1>2. \A x \in Threads : x.ticket \in Nat /\ x.frame \in Nat
    BY DEF Threads, Locals
<1> QED
    BY <1>1, <1>2 DEF TypeOK, FlagTypes, CallTypes, ClientTypes

\* A step that keeps the counters and the waiting threads keeps the order.
LEMMA KeptCallbacks ==
    ASSUME CallbackInv, KeepsCallbacks(thread'), UNCHANGED <<mFrameCounter, callbackVars>>
    PROVE  CallbackInv' /\ UNCHANGED notified
BY DEF CallbackInv, Waiting, KeepsCallbacks

\* queueBuffer: the new frame has the newest number and the newest ticket.
LEMMA QueueCallbacks ==
    ASSUME TypeOK, CallbackInv, NEW t \in Producers, NEW s, NEW timestamp, NEW auto,
           queueBuffer(t, s, timestamp, auto)
    PROVE  CallbackInv' /\ UNCHANGED notified
<1> DEFINE x == [Idle EXCEPT !.pc = "callback", !.ticket = mNextCallbackTicket,
                             !.frame = mFrameCounter + 1]
           woken == notifyBufferReleased(thread)
<1>1. /\ mFrameCounter' = mFrameCounter + 1 /\ mNextCallbackTicket' = mNextCallbackTicket + 1
      /\ thread' = [woken EXCEPT ![t] = x]
      /\ UNCHANGED <<mCurrentCallbackTicket, notified>>
    BY Zenon DEF queueBuffer
<1>2. x.pc = "callback" /\ x.ticket = mNextCallbackTicket /\ x.frame = mFrameCounter + 1
    BY DEF Idle
<1>3. thread \in [Producers -> Threads]
    BY ConsumerTypes
<1>4. woken \in [Producers -> Threads] /\ KeepsCallbacks(woken)
    BY <1>3, ThreadTypes, KeepsCallbacksCases
<1> HIDE DEF x, woken
<1>5. thread'[t] = x /\ \A u \in Producers \ {t} : thread'[u] = woken[u]
    BY <1>1, <1>4
<1>6. \A u \in Producers \ {t} : Waiting(u)' => Waiting(u) /\ thread'[u] = thread[u]
    BY <1>4, <1>5 DEF KeepsCallbacks, Waiting
<1> QED
    BY <1>1, <1>2, <1>5, <1>6, CallbackTypes DEF CallbackInv, Waiting

\* The thread whose turn it is has the oldest ticket that waits, hence the
\* oldest frame.
LEMMA CallsBackInOrder ==
    ASSUME TypeOK, CallbackInv, NEW t \in Producers, queueCallsBack(t)
    PROVE  CallbackInv' /\ notified' > notified
<1>1. /\ Waiting(t) /\ thread[t].ticket = mCurrentCallbackTicket
      /\ notified' = thread[t].frame
      /\ mCurrentCallbackTicket' = mCurrentCallbackTicket + 1
      /\ thread' = [thread EXCEPT ![t] = Idle]
      /\ UNCHANGED <<mFrameCounter, mNextCallbackTicket>>
    BY Zenon DEF queueCallsBack, At, MyTurn, Waiting, Return
<1>2. thread \in [Producers -> Threads]
    BY ConsumerTypes
<1>3. ~Waiting(t)' /\ \A u \in Producers \ {t} : thread'[u] = thread[u]
    BY <1>1, <1>2 DEF Waiting, Idle
<1>4. \A u \in Producers \ {t} : Waiting(u) =>
         mCurrentCallbackTicket < thread[u].ticket /\ thread[t].frame < thread[u].frame
    BY <1>1, CallbackTypes DEF CallbackInv
<1> QED
    BY <1>1, <1>3, <1>4, CallbackTypes DEF CallbackInv, Waiting

\* The steps of acquireBuffer and the connections leave the callbacks alone.
LEMMA CallbacksStep ==
    ASSUME TypeOK, CallbackInv, Next
    PROVE  CallbackInv' /\ (notified' # notified => notified' > notified)
<1> DEFINE kept == UNCHANGED <<mFrameCounter, callbackVars>> /\ KeepsCallbacks(thread')
<1>1. thread \in [Producers -> Threads]
    BY ConsumerTypes
<1>2. /\ KeepsCallbacks(thread) /\ KeepsCallbacks(notifyBufferReleased(thread))
      /\ UNCHANGED thread => KeepsCallbacks(thread')
    BY <1>1, KeepsCallbacksCases
<1>3. ASSUME NEW p, acquireBuffer(p) PROVE kept
    BY <1>2, <1>3, Zenon DEF acquireBuffer, TakesFront
<1>4. ASSUME NEW p, NEW f, acquireStartsDropping(p, f) PROVE kept
    BY <1>2, <1>4, Zenon DEF acquireStartsDropping
<1>5. CASE acquireDropsFront \/ acquireAfterDropping \/ acquireReturnsLater
    <2>1. kept
        BY <1>2, <1>5, Zenon DEF acquireDropsFront, acquireAfterDropping, acquireReturnsLater, TakesFront
    <2> QED
        BY <2>1, KeptCallbacks
<1>6. CASE acquireWaitsWhileAllocating \/ acquireSharedBuffer
    <2>1. kept
        BY <1>2, <1>6, Zenon DEF acquireWaitsWhileAllocating, acquireSharedBuffer
    <2> QED
        BY <2>1, KeptCallbacks
<1>7. ASSUME NEW byApp, consumerConnect(byApp) \/ consumerDisconnect PROVE kept
    BY <1>2, <1>7, Zenon DEF consumerConnect, consumerDisconnect
<1>8. ASSUME NEW t, NEW api, disconnect(t, api) PROVE kept
    BY <1>2, <1>8, Zenon DEF disconnect
<1>9. CASE Quiet
    BY <1>9, KeptCallbacks DEF Quiet
<1> HIDE DEF kept
<1>10. kept => CallbackInv' /\ UNCHANGED notified
    BY KeptCallbacks DEF kept
<1> QED
    BY <1>3, <1>4, <1>5, <1>6, <1>7, <1>8, <1>9, <1>10, NextCases, QueueCallbacks,
       CallsBackInOrder, Zenon

\* Consumers hear of frames in the order of their numbers, for any number of
\* threads that queue concurrently (queueBuffer's callback tickets).
THEOREM CallbacksOrdered == Spec => CallbacksInOrder
<1>1. Init => CallbackInv
    BY DEF Init, CallbackInv, Waiting, Idle
<1>2. TypeOK /\ CallbackInv /\ [Next]_vars => CallbackInv' /\ [notified' > notified]_notified
    <2>1. CASE Next
        BY <2>1, CallbacksStep
    <2>2. CASE UNCHANGED vars
        BY <2>2 DEF vars, CallbackInv, Waiting
    <2> QED
        BY <2>1, <2>2
<1> QED
    BY <1>1, <1>2, TypeCorrect, PTL DEF Spec, CallbacksInOrder

-----------------------------------------------------------------------------
(* A BufferQueue implements FrameStream.                                   *)

Numbers(items) == [i \in 1 .. Len(items) |-> items[i].mFrameNumber]

\* The frame numbers of a queue are a sequence of the same length.
LEMMA NumbersOf ==
    ASSUME NEW q \in Seq(BufferItems)
    PROVE  /\ Numbers(q) \in Seq(Nat) /\ Len(Numbers(q)) = Len(q) /\ Len(q) \in Nat
           /\ \A i \in 1 .. Len(q) : Numbers(q)[i] = q[i].mFrameNumber
<1> DEFINE num(i) == q[i].mFrameNumber
<1>1. Len(q) \in Nat /\ \A i \in 1 .. Len(q) : q[i] \in BufferItems
    OBVIOUS
<1>2. \A i \in 1 .. Len(q) : num(i) \in Nat
    BY <1>1 DEF BufferItems
<1>3. Numbers(q) = [i \in 1 .. Len(q) |-> num(i)]
    BY DEF Numbers
<1> HIDE DEF num
<1>4. Numbers(q) \in [1 .. Len(q) -> Nat]
    BY <1>2, <1>3
<1>5. Numbers(q) \in Seq(Nat) /\ Len(Numbers(q)) = Len(q)
    BY <1>1, <1>4
<1> QED
    BY <1>1, <1>3, <1>5 DEF num

\* Two sequences of the same length and elements are equal.
LEMMA SameElements ==
    ASSUME NEW a \in Seq(Nat), NEW b \in Seq(Nat), Len(a) = Len(b),
           \A i \in 1 .. Len(a) : a[i] = b[i]
    PROVE  a = b
OBVIOUS

\* What the updates of mQueue do to the frame numbers.
LEMMA NumbersUpdated ==
    ASSUME NEW q \in Seq(BufferItems), NEW item \in BufferItems
    PROVE  /\ Numbers(Append(q, item)) = Append(Numbers(q), item.mFrameNumber)
           /\ q # <<>> =>
                /\ Numbers(q) # <<>> /\ Len(q) > 0
                /\ Numbers([q EXCEPT ![Len(q)] = item])
                      = [Numbers(q) EXCEPT ![Len(Numbers(q))] = item.mFrameNumber]
                /\ Numbers(Tail(q)) = Tail(Numbers(q))
                /\ Head(Numbers(q)) = Head(q).mFrameNumber
<1>0. item.mFrameNumber \in Nat
    BY DEF BufferItems
<1>1. Numbers(Append(q, item)) = Append(Numbers(q), item.mFrameNumber)
    <2> DEFINE r == Append(q, item)
    <2>1. r \in Seq(BufferItems) /\ Len(r) = Len(q) + 1 /\ Len(q) \in Nat
          /\ \A i \in 1 .. Len(r) : r[i] = IF i = Len(r) THEN item ELSE q[i]
        OBVIOUS
    <2> HIDE DEF r
    <2>2. Numbers(r) \in Seq(Nat) /\ Numbers(q) \in Seq(Nat)
        BY <2>1, NumbersOf
    <2> DEFINE n == Append(Numbers(q), item.mFrameNumber)
    <2>3. n \in Seq(Nat) /\ Len(n) = Len(q) + 1
          /\ \A i \in 1 .. Len(n) : n[i] = IF i = Len(n) THEN item.mFrameNumber ELSE Numbers(q)[i]
        BY <1>0, <2>2, NumbersOf
    <2> HIDE DEF n
    <2>4. ASSUME NEW i \in 1 .. Len(n) PROVE n[i] = Numbers(r)[i]
        <3>0. i \in 1 .. Len(r)
            BY <2>1, <2>3
        <3>1. Numbers(r)[i] = r[i].mFrameNumber
            BY <2>1, <3>0, NumbersOf, Zenon
        <3>2. CASE i = Len(n)
            BY <2>1, <2>3, <3>0, <3>1, <3>2
        <3>3. CASE i # Len(n)
            <4>1. i \in 1 .. Len(q) /\ Numbers(q)[i] = q[i].mFrameNumber
                BY <2>1, <2>3, <3>3, NumbersOf
            <4> QED
                BY <2>1, <2>3, <3>0, <3>1, <3>3, <4>1
        <3> QED
            BY <3>2, <3>3
    <2>5. n = Numbers(r)
        BY <2>1, <2>2, <2>3, <2>4, NumbersOf, SameElements
    <2> QED
        BY <2>5 DEF r, n
<1> SUFFICES ASSUME q # <<>>
             PROVE  /\ Numbers(q) # <<>> /\ Len(q) > 0
                    /\ Numbers([q EXCEPT ![Len(q)] = item])
                          = [Numbers(q) EXCEPT ![Len(Numbers(q))] = item.mFrameNumber]
                    /\ Numbers(Tail(q)) = Tail(Numbers(q))
                    /\ Head(Numbers(q)) = Head(q).mFrameNumber
    BY <1>1
<1>2. Len(q) > 0 /\ Len(Numbers(q)) > 0 /\ Numbers(q) \in Seq(Nat)
    BY NumbersOf
<1>3. Numbers(q) # <<>>
    BY <1>2
<1>4. Head(Numbers(q)) = Head(q).mFrameNumber
    BY <1>2, <1>3, NumbersOf
<1>5. Numbers([q EXCEPT ![Len(q)] = item])
         = [Numbers(q) EXCEPT ![Len(Numbers(q))] = item.mFrameNumber]
    <2> DEFINE r == [q EXCEPT ![Len(q)] = item]
               n == [Numbers(q) EXCEPT ![Len(Numbers(q))] = item.mFrameNumber]
    <2>1. r \in Seq(BufferItems) /\ Len(r) = Len(q)
          /\ \A i \in 1 .. Len(r) : r[i] = IF i = Len(q) THEN item ELSE q[i]
        BY <1>2
    <2>2. n \in Seq(Nat) /\ Len(n) = Len(q)
          /\ \A i \in 1 .. Len(n) : n[i] = IF i = Len(q) THEN item.mFrameNumber ELSE Numbers(q)[i]
        BY <1>0, <1>2, NumbersOf
    <2> HIDE DEF r, n
    <2>3. ASSUME NEW i \in 1 .. Len(n) PROVE n[i] = Numbers(r)[i]
        <3>1. /\ i \in 1 .. Len(r) /\ Numbers(r)[i] = r[i].mFrameNumber
              /\ i \in 1 .. Len(q) /\ Numbers(q)[i] = q[i].mFrameNumber
            BY <2>1, <2>2, NumbersOf
        <3> QED
            BY <2>1, <2>2, <3>1
    <2>4. n = Numbers(r)
        BY <2>1, <2>2, <2>3, NumbersOf, SameElements
    <2> QED
        BY <2>4 DEF r, n
<1>6. Numbers(Tail(q)) = Tail(Numbers(q))
    <2> DEFINE r == Tail(q)
               n == Tail(Numbers(q))
    <2>1. r \in Seq(BufferItems) /\ Len(r) = Len(q) - 1
          /\ \A i \in 1 .. Len(r) : r[i] = q[i + 1]
        OBVIOUS
    <2>2. n \in Seq(Nat) /\ Len(n) = Len(q) - 1
          /\ \A i \in 1 .. Len(n) : n[i] = Numbers(q)[i + 1]
        BY <1>2, <1>3, NumbersOf
    <2> HIDE DEF r, n
    <2>3. ASSUME NEW i \in 1 .. Len(n) PROVE n[i] = Numbers(r)[i]
        <3>1. Len(q) \in Nat
            OBVIOUS
        <3>2. i \in 1 .. Len(r) /\ i + 1 \in 1 .. Len(q)
            BY <2>1, <2>2, <3>1
        <3>3. /\ Numbers(r)[i] = r[i].mFrameNumber
              /\ Numbers(q)[i + 1] = q[i + 1].mFrameNumber
            BY <2>1, <3>2, NumbersOf, Zenon
        <3> QED
            BY <2>1, <2>2, <3>2, <3>3, Zenon
    <2>4. n = Numbers(r)
        BY <2>1, <2>2, <2>3, NumbersOf, SameElements
    <2> QED
        BY <2>4 DEF r, n
<1> QED
    BY <1>2, <1>3, <1>4, <1>5, <1>6

\* Without auto refresh the consumer never waits inside acquireBuffer, and a
\* consumer that listens has not abandoned the queue.
StreamInv ==
    /\ acquiring.step # "wait"
    /\ mConsumerListener => ~mIsAbandoned

\* queueBuffer is FrameStream's Queue.
LEMMA QueueIsQueue ==
    ASSUME TypeOK, NEW t \in Producers, NEW s \in SlotIds, NEW timestamp \in Nat,
           NEW auto \in BOOLEAN, queueBuffer(t, s, timestamp, auto)
    PROVE  Stream!Queue /\ UNCHANGED <<acquiring, mConsumerListener, mIsAbandoned>>
<1> DEFINE droppable == IsDroppable(IF BecomesShared THEN s ELSE mSharedBufferSlot, s)
           item == NewItem(s, mSlots[s], mFrameCounter + 1, timestamp, auto, droppable)
<1>1. /\ ~mIsAbandoned /\ mFrameCounter' = mFrameCounter + 1
      /\ mQueue' = IF Replaces THEN [mQueue EXCEPT ![Len(mQueue)] = item] ELSE Append(mQueue, item)
      /\ UNCHANGED <<delivered, mIsAbandoned, acquiring, mConsumerListener>>
    BY Zenon DEF queueBuffer, Connected
<1>2. item \in BufferItems /\ item.mFrameNumber = mFrameCounter + 1
    <2>1. mSlots[s] \in BufferSlots /\ mFrameCounter + 1 \in Nat /\ droppable \in BOOLEAN
        BY DEF TypeOK, SlotTypes, FlagTypes, IsDroppable
    <2> HIDE DEF droppable
    <2>2. item.mFrameNumber = mFrameCounter + 1
        BY DEF NewItem
    <2> QED
        BY <2>1, <2>2, ItemTypes
<1> HIDE DEF item
<1>3. mQueue \in Seq(BufferItems)
    BY ConsumerTypes
<1>4. \/ Numbers(mQueue') = Append(Numbers(mQueue), mFrameCounter + 1)
      \/ /\ Numbers(mQueue) # <<>>
         /\ Numbers(mQueue') = [Numbers(mQueue) EXCEPT ![Len(Numbers(mQueue))] = mFrameCounter + 1]
    <2>1. /\ Numbers(Append(mQueue, item)) = Append(Numbers(mQueue), mFrameCounter + 1)
          /\ mQueue # <<>> =>
               /\ Numbers(mQueue) # <<>>
               /\ Numbers([mQueue EXCEPT ![Len(mQueue)] = item])
                     = [Numbers(mQueue) EXCEPT ![Len(Numbers(mQueue))] = mFrameCounter + 1]
        BY <1>2, <1>3, NumbersUpdated, Zenon
    <2>2. CASE Replaces
        BY <1>1, <2>1, <2>2, Zenon DEF Replaces
    <2>3. CASE ~Replaces
        BY <1>1, <2>1, <2>3, Zenon
    <2> QED
        BY <2>2, <2>3
<1> QED
    BY <1>1, <1>4, Zenon DEF Stream!Queue, Numbers

\* acquireBuffer takes the oldest frame, or drops it for a newer one.
LEMMA TakesFrontIsAcquire ==
    ASSUME TypeOK, mQueue # <<>>, TakesFront, UNCHANGED <<mFrameCounter, mIsAbandoned>>
    PROVE  Stream!Acquire
<1>1. mQueue \in Seq(BufferItems) /\ Head(mQueue) \in BufferItems
    BY ConsumerTypes
<1>2. /\ Numbers(mQueue) # <<>> /\ Numbers(Tail(mQueue)) = Tail(Numbers(mQueue))
      /\ Head(Numbers(mQueue)) = Head(mQueue).mFrameNumber
    BY <1>1, NumbersUpdated, Zenon
<1>3. mQueue' = Tail(mQueue) /\ delivered' = Head(mQueue).mFrameNumber
    BY Zenon DEF TakesFront
<1>4. Numbers(mQueue)' = Tail(Numbers(mQueue))
    BY <1>2, <1>3
<1> QED
    BY <1>2, <1>3, <1>4, Zenon DEF Stream!Acquire, Numbers

\* Dropping an item is FrameStream's Drop.
LEMMA DropIsDrop ==
    ASSUME TypeOK, acquireDropsFront
    PROVE  Stream!Drop /\ UNCHANGED <<acquiring, mConsumerListener, mIsAbandoned>>
<1>1. /\ Len(mQueue) > 1 /\ mQueue' = Tail(mQueue)
      /\ UNCHANGED <<mFrameCounter, delivered, mIsAbandoned, acquiring, mConsumerListener>>
    BY Zenon DEF acquireDropsFront, DropsFront
<1>2. mQueue \in Seq(BufferItems) /\ mQueue # <<>> /\ Head(mQueue) \in BufferItems
    <2>1. mQueue \in Seq(BufferItems) /\ mQueue # <<>>
        BY <1>1, ConsumerTypes
    <2> QED
        BY <2>1, ConsumerTypes
<1>3. Len(Numbers(mQueue)) > 1 /\ Numbers(mQueue)' = Tail(Numbers(mQueue))
    BY <1>1, <1>2, NumbersOf, NumbersUpdated
<1> QED
    BY <1>1, <1>3, Zenon DEF Stream!Drop, Numbers

\* A disconnect of the producer keeps the frames that wait.
LEMMA DisconnectKeepsFrames ==
    ASSUME TypeOK, NEW t, NEW api, disconnect(t, api)
    PROVE  UNCHANGED Stream!frames /\ UNCHANGED <<acquiring, mConsumerListener, mIsAbandoned>>
<1>1. /\ mQueue' = staleQueue
      /\ UNCHANGED <<mFrameCounter, delivered, mIsAbandoned, acquiring, mConsumerListener>>
    BY Zenon DEF disconnect
<1>2. mQueue \in Seq(BufferItems) /\ Len(mQueue) \in Nat
    BY ConsumerTypes
<1> DEFINE stale(i) == [mQueue[i] EXCEPT !.mIsStale = TRUE, !.mAcquireCalled = FALSE]
<1>3. \A i \in 1 .. Len(mQueue) : stale(i).mFrameNumber = mQueue[i].mFrameNumber
    <2>1. \A x \in BufferItems : [x EXCEPT !.mIsStale = TRUE, !.mAcquireCalled = FALSE].mFrameNumber
                                    = x.mFrameNumber
        BY DEF BufferItems
    <2>2. \A i \in 1 .. Len(mQueue) : mQueue[i] \in BufferItems
        BY <1>2
    <2> QED
        BY <2>1, <2>2, Zenon
<1>4. mQueue' = [i \in 1 .. Len(mQueue) |-> stale(i)]
    BY <1>1, Zenon DEF staleQueue
<1> HIDE DEF stale
<1>5. Len(mQueue') = Len(mQueue) /\ \A i \in 1 .. Len(mQueue) : mQueue'[i] = stale(i)
    BY <1>2, <1>4
<1>6. Numbers(mQueue)' = Numbers(mQueue)
    BY <1>3, <1>5 DEF Numbers
<1> QED
    BY <1>1, <1>6, Zenon DEF Stream!frames, Numbers

\* Every step of a BufferQueue is a step of FrameStream or a stuttering one.
LEMMA StreamStep ==
    ASSUME "setAutoRefresh" \notin Calls, TypeOK, StreamInv, Next
    PROVE  StreamInv' /\ (Stream!Next \/ UNCHANGED Stream!frames)
<1> DEFINE kept == UNCHANGED <<acquiring, mConsumerListener, mIsAbandoned>>
           still == UNCHANGED <<mQueue, mFrameCounter, delivered, mIsAbandoned>>
<1>1. kept => StreamInv'
    BY DEF StreamInv
<1>2. still => UNCHANGED Stream!frames
    BY DEF Stream!frames
<1>3. NotAcquiring.step # "wait"
    BY DEF NotAcquiring
<1>4. CASE Quiet
    BY <1>1, <1>2, <1>4 DEF Quiet
<1>5. ASSUME NEW t, queueCallsBack(t) PROVE kept /\ still
    BY <1>5, Zenon DEF queueCallsBack
<1>6. ASSUME NEW t \in Producers, NEW s \in SlotIds, NEW timestamp \in Timestamps,
             NEW auto \in AutoTimestamps, queueBuffer(t, s, timestamp, auto)
      PROVE  Stream!Queue /\ kept
    BY <1>6, QueueIsQueue, InputAssumption
<1>7. ASSUME NEW p, acquireBuffer(p) PROVE Stream!Acquire /\ kept
    <2>1. mQueue # <<>> /\ TakesFront /\ kept /\ UNCHANGED <<mFrameCounter, mIsAbandoned>>
        BY <1>7, Zenon DEF acquireBuffer
    <2> QED
        BY <2>1, TakesFrontIsAcquire
<1>8. ASSUME NEW p, NEW f, acquireStartsDropping(p, f) PROVE still /\ StreamInv'
    <2>1. /\ still /\ UNCHANGED <<mConsumerListener, mIsAbandoned>>
          /\ acquiring' = [step |-> "drop", expectedPresent |-> p, maxFrameNumber |-> f,
                           extra |-> acquireNonDroppableBuffer]
        BY <1>8, Zenon DEF acquireStartsDropping
    <2> QED
        BY <2>1 DEF StreamInv
<1>9. CASE acquireDropsFront
    BY <1>1, <1>9, DropIsDrop DEF Stream!Next
<1>10. CASE acquireAfterDropping
    <2>1. /\ acquiring.step = "drop" /\ TakesFront /\ acquiring' = NotAcquiring
          /\ UNCHANGED <<mFrameCounter, mConsumerListener, mIsAbandoned>>
        BY <1>10, Zenon DEF acquireAfterDropping
    <2>2. Stream!Acquire
        BY <2>1, ConsumerTypes, TakesFrontIsAcquire
    <2> QED
        BY <1>3, <2>1, <2>2 DEF StreamInv, Stream!Next
<1>11. CASE acquireReturnsLater
    <2>1. still /\ acquiring' = NotAcquiring /\ UNCHANGED mConsumerListener
        BY <1>11, Zenon DEF acquireReturnsLater
    <2> QED
        BY <1>2, <1>3, <2>1 DEF StreamInv
<1>12. ASSUME NEW byApp, consumerConnect(byApp) PROVE still /\ StreamInv'
    BY <1>12 DEF consumerConnect, StreamInv
<1>13. CASE consumerDisconnect
    <2>1. /\ mConsumerListener /\ mConsumerListener' = FALSE /\ mIsAbandoned' = TRUE
          /\ mQueue' = <<>> /\ UNCHANGED <<mFrameCounter, delivered, acquiring>>
        BY <1>13, Zenon DEF consumerDisconnect
    <2>2. Numbers(mQueue)' = <<>>
        BY <2>1 DEF Numbers
    <2>3. Stream!Abandon
        BY <2>1, <2>2 DEF Stream!Abandon, Numbers, StreamInv
    <2> QED
        BY <2>1, <2>3 DEF StreamInv, Stream!Next
<1>14. ASSUME NEW t, NEW api, disconnect(t, api) PROVE kept /\ UNCHANGED Stream!frames
    BY <1>14, DisconnectKeepsFrames
<1>15. acquiring.step # "wait"
    BY DEF StreamInv
<1>16. Stream!Queue \/ Stream!Acquire => Stream!Next
    BY DEF Stream!Next
<1> HIDE DEF kept, still
<1> QED
    BY <1>1, <1>2, <1>4, <1>5, <1>6, <1>7, <1>8, <1>9, <1>10, <1>11, <1>12, <1>13, <1>14, <1>15,
       <1>16, NextCases, Zenon

\* A BufferQueue implements FrameStream: frames reach the consumer in order,
\* and one is lost only to a newer one or because the consumer has gone.
THEOREM RefinesFrameStream ==
    ASSUME "setAutoRefresh" \notin Calls
    PROVE  Spec => ImplementsFrameStream
<1>1. Init => StreamInv /\ Stream!Init
    BY DEF Init, StreamInv, NotAcquiring, Stream!Init
<1>2. TypeOK /\ StreamInv /\ [Next]_vars => StreamInv' /\ [Stream!Next]_(Stream!frames)
    <2>1. CASE Next
        BY <2>1, StreamStep
    <2>2. CASE UNCHANGED vars
        BY <2>2 DEF vars, StreamInv, Stream!frames
    <2> QED
        BY <2>1, <2>2
<1> QED
    BY <1>1, <1>2, TypeCorrect, PTL DEF Spec, ImplementsFrameStream, Stream!Spec

StreamProofs == INSTANCE FrameStreamProofs WITH
    produced <- mFrameCounter,
    pending <- [i \in 1 .. Len(mQueue) |-> mQueue[i].mFrameNumber],
    abandoned <- mIsAbandoned

\* What FrameStream promises holds of a BufferQueue: acquireBuffer returns
\* frames in the order of their numbers, the items of mQueue are in that order
\* and newer, and the newest frame waits or was acquired.
THEOREM FramesDelivered ==
    ASSUME "setAutoRefresh" \notin Calls
    PROVE  Spec => /\ Stream!DeliveredInOrder
                   /\ [](Stream!FramesInOrder /\ Stream!NewestFrameSurvives)
<1>1. Stream!Init <=> StreamProofs!Init
    BY Zenon DEF Stream!Init, StreamProofs!Init
<1>2. [Stream!Next]_(Stream!frames) <=> [StreamProofs!Next]_(StreamProofs!frames)
    BY Zenon DEF Stream!Next, Stream!Queue, Stream!Acquire, Stream!Drop, Stream!Abandon,
                 Stream!frames, StreamProofs!Next, StreamProofs!Queue, StreamProofs!Acquire,
                 StreamProofs!Drop, StreamProofs!Abandon, StreamProofs!frames
<1>3. StreamProofs!FramesInOrder /\ StreamProofs!NewestFrameSurvives
         <=> Stream!FramesInOrder /\ Stream!NewestFrameSurvives
    BY Zenon DEF Stream!FramesInOrder, Stream!NewestFrameSurvives,
                 StreamProofs!FramesInOrder, StreamProofs!NewestFrameSurvives
<1>4. Spec => Stream!Spec
    BY RefinesFrameStream DEF ImplementsFrameStream
<1>5. Stream!Spec => StreamProofs!Spec
    BY <1>1, <1>2, PTL DEF Stream!Spec, StreamProofs!Spec
<1> QED
    BY <1>3, <1>4, <1>5, StreamProofs!StreamSafe, StreamProofs!StreamDeliversInOrder, PTL
    DEF Stream!DeliveredInOrder, StreamProofs!DeliveredInOrder
=============================================================================
