-------------------------- MODULE TransactionFlush --------------------------
(***************************************************************************)
(* SurfaceFlinger around its TransactionHandler: setTransactionState on    *)
(* binder threads, the filters that decide whether a transaction may be    *)
(* applied, and the commit on the main thread that collects, flushes and   *)
(* applies transactions and schedules itself again.                        *)
(***************************************************************************)
EXTENDS TransactionHandler

CONSTANTS
    Scripts,            \* what the binder threads may be asked to queue
    MaxPostTime,        \* bound: transactions arrive until then
    enableLatchUnsignaledConfig,    \* "Disabled", "AutoSingleLayer" or "Always"
    BufferTimeout,      \* how long a buffer barrier is waited for
    MaxEarlyTime        \* bound: SmoMo calls frames early until then

VARIABLES
    script,                 \* per binder thread: the transactions still to come
    binder,                 \* per binder thread: where it is in setTransactionState
    barrierFrameNumber,     \* per layer: the newest frame applied
    mTransactionFlags,      \* eTransactionFlushNeeded is set
    commitScheduled,        \* the main thread will be woken for a frame
    main,                   \* where the main thread is in commit
    destroyedHandles,       \* layers whose last handle has gone
    pushed                  \* history: the transactions queued, in order

clientVars == <<script, binder, pushed>>
frameVars == <<barrierFrameNumber, mTransactionFlags, commitScheduled, main>>
outsideVars == <<signaled, destroyedHandles>>
vars == <<queueVars, now, handlerVars, clientVars, frameVars, outsideVars>>

Init ==
    /\ TransactionHandlerInit
    /\ script \in Scripts
    /\ binder = [t \in Threads |-> "idle"]
    /\ barrierFrameNumber = [l \in Layers |-> 0]
    /\ mTransactionFlags = FALSE
    /\ commitScheduled = FALSE
    /\ main = "idle"
    /\ destroyedHandles = {}
    /\ pushed = <<>>

-----------------------------------------------------------------------------
\* setTransactionState: the transaction is stamped and the push begins.
setTransactionState(t) ==
    /\ binder[t] = "idle"
    /\ script[t] # <<>>
    /\ now <= MaxPostTime
    /\ script' = [script EXCEPT ![t][1].postTime = now]
    /\ pushLoads(t)
    /\ binder' = [binder EXCEPT ![t] = "pushing"]
    /\ UNCHANGED <<now, handlerVars, pushed, outsideVars, frameVars>>

\* queueTransaction: the compare and exchange of the push.
queueTransaction(t) ==
    /\ binder[t] = "pushing"
    /\ \/ /\ pushSucceeds(t, Head(script[t]))
          /\ pushed' = Append(pushed, Unstamped(Head(script[t])))
          /\ script' = [script EXCEPT ![t] = Tail(@)]
          /\ binder' = [binder EXCEPT ![t] = "flagging"]
       \/ /\ pushFails(t, Head(script[t]))
          /\ UNCHANGED clientVars
    /\ UNCHANGED <<now, handlerVars, outsideVars, frameVars>>

\* setTransactionFlags: whoever sets the flag schedules the commit.
setTransactionFlags(t) ==
    /\ binder[t] = "flagging"
    /\ mTransactionFlags' = TRUE
    /\ binder' = [binder EXCEPT ![t] = IF mTransactionFlags THEN "idle" ELSE "scheduling"]
    /\ UNCHANGED <<queueVars, now, handlerVars, script, pushed,
                   outsideVars, barrierFrameNumber, commitScheduled, main>>

scheduleCommit(t) ==
    /\ binder[t] = "scheduling"
    /\ commitScheduled' = TRUE
    /\ binder' = [binder EXCEPT ![t] = "idle"]
    /\ UNCHANGED <<queueVars, now, handlerVars, script, pushed,
                   outsideVars, barrierFrameNumber, mTransactionFlags, main>>

-----------------------------------------------------------------------------
\* The frame being committed is presented at the time of the flush.
expectedPresentTime == flushState.queueProcessTime

\* desiredPresentTime is None when the client leaves the choice to SurfaceFlinger.
isAutoTimestamp(transaction) == transaction.desiredPresentTime = None

transactionReadyTimelineCheck(transaction) ==
    IF ~isAutoTimestamp(transaction) /\ transaction.desiredPresentTime >= expectedPresentTime
    THEN "NotReady"
    ELSE "Ready"

\* Fault: any frame of the layer in this flush will do.
waitsForAnyFrame(transaction) ==
    /\ barrierFrameNumber[transaction.layer] < transaction.barrierFrameNumber
    /\ flushState.bufferLayersReadyToPresent[transaction.layer] = 0
    /\ elapsed(transaction) <= BufferTimeout

\* The buffer's frame must follow one that is neither applied nor about to be.
waitsForFrame(transaction) ==
    /\ barrierFrameNumber[transaction.layer] < transaction.barrierFrameNumber
    /\ flushState.bufferLayersReadyToPresent[transaction.layer] < transaction.barrierFrameNumber
    /\ elapsed(transaction) <= BufferTimeout

\* The layer has a buffer in this flush already.
hasPendingBuffer(transaction) ==
    /\ flushState.bufferLayersReadyToPresent[transaction.layer] # 0
    /\ isAutoTimestamp(transaction)

\* A single buffer may be latched before its fence signals, by default only if it
\* is the first and the scheduler does not wake SurfaceFlinger early.
shouldLatchUnsignaled(early) ==
    /\ enableLatchUnsignaledConfig # "Disabled"
    /\ enableLatchUnsignaledConfig = "AutoSingleLayer" => flushState.firstTransaction /\ ~early

\* SmoMo, a vendor library, may say that the layer's frame comes too early.
qtiIsFrameEarly == IF now <= MaxEarlyTime THEN BOOLEAN ELSE {FALSE}

transactionReadyBufferCheck(transaction, early, frameEarly) ==
    IF transaction.layer = None THEN "Ready"
    ELSE IF waitsForFrame(transaction) THEN "NotReadyBarrier"
    ELSE IF hasPendingBuffer(transaction) \/ frameEarly THEN "NotReady"
    ELSE IF fenceSignaled(transaction) THEN "Ready"
    ELSE IF shouldLatchUnsignaled(early) THEN "NotReadyUnsignaled"
    ELSE "NotReady"

\* The filters in the order they were added.
readiness(transaction, early, frameEarly) ==
    applyFilters(<<transactionReadyTimelineCheck(transaction),
                   transactionReadyBufferCheck(transaction, early, frameEarly),
                   isBarrierSignalledOrExpired(transaction)>>)

\* The buffer check also reports a buffer whose fence has not signaled for too long.
reportsStalled(transaction, early, frameEarly) ==
    /\ transactionReadyTimelineCheck(transaction) = "Ready"
    /\ transaction.layer # None
    /\ ~waitsForFrame(transaction)
    /\ ~hasPendingBuffer(transaction)
    /\ ~frameEarly
    /\ ~fenceSignaled(transaction)
    /\ ~shouldLatchUnsignaled(early)
    /\ elapsed(transaction) > BufferTimeout

-----------------------------------------------------------------------------
\* commit starts; transactions are flushed only if the flag was set.  While a
\* mode set or a missed frame is pending, it only schedules itself again and
\* leaves the flag: such a commit is a step that changes nothing.
commit ==
    /\ main = "idle"
    /\ commitScheduled
    /\ commitScheduled' = FALSE
    /\ mTransactionFlags' = FALSE
    /\ main' = IF mTransactionFlags THEN "collecting" ELSE "finishing"
    /\ UNCHANGED <<queueVars, now, handlerVars, clientVars, outsideVars,
                   barrierFrameNumber>>

collectTransactions ==
    /\ main = "collecting"
    /\ collectTransaction
    /\ UNCHANGED <<now, mStalledTransactions,
                   mSignalledTransactionBarriers, flushState, transactions, applied,
                   clientVars, outsideVars, frameVars>>

startsFlush ==
    /\ main = "collecting"
    /\ isEmpty
    /\ flushTransactions
    /\ main' = "flushing"
    /\ UNCHANGED <<queueVars, now, clientVars, outsideVars,
                   barrierFrameNumber, mTransactionFlags, commitScheduled>>

\* Whether the scheduler's configuration is an early one, and whether the frame
\* is early, is asked each time.
flushes ==
    /\ main = "flushing"
    /\ \/ \E a \in nextQueues, early \in BOOLEAN, frameEarly \in qtiIsFrameEarly :
            LET transaction == Head(mPendingTransactionQueues[a])
            IN  flushPendingTransactionQueues(a, readiness(transaction, early, frameEarly),
                                              reportsStalled(transaction, early, frameEarly))
       \/ nextPass
    /\ UNCHANGED <<queueVars, now, clientVars, outsideVars, frameVars>>

endsFlush ==
    /\ main = "flushing"
    /\ applyUnsignaledBufferTransaction
    /\ main' = "applying"
    /\ UNCHANGED <<queueVars, now, clientVars, outsideVars,
                   barrierFrameNumber, mTransactionFlags, commitScheduled>>

\* The layers take over their newest frame; an older one that comes late does not count.
applyTransactions ==
    /\ main = "applying"
    /\ barrierFrameNumber' =
        [l \in Layers |->
            FoldLeft(LAMBDA frame, flushed :
                        IF flushed.transaction.layer = l /\ flushed.transaction.frameNumber > frame
                        THEN flushed.transaction.frameNumber
                        ELSE frame,
                     barrierFrameNumber[l], transactions)]
    /\ transactions' = <<>>
    /\ main' = "finishing"
    /\ UNCHANGED <<queueVars, now, mPendingTransactionQueues,
                   mStalledTransactions, mSignalledTransactionBarriers, flushState, applied,
                   clientVars, outsideVars, mTransactionFlags, commitScheduled>>


transactionFlushNeeded == hasPendingTransactions

\* commit ends: what is left makes another frame necessary.
finishes ==
    /\ main = "finishing"
    /\ main' = "idle"
    /\ mTransactionFlags' = (mTransactionFlags \/ transactionFlushNeeded)
    /\ commitScheduled' = (commitScheduled \/ (transactionFlushNeeded /\ ~mTransactionFlags))
    /\ UNCHANGED <<queueVars, now, handlerVars, clientVars, outsideVars,
                   barrierFrameNumber>>

Main == commit \/ collectTransactions \/ startsFlush \/ flushes \/ endsFlush \/ applyTransactions
        \/ finishes

-----------------------------------------------------------------------------
Tick ==
    /\ now < MaxTime
    /\ now' = now + 1
    /\ UNCHANGED <<queueVars, handlerVars, clientVars, outsideVars, frameVars>>

\* The GPU finishes the buffer of a transaction that waits.
FenceSignals(transaction) ==
    /\ transaction.fence
    /\ transaction.id \notin signaled
    /\ signaled' = signaled \cup {transaction.id}
    /\ UNCHANGED <<queueVars, now, handlerVars, clientVars, frameVars, destroyedHandles>>

\* The transactions that still hold a handle of their layer.
Unapplied ==
    UNION {ToSet(script[t]) : t \in Threads} \cup ToSet(Contents)
        \cup UNION {ToSet(mPendingTransactionQueues[a]) : a \in ApplyTokens}
        \cup {flushed.transaction : flushed \in ToSet(transactions)}

\* The last handle of a layer goes away, on whatever thread; transactions hold
\* handles.  The flag is set as setTransactionFlags does.
onHandleDestroyed(layer) ==
    /\ layer \notin destroyedHandles
    /\ layer \notin {transaction.layer : transaction \in Unapplied}
    /\ destroyedHandles' = destroyedHandles \cup {layer}
    /\ mStalledTransactions' = onLayerDestroyed(layer)
    /\ mTransactionFlags' = TRUE
    /\ commitScheduled' = (commitScheduled \/ ~mTransactionFlags)
    /\ UNCHANGED <<queueVars, now, mPendingTransactionQueues,
                   mSignalledTransactionBarriers, flushState, transactions, applied,
                   clientVars, signaled, barrierFrameNumber, main>>

BinderThread(t) ==
    \/ setTransactionState(t)
    \/ queueTransaction(t)
    \/ setTransactionFlags(t)
    \/ scheduleCommit(t)

Next ==
    \/ \E t \in Threads : BinderThread(t)
    \/ Main
    \/ Tick
    \/ \E i \in DOMAIN pushed : FenceSignals(pushed[i])
    \/ \E l \in Layers : onHandleDestroyed(l)

Spec == Init /\ [][Next]_vars

\* The clock runs, threads in a call go on, the main thread is woken for the
\* frames it has scheduled and is not put off by commit's early returns for ever,
\* and fences signal.
FairSpec ==
    /\ Spec
    /\ WF_vars(Tick)
    /\ WF_vars(Main)
    /\ \A t \in Threads : WF_vars(BinderThread(t))
    /\ WF_vars(\E i \in DOMAIN pushed : FenceSignals(pushed[i]))

-----------------------------------------------------------------------------
OfToken(list, a) == SelectSeq(list, LAMBDA transaction : transaction.applyToken = a)

Applied == [i \in DOMAIN applied |-> applied[i].transaction]

\* No transaction is lost, doubled or overtaken by another of its apply token on
\* the way from the racing pushes through the two lists of the lockless queue and
\* the pending queue to the result of a flush.
QueuesKeepOrder ==
    \A a \in ApplyTokens :
        LET waiting == mPendingTransactionQueues[a] \o OfToken(Contents, a)
        IN  OfToken(pushed, a) =
                OfToken(Applied, a) \o [i \in DOMAIN waiting |-> Unstamped(waiting[i])]

\* A transaction with a WAIT barrier is applied after one that signals the
\* barrier, in whatever order the queues are flushed, unless it has waited for
\* longer than the timeout (isBarrierSignalledOrExpired).
BarriersRespected ==
    \A i \in DOMAIN applied : \A b \in applied[i].transaction.waits :
        \/ applied[i].waited > TransactionBarrierTtl
        \/ \E j \in 1 .. i - 1 : b \in applied[j].transaction.signals

\* A buffer with a barrier is applied after the frame of its layer that it names
\* or a newer one, which may come from another apply token in the same flush or in
\* an earlier one, unless it has waited for longer than the timeout
\* (transactionReadyBufferCheck).
BarrierFramesRespected ==
    \A i \in DOMAIN applied :
        LET transaction == applied[i].transaction
        IN  \/ transaction.barrierFrameNumber = 0
            \/ applied[i].waited > BufferTimeout
            \/ \E j \in 1 .. i - 1 :
                    /\ applied[j].transaction.layer = transaction.layer
                    /\ applied[j].transaction.frameNumber >= transaction.barrierFrameNumber

\* A buffer whose fence has not signaled is applied only alone, also when fences
\* signal between two passes of a flush; and the queue that
\* applyUnsignaledBufferTransaction looks up is there, so that it never aborts.
UnsignaledAppliedAlone ==
    /\ \A i \in DOMAIN transactions : ~transactions[i].fenceSignaled => Len(transactions) = 1
    /\ (main = "flushing" /\ lastPassDone /\ appliesUnsignaled) =>
        mPendingTransactionQueues[flushState.queueWithUnsignaledBuffer] # <<>>

\* Transactions reported as stalled still wait: whichever way one leaves its queue
\* later, ready or latched unsignaled, it leaves the report too.
StalledStillPending ==
    \A s \in mStalledTransactions :
        \E a \in ApplyTokens : s.id \in {x.id : x \in ToSet(mPendingTransactionQueues[a])}

=============================================================================
