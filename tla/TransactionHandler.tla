------------------------- MODULE TransactionHandler -------------------------
(***************************************************************************)
(* TransactionHandler (SurfaceFlinger/FrontEnd): transactions wait in one  *)
(* queue per apply token until their present time, their buffer's fence    *)
(* and their barriers allow it.  Binder threads push them on a lockless    *)
(* queue; the main thread collects them and flushes those that are ready,  *)
(* going over the queues again as long as that unblocks others.            *)
(*                                                                         *)
(* A flush looks at one transaction per step, since fences signal and      *)
(* binder threads push meanwhile.  The count of pending transactions,      *)
(* which is only traced, is left out.                                      *)
(***************************************************************************)
EXTENDS LocklessQueue

CONSTANTS
    ApplyTokens,            \* the apply tokens
    BarrierTokens,          \* names of transaction barriers
    Layers,                 \* layers that buffers are for
    MaxTime,                \* bound: the last reading of the clock
    TransactionBarrierTtl   \* how long a barrier is waited for, and a signal kept

VARIABLES
    now,                            \* systemTime()
    signaled,                       \* transactions whose buffer's acquire fence has signaled
    mPendingTransactionQueues,      \* the collected transactions by apply token
    mStalledTransactions,           \* transactions reported as stalled, with their layer
    mSignalledTransactionBarriers,  \* when each barrier was signalled, None if not
    flushState,                     \* the flush that is under way
    transactions,                   \* what it has found ready, in order
    applied                         \* history: all transactions flushed and how long they waited

handlerVars == <<mPendingTransactionQueues, mStalledTransactions,
                 mSignalledTransactionBarriers, flushState, transactions, applied>>

\* What a flush starting at the given time begins with; todo and current are the
\* position of the iterator over the queues.
NewFlushState(time) ==
    [firstTransaction |-> TRUE,
     queueProcessTime |-> time,
     bufferLayersReadyToPresent |-> [l \in Layers |-> 0],
     queueWithUnsignaledBuffer |-> None,
     lastTransactionsPendingBarrier |-> 0,
     transactionsPendingBarrier |-> 0,
     todo |-> {},
     current |-> None]

TransactionHandlerInit ==
    /\ LocklessQueueInit
    /\ now = 0
    /\ signaled = {}
    /\ mPendingTransactionQueues = [a \in ApplyTokens |-> <<>>]
    /\ mStalledTransactions = {}
    /\ mSignalledTransactionBarriers = [b \in BarrierTokens |-> None]
    /\ flushState = NewFlushState(0)
    /\ transactions = <<>>
    /\ applied = <<>>

hasPendingTransactions ==
    \/ \E a \in ApplyTokens : mPendingTransactionQueues[a] # <<>>
    \/ ~isEmpty

\* One turn of the loop of collectTransactions.
collectTransaction ==
    /\ pop
    /\ mPendingTransactionQueues' =
        [mPendingTransactionQueues EXCEPT ![popped.applyToken] = Append(@, popped)]

NonEmptyQueues == {a \in ApplyTokens : mPendingTransactionQueues[a] # <<>>}

\* flushTransactions starts: old signals are forgotten, and the first pass over
\* the queues begins.
flushTransactions ==
    /\ mSignalledTransactionBarriers' =
        [b \in BarrierTokens |->
            LET since == mSignalledTransactionBarriers[b]
            IN  IF since # None /\ now - since > TransactionBarrierTtl THEN None ELSE since]
    /\ flushState' = [NewFlushState(now) EXCEPT !.todo = NonEmptyQueues]
    /\ UNCHANGED <<mPendingTransactionQueues, mStalledTransactions, transactions, applied>>

\* How long the transaction has waited when the flush began.
elapsed(transaction) == flushState.queueProcessTime - transaction.postTime

\* The transaction as its client made it.
Unstamped(transaction) == [transaction EXCEPT !.postTime = 0]

\* Fault: the barrier is given up as soon as the timeout is reached.
expiresAtTimeout(transaction) ==
    IF /\ elapsed(transaction) < TransactionBarrierTtl
       /\ \E b \in transaction.waits : mSignalledTransactionBarriers[b] = None
    THEN "NotReadyBarrier"
    ELSE "Ready"

isBarrierSignalledOrExpired(transaction) ==
    IF /\ elapsed(transaction) <= TransactionBarrierTtl
       /\ \E b \in transaction.waits : mSignalledTransactionBarriers[b] = None
    THEN "NotReadyBarrier"
    ELSE "Ready"

\* Fault: a later filter that says yes makes an unsignaled buffer ready.
lastFilterDecides(verdicts) ==
    LET refused == SelectSeq(verdicts, LAMBDA v : v \in {"NotReady", "NotReadyBarrier"})
    IN  IF refused # <<>> THEN Head(refused) ELSE Last(verdicts)

\* The filters are asked in order; the first that says no decides, and an
\* unsignaled buffer is remembered otherwise.
applyFilters(verdicts) ==
    LET refused == SelectSeq(verdicts, LAMBDA v : v \in {"NotReady", "NotReadyBarrier"})
    IN  CASE refused # <<>> -> Head(refused)
          [] refused = <<>> /\ "NotReadyUnsignaled" \in ToSet(verdicts) -> "NotReadyUnsignaled"
          [] OTHER -> "Ready"

\* Fault: the transaction stays listed as stalled.
keepsStalled(id) == mStalledTransactions

removeFromStalledTransactions(id) == {s \in mStalledTransactions : s.id # id}

onTransactionQueueStalled(transaction) ==
    mStalledTransactions \cup {[id |-> transaction.id, layer |-> transaction.layer]}

\* The buffer has no acquire fence, or one that has signaled.
fenceSignaled(transaction) == ~transaction.fence \/ transaction.id \in signaled

\* The first transaction of a queue moves to the result; its frame and its
\* signals count from now on.  The state of its fence is recorded.
popTransactionFromPending(a) ==
    LET transaction == Head(mPendingTransactionQueues[a])
        flushed == [transaction |-> transaction, fenceSignaled |-> fenceSignaled(transaction)]
    IN  /\ mStalledTransactions' = removeFromStalledTransactions(transaction.id)
        /\ transactions' = Append(transactions, flushed)
        /\ applied' = Append(applied, [transaction |-> Unstamped(transaction),
                                       waited |-> elapsed(transaction)])
        /\ mPendingTransactionQueues' = [mPendingTransactionQueues EXCEPT ![a] = Tail(@)]
        /\ mSignalledTransactionBarriers' =
            [b \in BarrierTokens |-> IF b \in transaction.signals
                                     THEN flushState.queueProcessTime
                                     ELSE mSignalledTransactionBarriers[b]]

\* The layers with a buffer in the result, after this transaction has joined it.
readyToPresent(transaction) ==
    [l \in Layers |-> IF l = transaction.layer
                      THEN transaction.frameNumber
                      ELSE flushState.bufferLayersReadyToPresent[l]]

\* The queue the iterator is at, or may go to next: the map is not ordered.
nextQueues == IF flushState.current # None THEN {flushState.current} ELSE flushState.todo

\* flushPendingTransactionQueues looks at the first transaction of queue a, which
\* is ready: it is popped and the next one of the queue is looked at.
flushesReady(a) ==
    LET transaction == Head(mPendingTransactionQueues[a])
        more == Tail(mPendingTransactionQueues[a]) # <<>>
    IN  /\ popTransactionFromPending(a)
        /\ flushState' =
            [flushState EXCEPT !.firstTransaction = FALSE,
                               !.bufferLayersReadyToPresent = readyToPresent(transaction),
                               !.current = IF more THEN a ELSE None,
                               !.todo = IF more THEN @ ELSE @ \ {a}]

\* It is not: the iterator moves on.  The transaction may be reported as stalled.
keepsPending(a, ready, stalled) ==
    /\ mStalledTransactions' =
        IF stalled
        THEN onTransactionQueueStalled(Head(mPendingTransactionQueues[a]))
        ELSE mStalledTransactions
    /\ flushState' =
        [flushState EXCEPT !.current = None,
                           !.todo = @ \ {a},
                           !.transactionsPendingBarrier =
                                IF ready = "NotReadyBarrier" THEN @ + 1 ELSE @,
                           !.queueWithUnsignaledBuffer =
                                IF ready = "NotReadyUnsignaled" THEN a ELSE @]
    /\ UNCHANGED <<mPendingTransactionQueues, mSignalledTransactionBarriers, transactions, applied>>

flushPendingTransactionQueues(a, ready, stalled) ==
    /\ a \in nextQueues
    /\ \/ ready = "Ready" /\ flushesReady(a)
       \/ ready # "Ready" /\ keepsPending(a, ready, stalled)

passEnds == flushState.todo = {}

\* Another pass is made while the number of transactions that wait for a barrier changes.
nextPass ==
    /\ passEnds
    /\ flushState.lastTransactionsPendingBarrier # flushState.transactionsPendingBarrier
    /\ flushState' =
        [flushState EXCEPT !.lastTransactionsPendingBarrier = flushState.transactionsPendingBarrier,
                           !.transactionsPendingBarrier = 0,
                           !.todo = NonEmptyQueues]
    /\ UNCHANGED <<mPendingTransactionQueues, mStalledTransactions,
                   mSignalledTransactionBarriers, transactions, applied>>

lastPassDone ==
    /\ passEnds
    /\ flushState.lastTransactionsPendingBarrier = flushState.transactionsPendingBarrier

\* The queue with an unsignaled buffer is flushed when nothing else was.
appliesUnsignaled ==
    /\ flushState.queueWithUnsignaledBuffer # None
    /\ transactions = <<>>

\* flushTransactions ends.
applyUnsignaledBufferTransaction ==
    /\ lastPassDone
    /\ \/ /\ appliesUnsignaled
          /\ popTransactionFromPending(flushState.queueWithUnsignaledBuffer)
       \/ /\ ~appliesUnsignaled
          /\ UNCHANGED <<mPendingTransactionQueues, mStalledTransactions,
                         mSignalledTransactionBarriers, transactions, applied>>
    /\ flushState' = NewFlushState(0)

onLayerDestroyed(layer) == {s \in mStalledTransactions : s.layer # layer}
=============================================================================
