----------------------------- MODULE BufferSlot -----------------------------
(***************************************************************************)
(* BufferState and BufferSlot (libs/gui/include/gui/BufferSlot.h): the     *)
(* three reference counts and the shared flag of one slot of a             *)
(* BufferQueue, and the bookkeeping kept next to them.  The fields of      *)
(* mBufferState are inlined in the slot record.  Fences are left out.      *)
(***************************************************************************)
EXTENDS Integers

CONSTANT NoBuffer   \* a null sp<GraphicBuffer>

isDequeued(slot) == slot.mDequeueCount > 0
isQueued(slot) == slot.mQueueCount > 0
isAcquired(slot) == slot.mAcquireCount > 0
isFree(slot) == ~isAcquired(slot) /\ ~isDequeued(slot) /\ ~isQueued(slot)

\* Fault: the count is decremented without looking.
decrementsBelowZero(n) == n - 1

\* The guarded decrement every BufferState transition uses.
Decrement(n) == IF n > 0 THEN n - 1 ELSE n

\* dequeue() and attachProducer().
dequeue(slot) == [slot EXCEPT !.mDequeueCount = @ + 1]

queue(slot) == [slot EXCEPT !.mDequeueCount = Decrement(@), !.mQueueCount = @ + 1]

cancel(slot) == [slot EXCEPT !.mDequeueCount = Decrement(@)]

freeQueued(slot) == [slot EXCEPT !.mQueueCount = Decrement(@)]

acquire(slot) == [slot EXCEPT !.mQueueCount = Decrement(@), !.mAcquireCount = @ + 1]

\* Fault: attachConsumer() does nothing.
staysFree(slot) == slot

\* acquireNotInQueue() and attachConsumer().
acquireNotInQueue(slot) == [slot EXCEPT !.mAcquireCount = @ + 1]

release(slot) == [slot EXCEPT !.mAcquireCount = Decrement(@)]

\* The default constructor of BufferSlot.
NewSlot == [mGraphicBuffer |-> NoBuffer, mDequeueCount |-> 0, mQueueCount |-> 0,
            mAcquireCount |-> 0, mShared |-> FALSE, mRequestBufferCalled |-> FALSE,
            mFrameNumber |-> 0, mAcquireCalled |-> FALSE, mNeedsReallocation |-> FALSE]

\* What clearBufferSlotLocked leaves in a slot: as new, except that the next
\* dequeue must tell the producer to drop what it cached for the slot.
ClearedSlot == [NewSlot EXCEPT !.mNeedsReallocation = TRUE]
=============================================================================
