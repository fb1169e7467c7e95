---------------------------- MODULE ConsumerBase ----------------------------
(***************************************************************************)
(* ConsumerBase (libs/gui/ConsumerBase.cpp) as the consumer of a           *)
(* BufferQueue.  The queue sends a buffer only the first time the consumer *)
(* acquires it from a slot; afterwards the consumer takes it from its own  *)
(* array of slots, here called cached.  What it may forget it learns from  *)
(* getReleasedBuffers, when the queue calls onBuffersReleased or when it   *)
(* has itself made the queue free slots.                                   *)
(*                                                                         *)
(* Operations hold ConsumerBase's own mMutex, and the queue's mMutex only  *)
(* while they call it.  The constructor and discardFreeBuffers call it     *)
(* twice; phase says that they are between the two calls, and keeps the    *)
(* other operations of the consumer waiting.                               *)
(*                                                                         *)
(* presentWhen is zero, and shared buffer mode is left out.                *)
(***************************************************************************)
EXTENDS BufferQueue

VARIABLES
    cached,     \* ConsumerBase::mSlots: the buffer and the frame number per slot
    phase       \* "constructed", "connected", "free" or "purging"

baseVars == <<vars, cached, phase>>

Forgotten == [mGraphicBuffer |-> NoBuffer, mFrameNumber |-> 0]

InitBase ==
    /\ Init
    /\ cached = [s \in SlotIds |-> Forgotten]
    /\ phase = "constructed"

\* ConsumerBase::initialize, first call.
initialize ==
    /\ phase = "constructed"
    /\ \E controlledByApp \in ControlledByApp : consumerConnect(controlledByApp)
    /\ phase' = "connected"
    /\ UNCHANGED cached

\* Its second call, which fails if a producer was quick to connect.
initializeSlots ==
    /\ phase = "connected"
    /\ allowUnlimitedSlots(TRUE) \/ (mConnectedApi # NO_CONNECTED_API /\ UNCHANGED vars)
    /\ phase' = "free"
    /\ UNCHANGED cached

\* A call may take ConsumerBase's mMutex and finds mAbandoned false.
Usable == phase = "free" /\ ~mIsAbandoned

\* freeBufferLocked for every slot of S.
freeBuffers(S) == [s \in SlotIds |-> IF s \in S THEN Forgotten ELSE cached[s]]

\* Fault: only queued items count.
releasedLookingAtQueue ==
    {s \in SlotIds : \A i \in 1 .. Len(mQueue) : mQueue[i].mSlot # s}

\* getReleasedBuffersExtended: the slots whose buffer would be sent again, but
\* not those of a queued item that comes without its buffer.
getReleasedBuffers ==
    {s \in SlotIds :
        /\ s < getTotalSlotCount
        /\ ~mSlots[s].mAcquireCalled
        /\ \A i \in 1 .. Len(mQueue) : mQueue[i].mSlot = s => ~mQueue[i].mAcquireCalled}

\* Fault: a buffer that is kept is not replaced.
keepsFirstBuffer(item) ==
    IF cached[item.mSlot].mGraphicBuffer = NoBuffer THEN item.mGraphicBuffer
    ELSE cached[item.mSlot].mGraphicBuffer

\* The buffer kept for the slot once the item has been acquired: the queue has
\* sent the item's buffer unless it was acquired before.
cachedBuffer(item) ==
    IF item.mAcquireCalled THEN cached[item.mSlot].mGraphicBuffer ELSE item.mGraphicBuffer

acquireBufferLocked ==
    /\ Usable
    /\ acquireBuffer(0)
    /\ LET item == Head(mQueue)
       IN cached' = [cached EXCEPT ![item.mSlot] =
                        [mGraphicBuffer |-> cachedBuffer(item),
                         mFrameNumber |-> item.mFrameNumber]]
    /\ UNCHANGED phase

\* Fault: the slot is taken to hold the buffer still.
tracksAnything(h) == TRUE

stillTracking(h) == cached[h.slot].mGraphicBuffer = h.buffer

\* The consumer forgets a buffer the queue is not told of.
letsGo(h) ==
    /\ held' = Without(h)
    /\ UNCHANGED <<mSlots, mQueue, listVars, mSharedBufferSlot, thread, acquiring, delivered,
                   notQueue, cached, phase>>

\* What the consumer tells the queue it releases.
releases(h) == [h EXCEPT !.frame = cached[h.slot].mFrameNumber]

\* releaseBufferLocked of a buffer that was acquired.
releaseBufferLocked(h) ==
    \/ /\ phase = "free" /\ Calling
       /\ mIsAbandoned \/ ~stillTracking(h)
       /\ letsGo(h)
    \/ /\ Usable /\ stillTracking(h)
       /\ releaseBuffer(releases(h))
       /\ UNCHANGED <<cached, phase>>
    \/ /\ Usable /\ stillTracking(h)
       /\ releaseIsRefused(releases(h))
       /\ cached' = IF h.slot < getTotalSlotCount /\ IsStaleRelease(releases(h))
                    THEN freeBuffers({h.slot}) ELSE cached
       /\ UNCHANGED phase

\* detachBufferLocked of a buffer that was acquired.
detachBufferLocked(h) ==
    /\ Usable /\ stillTracking(h)
    /\ detachAcquired(h)
    /\ cached' = freeBuffers({h.slot})
    /\ UNCHANGED phase

\* The queue calls back on a producer's thread.
onBuffersReleasedLocked(t) ==
    /\ phase = "free" /\ MutexFree
    /\ onBuffersReleased(t)
    /\ cached' = IF mIsAbandoned THEN cached ELSE freeBuffers(getReleasedBuffers)
    /\ UNCHANGED phase

\* discardFreeBuffersLocked: the queue frees what it can, then is asked what it was.
discardFreeBuffersLocked ==
    /\ Usable
    /\ discardFreeBuffers \/ (Calling /\ mFreeBuffers = <<>> /\ UNCHANGED vars)
    /\ phase' = "purging"
    /\ UNCHANGED cached

\* The second half of that call.
purges ==
    /\ phase = "purging" /\ Calling
    /\ cached' = freeBuffers(getReleasedBuffers)
    /\ phase' = "free"
    /\ UNCHANGED vars

abandonLocked ==
    /\ Usable
    /\ consumerDisconnect
    /\ cached' = freeBuffers(SlotIds)
    /\ UNCHANGED phase

-----------------------------------------------------------------------------
\* A cached buffer is alive, so no new one gets its identity.
CachedIds == {b.id : b \in {cached[s].mGraphicBuffer : s \in SlotIds} \ {NoBuffer}}
NewBuffersDiffer == (LiveIds' \ LiveIds) \cap CachedIds = {}

Producing ==
    /\ \E t \in Producers : Proceeds(t) \/ Produce(t) \/ Configure(t) \/ wakesSpuriously(t)
    /\ NewBuffersDiffer
    /\ UNCHANGED <<cached, phase>>

Consuming ==
    \/ initialize
    \/ initializeSlots
    \/ acquireBufferLocked
    \/ \E h \in DOMAIN held : releaseBufferLocked(h) \/ detachBufferLocked(h)
    \/ \E t \in Producers : onBuffersReleasedLocked(t)
    \/ discardFreeBuffersLocked
    \/ purges
    \/ abandonLocked
    \/ dropDetachedBuffer /\ UNCHANGED <<cached, phase>>

NextBase == Producing \/ Consuming

SpecBase == InitBase /\ [][NextBase]_baseVars

-----------------------------------------------------------------------------
\* ConsumerBase hands out the buffer that was queued, also when acquireBuffer
\* sent none because the consumer should have it: whatever disconnects,
\* reallocations, discarded buffers and late onBuffersReleased calls did to the
\* cache, it then has exactly that buffer.
AcquiredFromCache ==
    [][\A h \in DOMAIN held' :
        h \notin DOMAIN held => cached'[h.slot] = [mGraphicBuffer |-> h.buffer,
                                                   mFrameNumber |-> h.frame]]_baseVars

\* ConsumerBase uses the queue as BufferQueue expects of a consumer.  A release
\* that stillTracking keeps from the queue is one the queue would refuse, so no
\* slot stays acquired for ever.
KeepsToQueue == Spec
=============================================================================
