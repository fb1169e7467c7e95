----------------------------- MODULE FrameStream -----------------------------
(***************************************************************************)
(* What a BufferQueue promises about frames, without slots and threads:    *)
(* the frames a producer queues are numbered 1, 2, 3..., wait in order,    *)
(* and reach the consumer in order.  A frame may be lost only to a newer   *)
(* one or because the consumer disconnects.                                *)
(***************************************************************************)
EXTENDS Integers, Sequences

VARIABLES produced,    \* number of the last frame queued
          pending,     \* numbers of the frames that wait for the consumer
          delivered,   \* number of the last frame the consumer got
          abandoned

frames == <<produced, pending, delivered, abandoned>>

Init == produced = 0 /\ pending = <<>> /\ delivered = 0 /\ abandoned = FALSE

\* The new frame waits behind the others, or replaces the last of them.
Queue ==
    /\ ~abandoned
    /\ produced' = produced + 1
    /\ \/ pending' = Append(pending, produced + 1)
       \/ pending # <<>> /\ pending' = [pending EXCEPT ![Len(pending)] = produced + 1]
    /\ UNCHANGED <<delivered, abandoned>>

Acquire ==
    /\ pending # <<>>
    /\ delivered' = Head(pending)
    /\ pending' = Tail(pending)
    /\ UNCHANGED <<produced, abandoned>>

\* The oldest frame is dropped in favour of the next one.
Drop ==
    /\ Len(pending) > 1
    /\ pending' = Tail(pending)
    /\ UNCHANGED <<produced, delivered, abandoned>>

Abandon ==
    /\ ~abandoned
    /\ abandoned' = TRUE
    /\ pending' = <<>>
    /\ UNCHANGED <<produced, delivered>>

Next == Queue \/ Acquire \/ Drop \/ Abandon

Spec == Init /\ [][Next]_frames

\* Frames wait in the order in which they were queued, after the ones the
\* consumer has already got.
FramesInOrder ==
    /\ \A i, j \in 1 .. Len(pending) : i < j => pending[i] < pending[j]
    /\ \A i \in 1 .. Len(pending) : delivered < pending[i] /\ pending[i] <= produced

\* The newest frame is never the one that is lost: it waits or was delivered,
\* unless the consumer has gone.
NewestFrameSurvives ==
    \/ abandoned
    \/ pending = <<>> /\ delivered = produced
    \/ pending # <<>> /\ pending[Len(pending)] = produced

\* The consumer never gets an older frame after a newer one.
DeliveredInOrder == [][delivered' > delivered]_delivered
=============================================================================
