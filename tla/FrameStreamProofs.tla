-------------------------- MODULE FrameStreamProofs --------------------------
(***************************************************************************)
(* Proofs about FrameStream: frames keep their order and the newest one is *)
(* not lost.  Both need the types, and each other: the newest frame is the *)
(* last one only because the frames are in order.                          *)
(***************************************************************************)
EXTENDS FrameStream, TLAPS

\* The types of the stream's variables.
StreamTypeOK ==
    produced \in Nat /\ delivered \in Nat /\ pending \in Seq(Nat)

StreamInv == StreamTypeOK /\ FramesInOrder /\ delivered <= produced /\ NewestFrameSurvives

\* A new frame at the end, or in place of the last one, keeps the invariant.
LEMMA QueueKeepsInv == StreamInv /\ Queue => StreamInv'
<1> SUFFICES ASSUME StreamInv, Queue PROVE StreamInv'
    OBVIOUS
<1> USE DEF StreamInv, StreamTypeOK, FramesInOrder, NewestFrameSurvives
<1>1. /\ pending' \in Seq(Nat) /\ Len(pending') > 0 /\ Len(pending') <= Len(pending) + 1
      /\ \A i \in 1 .. Len(pending') :
           pending'[i] = IF i = Len(pending') THEN produced + 1 ELSE pending[i]
    <2>1. CASE pending' = Append(pending, produced + 1)
        BY <2>1 DEF Queue
    <2>2. CASE pending # <<>> /\ pending' = [pending EXCEPT ![Len(pending)] = produced + 1]
        BY <2>2 DEF Queue
    <2> QED
        BY <2>1, <2>2 DEF Queue
<1>2. StreamTypeOK' /\ delivered' <= produced'
    BY <1>1 DEF Queue
<1>3. FramesInOrder'
    <2>1. \A i \in 1 .. Len(pending') - 1 : i \in 1 .. Len(pending) /\ pending[i] <= produced
        BY <1>1
    <2>2. \A i, j \in 1 .. Len(pending') : i < j => pending'[i] < pending'[j]
        <3> SUFFICES ASSUME NEW i \in 1 .. Len(pending'), NEW j \in 1 .. Len(pending'), i < j
                     PROVE  pending'[i] < pending'[j]
            OBVIOUS
        <3>1. i \in 1 .. Len(pending) /\ pending'[i] = pending[i]
            BY <1>1, <2>1
        <3>2. CASE j = Len(pending')
            BY <1>1, <2>1, <3>1, <3>2
        <3>3. CASE j # Len(pending')
            BY <1>1, <2>1, <3>1, <3>3
        <3> QED
            BY <3>2, <3>3
    <2>3. \A i \in 1 .. Len(pending') : delivered' < pending'[i] /\ pending'[i] <= produced'
        <3> SUFFICES ASSUME NEW i \in 1 .. Len(pending')
                     PROVE  delivered < pending'[i] /\ pending'[i] <= produced + 1
            BY DEF Queue
        <3>1. CASE i = Len(pending')
            BY <1>1, <3>1
        <3>2. CASE i # Len(pending')
            BY <1>1, <2>1, <3>2
        <3> QED
            BY <3>1, <3>2
    <2> QED
        BY <2>2, <2>3
<1>4. pending' # <<>> /\ pending'[Len(pending')] = produced'
    BY <1>1 DEF Queue
<1> QED
    BY <1>2, <1>3, <1>4

\* Len tells a nonempty sequence.
LEMMA LenNonEmpty == \A s : Len(s) \in 1 .. Len(s) => s # <<>>
BY Len(<<>>) = 0

\* Removing the oldest frame keeps the order, and keeps the newest frame
\* pending if another one is left.
LEMMA TailKeepsOrder ==
    ASSUME StreamInv, pending # <<>>, pending' = Tail(pending),
           UNCHANGED <<produced, abandoned>>,
           delivered' \in {delivered, Head(pending)}
    PROVE  /\ StreamTypeOK' /\ FramesInOrder' /\ delivered' <= produced'
           /\ Len(pending) > 1 => NewestFrameSurvives'
           /\ Len(pending) = 1 => pending' = <<>> /\ Head(pending) = pending[Len(pending)]
<1> USE DEF StreamInv, StreamTypeOK, FramesInOrder, NewestFrameSurvives
<1>1. Head(pending) = pending[1] /\ pending[1] \in Nat /\ Len(pending) \in Nat \ {0}
    OBVIOUS
<1>2. pending' \in Seq(Nat) /\ Len(pending') = Len(pending) - 1
    OBVIOUS
<1>3. \A i \in 1 .. Len(pending') : pending'[i] = pending[i + 1]
    OBVIOUS
<1>4. delivered' \in Nat /\ delivered' <= pending[1] /\ pending[1] <= produced
    BY <1>1
<1>5. StreamTypeOK' /\ FramesInOrder' /\ delivered' <= produced'
    BY <1>1, <1>2, <1>3, <1>4
<1>6. ASSUME Len(pending) > 1 PROVE NewestFrameSurvives'
    <2>1. Len(pending') \in 1 .. Len(pending')
        BY <1>1, <1>2, <1>6
    <2>0. pending' # <<>>
        BY <2>1, LenNonEmpty
    <2>2. pending'[Len(pending')] = pending[Len(pending') + 1]
        BY <1>3, <2>1
    <2>3. Len(pending') + 1 = Len(pending)
        BY <1>1, <1>2
    <2> QED
        BY <2>0, <2>2, <2>3
<1>7. ASSUME Len(pending) = 1 PROVE pending' = <<>> /\ Head(pending) = pending[Len(pending)]
    BY <1>1, <1>2, <1>7
<1> QED
    BY <1>5, <1>6, <1>7

\* StreamInv holds in every state of a FrameStream.
LEMMA StreamInvariant == Spec => []StreamInv
<1>1. Init => StreamInv
    BY DEF Init, StreamInv, StreamTypeOK, FramesInOrder, NewestFrameSurvives
<1>2. StreamInv /\ [Next]_frames => StreamInv'
    <2> SUFFICES ASSUME StreamInv, [Next]_frames PROVE StreamInv'
        OBVIOUS
    <2>1. CASE Queue
        BY <2>1, QueueKeepsInv
    <2>2. CASE Acquire
        <3>1. Len(pending) \in Nat \ {0}
            BY <2>2 DEF Acquire, StreamInv, StreamTypeOK
        <3> QED
            BY <2>2, <3>1, TailKeepsOrder DEF Acquire, StreamInv, NewestFrameSurvives
    <2>3. CASE Drop
        <3>1. pending # <<>> /\ Len(pending) \in Nat
            BY <2>3 DEF Drop, StreamInv, StreamTypeOK
        <3> QED
            BY <2>3, <3>1, TailKeepsOrder DEF Drop, StreamInv
    <2>4. CASE Abandon
        BY <2>4 DEF Abandon, StreamInv, StreamTypeOK, FramesInOrder, NewestFrameSurvives
    <2>5. CASE UNCHANGED frames
        BY <2>5 DEF frames, StreamInv, StreamTypeOK, FramesInOrder, NewestFrameSurvives
    <2> QED
        BY <2>1, <2>2, <2>3, <2>4, <2>5 DEF Next
<1> QED
    BY <1>1, <1>2, PTL DEF Spec

\* Frames wait in the order of their numbers and the newest one is not lost.
THEOREM StreamSafe == Spec => [](FramesInOrder /\ NewestFrameSurvives)
<1>1. StreamInv => FramesInOrder /\ NewestFrameSurvives
    BY DEF StreamInv
<1> QED
    BY <1>1, StreamInvariant, PTL

\* The consumer never gets an older frame after a newer one.
THEOREM StreamDeliversInOrder == Spec => DeliveredInOrder
<1>1. StreamInv /\ [Next]_frames => [delivered' > delivered]_delivered
    <2> SUFFICES ASSUME StreamInv, Acquire PROVE delivered' > delivered
        BY DEF Next, Queue, Drop, Abandon, frames
    <2>1. Head(pending) = pending[1] /\ 1 \in 1 .. Len(pending)
        BY DEF Acquire, StreamInv, StreamTypeOK
    <2> QED
        BY <2>1 DEF Acquire, StreamInv, StreamTypeOK, FramesInOrder
<1> QED
    BY <1>1, StreamInvariant, PTL DEF Spec, DeliveredInOrder
=============================================================================
