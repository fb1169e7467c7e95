--------------------------- MODULE LocklessQueue ---------------------------
(***************************************************************************)
(* LocklessQueue (libs/gui): many threads push, one thread pops.  A push   *)
(* loads the head of the list mPush and swaps in its entry if the head is  *)
(* still the same; pop takes the whole list at once when its own list mPop *)
(* has run out.                                                            *)
(***************************************************************************)
EXTENDS Integers, SequencesExt

CONSTANTS
    Threads,    \* the threads that push
    None        \* no value

VARIABLES
    mPush,          \* the entries pushed since pop last took them, newest first
    mPop,           \* the entries taken and not popped yet, oldest first
    previousHead    \* per thread: the entry it found at the head of mPush

queueVars == <<mPush, mPop, previousHead>>

LocklessQueueInit ==
    /\ mPush = <<>>
    /\ mPop = <<>>
    /\ previousHead = [t \in Threads |-> None]

HeadOf(list) == IF list = <<>> THEN None ELSE Head(list)

\* The values in the queue, oldest first.
Contents == mPop \o Reverse(mPush)

isEmpty == mPush = <<>> /\ mPop = <<>>

\* push, first step: the head of the list is read.
pushLoads(t) ==
    /\ previousHead' = [previousHead EXCEPT ![t] = HeadOf(mPush)]
    /\ UNCHANGED <<mPush, mPop>>

\* Fault: the entry is stored without looking whether the head has changed.
stores(t, value) == TRUE

\* The head is still the one the thread has read.
headUnchanged(t, value) == HeadOf(mPush) = previousHead[t]

\* push, compare and exchange: the entry is the new head, followed by the head
\* the thread has read and what follows that.
pushSucceeds(t, value) ==
    /\ headUnchanged(t, value)
    /\ mPush' = <<value>> \o (IF previousHead[t] = None THEN <<>> ELSE mPush)
    /\ previousHead' = [previousHead EXCEPT ![t] = None]
    /\ UNCHANGED mPop

\* The exchange fails and the thread has read the new head.
pushFails(t, value) ==
    /\ ~headUnchanged(t, value)
    /\ previousHead' = [previousHead EXCEPT ![t] = HeadOf(mPush)]
    /\ UNCHANGED <<mPush, mPop>>

\* The value pop returns, if the queue is not empty.
popped == IF mPop # <<>> THEN Head(mPop) ELSE Last(mPush)

pop ==
    /\ ~isEmpty
    /\ \/ /\ mPop # <<>>
          /\ mPop' = Tail(mPop)
          /\ UNCHANGED mPush
       \/ /\ mPop = <<>>
          /\ mPop' = Tail(Reverse(mPush))
          /\ mPush' = <<>>
    /\ UNCHANGED previousHead
=============================================================================
