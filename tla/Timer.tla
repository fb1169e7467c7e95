------------------------------- MODULE Timer -------------------------------
(***************************************************************************)
(* The TimeKeeper of the VSync dispatch: one alarm on a timerfd and the    *)
(* thread that waits for it in epoll_wait (Scheduler/src/Timer.cpp).       *)
(*                                                                         *)
(* The thread does four things under no common lock: epoll_wait returns,   *)
(* it reads the descriptor, it copies mCallback, it calls the copy.  The   *)
(* alarm may be set again or cancelled between any two of them, so the     *)
(* callback may run for an alarm that is gone.  An error of epoll_wait     *)
(* makes the thread recreate its descriptors, which loses the alarm; it    *)
(* then calls the callback that was expected.                              *)
(***************************************************************************)
EXTENDS Integers

CONSTANTS
    None,       \* the empty optional
    MaxTime     \* bound: the last reading of the clock

VARIABLES
    now,                \* the monotonic clock
    alarm,              \* the time the timerfd is set to, None when it is disarmed or read
    mCallback,          \* TRUE when a callback is set
    mExpectingCallback, \* TRUE when the callback is still to be called for the alarm
    mDebugState         \* where the dispatch thread is

timerVars == <<now, alarm, mCallback, mExpectingCallback, mDebugState>>

\* The dispatch thread is "Waiting" in epoll_wait, "Reading" between its return and
\* the read, "Running" between the read and the copy of the callback, and
\* "InCallback" until the copy returns.
TimerInit ==
    /\ now = 0
    /\ alarm = None
    /\ mCallback = FALSE
    /\ mExpectingCallback = FALSE
    /\ mDebugState = "Waiting"

\* The clock advances whatever the threads do.
Tick ==
    /\ now < MaxTime
    /\ now' = now + 1
    /\ UNCHANGED <<alarm, mCallback, mExpectingCallback, mDebugState>>

setCallback(present) ==
    /\ mExpectingCallback' = present
    /\ mCallback' = present

alarmAt(time) ==
    /\ setCallback(TRUE)
    /\ alarm' = time

alarmCancel ==
    /\ alarm' = None
    /\ setCallback(FALSE)

\* epoll_wait reports that the descriptor is readable.
epollReturns ==
    /\ mDebugState = "Waiting"
    /\ alarm # None
    /\ alarm <= now
    /\ mDebugState' = "Reading"
    /\ UNCHANGED <<now, alarm, mCallback, mExpectingCallback>>

\* The thread reads the descriptor, which consumes the expiration if the alarm
\* has not been set to a later time meanwhile.
reads ==
    /\ mDebugState = "Reading"
    /\ alarm' = IF alarm # None /\ alarm <= now THEN None ELSE alarm
    /\ mDebugState' = "Running"
    /\ UNCHANGED <<now, mCallback, mExpectingCallback>>

\* It copies the callback that is set now and calls the copy, if there is one.
dispatch ==
    /\ mDebugState = "Running"
    /\ mExpectingCallback' = FALSE
    /\ mDebugState' = IF mCallback THEN "InCallback" ELSE "Waiting"
    /\ UNCHANGED <<now, alarm, mCallback>>

\* epoll_wait or epoll_ctl fails: the descriptors are recreated and the expected
\* callback is called although its time has not come.
reset ==
    /\ mDebugState = "Waiting"
    /\ alarm' = None
    /\ setCallback(FALSE)
    /\ mDebugState' = IF mExpectingCallback /\ mCallback THEN "InCallback" ELSE "Waiting"
    /\ UNCHANGED now
=============================================================================
