---------------------- MODULE VSyncDispatchTimerQueue ----------------------
(***************************************************************************)
(* VSyncDispatchTimerQueue: callbacks that clients schedule a given time   *)
(* before a vsync, dispatched from one timer.  Clients call schedule,      *)
(* update, cancel and unregisterCallback from their threads, under mMutex; *)
(* the timer's thread collects the callbacks that are due under mMutex and *)
(* calls them after it has released it.                                    *)
(***************************************************************************)
EXTENDS VSyncDispatchEntry, FiniteSetsExt, SequencesExt

CONSTANTS
    TimerSlack,     \* wakeups this close share one timer
    MaxTokens,      \* bound: callbacks ever registered
    MaxDisturbances,    \* bound: changes of the tracker's model and failures of the timer
    MaxCalls,       \* bound: calls of schedule, update and cancel
    Horizon         \* vsyncs up to this one are well within the bound on the clock

VARIABLES
    mRunning,               \* FALSE once the queue is being destroyed
    mCallbackToken,         \* the last token given out
    mCallbacks,             \* the registered entries by token
    mIntendedWakeupTime,    \* what the timer is set to
    stage,                  \* how far timerCallback is: "entering", "invoking" or "running"
    invocations,            \* the tokens and vsyncs it has collected and not finished
    disturbances,           \* changes of the tracker's model and failures of the timer so far
    calls                   \* calls of schedule, update and cancel so far

queueVars == <<mRunning, mCallbackToken, mCallbacks, mIntendedWakeupTime,
               stage, invocations, calls>>
vars == <<timerVars, mOldestVsync, disturbances, queueVars>>

\* std::numeric_limits<int64_t>::max(): later than any time of the model.
kInvalidTime == 1000000

Token == 1 .. MaxTokens

Init ==
    /\ TimerInit
    /\ mOldestVsync = 0
    /\ disturbances = 0
    /\ calls = 0
    /\ mRunning = TRUE
    /\ mCallbackToken = 0
    /\ mCallbacks = <<>>
    /\ mIntendedWakeupTime = kInvalidTime
    /\ stage = "entering"
    /\ invocations = <<>>

\* The entry's callback function is being called.
runs(k) == stage = "running" /\ Head(invocations).token = k

-----------------------------------------------------------------------------
cancelTimer ==
    /\ mIntendedWakeupTime' = kInvalidTime
    /\ alarmCancel

setTimer(targetTime) ==
    /\ mIntendedWakeupTime' = targetTime
    /\ alarmAt(targetTime)

\* Fault: entries that only have a pending update are left out.
considersArmed(e) == armed(e)

considers(e) == armed(e) \/ hasPendingWorkloadUpdate(e)

\* Brings the entries considered up to date, but the one just scheduled, and
\* sets the timer to the earliest wakeup if that is before the intended one.
rearmTimerSkippingUpdateFor(callbacks, intended, skip) ==
    LET some == {k \in DOMAIN callbacks : considers(callbacks[k])}
        updated == [k \in DOMAIN callbacks |->
                        IF k \in some \ skip THEN entryUpdate(callbacks[k]) ELSE callbacks[k]]
        wakeups == {updated[k].mArmedInfo.wakeup : k \in some}
    IN  /\ mCallbacks' = updated
        /\ IF \E w \in wakeups : w < intended THEN setTimer(Min(wakeups)) ELSE cancelTimer

rearmTimer(callbacks, intended) == rearmTimerSkippingUpdateFor(callbacks, intended, {})

-----------------------------------------------------------------------------
registerCallback ==
    /\ mRunning
    /\ mCallbackToken < MaxTokens
    /\ mCallbackToken' = mCallbackToken + 1
    /\ mCallbacks' = [k \in DOMAIN mCallbacks \cup {mCallbackToken'} |->
                        IF k \in DOMAIN mCallbacks THEN mCallbacks[k] ELSE NewEntry]
    /\ UNCHANGED <<timerVars, mOldestVsync, disturbances, mRunning, mIntendedWakeupTime,
                   stage, invocations, calls>>

\* The entry is erased and the timer left as it is.  ensureNotRunning then only
\* holds up the caller while the callback is being called.
unregisterCallback(k) ==
    /\ k \in DOMAIN mCallbacks
    /\ mCallbacks' = [j \in DOMAIN mCallbacks \ {k} |-> mCallbacks[j]]
    /\ UNCHANGED <<timerVars, mOldestVsync, disturbances, mRunning, mCallbackToken,
                   mIntendedWakeupTime, stage, invocations, calls>>

\* Called with mMutex held.  When the timer is overdue the timing is only noted:
\* the timer's thread is about to run and applies it.
scheduleLocked(k, timing) ==
    LET scheduled == [mCallbacks EXCEPT ![k] = entrySchedule(@, timing)]
    IN  \/ /\ now > mIntendedWakeupTime
           /\ mCallbacks' = [mCallbacks EXCEPT ![k] = addPendingWorkloadUpdate(@, timing)]
           /\ UNCHANGED <<mIntendedWakeupTime, alarm, mCallback, mExpectingCallback>>
        \/ /\ now <= mIntendedWakeupTime
           /\ scheduled[k].mArmedInfo.wakeup < mIntendedWakeupTime - TimerSlack
           /\ rearmTimerSkippingUpdateFor(scheduled, mIntendedWakeupTime, {k})
        \/ /\ now <= mIntendedWakeupTime
           /\ scheduled[k].mArmedInfo.wakeup >= mIntendedWakeupTime - TimerSlack
           /\ mCallbacks' = scheduled
           /\ UNCHANGED <<mIntendedWakeupTime, alarm, mCallback, mExpectingCallback>>

schedule(k, timing) ==
    /\ calls < MaxCalls
    /\ calls' = calls + 1
    /\ k \in DOMAIN mCallbacks
    /\ scheduleLocked(k, timing)
    /\ UNCHANGED <<now, mDebugState, mOldestVsync, disturbances, mRunning, mCallbackToken,
                   stage, invocations>>

\* update changes the timing of a callback that is armed.
update(k, timing) ==
    /\ calls < MaxCalls
    /\ calls' = calls + 1
    /\ k \in DOMAIN mCallbacks
    /\ armed(mCallbacks[k])
    /\ scheduleLocked(k, timing)
    /\ UNCHANGED <<now, mDebugState, mOldestVsync, disturbances, mRunning, mCallbackToken,
                   stage, invocations>>

\* Fault: the intended time is not reset before the timer is set again.
rearmsAfter(callbacks) == rearmTimer(callbacks, mIntendedWakeupTime)

\* The callback the timer was set for is gone: the timer is set for the others.
rearmsForOthers(callbacks) == rearmTimer(callbacks, kInvalidTime)

cancel(k) ==
    /\ calls < MaxCalls
    /\ calls' = calls + 1
    /\ k \in DOMAIN mCallbacks
    /\ armed(mCallbacks[k])
    /\ LET disarmed == [mCallbacks EXCEPT ![k] = disarm(@)]
       IN  \/ /\ mCallbacks[k].mArmedInfo.wakeup = mIntendedWakeupTime
              /\ rearmsForOthers(disarmed)
           \/ /\ mCallbacks[k].mArmedInfo.wakeup # mIntendedWakeupTime
              /\ mCallbacks' = disarmed
              /\ UNCHANGED <<mIntendedWakeupTime, alarm, mCallback, mExpectingCallback>>
    /\ UNCHANGED <<now, mDebugState, mOldestVsync, disturbances, mRunning, mCallbackToken,
                   stage, invocations>>

-----------------------------------------------------------------------------
\* An armed entry is called when its wakeup is within the slack of the intended
\* time or, when the thread is late, of the present.
due(e) ==
    /\ armed(e)
    /\ e.mArmedInfo.wakeup
         < mIntendedWakeupTime + TimerSlack + Larger(now - mIntendedWakeupTime, 0)

\* The thread calls timerCallback and takes mMutex.
timerCallback ==
    /\ mDebugState = "InCallback"
    /\ stage = "entering"
    /\ mRunning
    /\ LET dues == SetToSortSeq({k \in DOMAIN mCallbacks : due(mCallbacks[k])}, <)
       IN  /\ invocations' = [i \in DOMAIN dues |->
                                [token |-> dues[i], vsync |-> mCallbacks[dues[i]].mArmedInfo.vsync]]
           /\ stage' = IF dues = <<>> THEN "entering" ELSE "invoking"
           /\ mDebugState' = IF dues = <<>> THEN "Waiting" ELSE "InCallback"
    /\ rearmTimer([k \in DOMAIN mCallbacks |->
                        IF due(mCallbacks[k]) THEN executing(mCallbacks[k]) ELSE mCallbacks[k]],
                  kInvalidTime)
    /\ UNCHANGED <<now, mOldestVsync, disturbances, mRunning, mCallbackToken, calls>>

\* The queue is being destroyed: the callback returns at once.
timerCallbackSkipped ==
    /\ mDebugState = "InCallback"
    /\ stage = "entering"
    /\ ~mRunning
    /\ mDebugState' = "Waiting"
    /\ UNCHANGED <<now, alarm, mCallback, mExpectingCallback, mOldestVsync, disturbances, queueVars>>

\* The callback function of the first invocation is called.
callback ==
    /\ stage = "invoking"
    /\ stage' = "running"
    /\ UNCHANGED <<timerVars, mOldestVsync, disturbances, mRunning, mCallbackToken, mCallbacks,
                   mIntendedWakeupTime, invocations, calls>>

\* It returns.
callbackReturns ==
    /\ stage = "running"
    /\ invocations' = Tail(invocations)
    /\ stage' = IF Tail(invocations) = <<>> THEN "entering" ELSE "invoking"
    /\ mDebugState' = IF Tail(invocations) = <<>> THEN "Waiting" ELSE "InCallback"
    /\ UNCHANGED <<now, alarm, mCallback, mExpectingCallback, mOldestVsync, disturbances, mRunning,
                   mCallbackToken, mCallbacks, mIntendedWakeupTime, calls>>

\* The destructor stops the timer and waits for a callback that is being called.
Destroy ==
    /\ mRunning
    /\ \A k \in DOMAIN mCallbacks : ~runs(k)
    /\ mRunning' = FALSE
    /\ cancelTimer
    /\ mCallbacks' = <<>>
    /\ UNCHANGED <<now, mDebugState, mOldestVsync, disturbances, mCallbackToken, stage, invocations, calls>>

\* A new vsync timestamp changes what the tracker predicts (nothing asks it once
\* the queue is gone).
TrackerMoves ==
    /\ mRunning
    /\ disturbances < MaxDisturbances
    /\ disturbances' = disturbances + 1
    /\ mOldestVsync' \in {(mOldestVsync + 1) % Period, (mOldestVsync + Period - 1) % Period}
    /\ UNCHANGED <<timerVars, queueVars>>

\* The timer's thread fails and starts again.
TimerFails ==
    /\ mRunning
    /\ disturbances < MaxDisturbances
    /\ disturbances' = disturbances + 1
    /\ reset
    /\ UNCHANGED <<mOldestVsync, queueVars>>

TimerThread ==
    \/ epollReturns /\ UNCHANGED <<mOldestVsync, disturbances, queueVars>>
    \/ reads /\ UNCHANGED <<mOldestVsync, disturbances, queueVars>>
    \/ dispatch /\ UNCHANGED <<mOldestVsync, disturbances, queueVars>>
    \/ timerCallback
    \/ timerCallbackSkipped
    \/ callback
    \/ callbackReturns

Client ==
    \/ registerCallback
    \/ \E k \in Token :
        \/ unregisterCallback(k)
        \/ cancel(k)
        \/ \E timing \in Timings : schedule(k, timing) \/ update(k, timing)
    \/ Destroy

Next ==
    \/ TimerThread
    \/ Client
    \/ Tick /\ UNCHANGED <<mOldestVsync, disturbances, queueVars>>
    \/ TimerFails
    \/ TrackerMoves

Spec == Init /\ [][Next]_vars

\* The clock runs, the timer's thread is scheduled and callbacks return.
FairSpec ==
    /\ Spec
    /\ WF_vars(Tick /\ UNCHANGED <<mOldestVsync, disturbances, queueVars>>)
    /\ WF_vars(TimerThread)

-----------------------------------------------------------------------------
\* timerCallback is going to run: the alarm is set, or the thread has been woken
\* and will find the callback, or it is calling it.
timerWillRun ==
    \/ alarm # None /\ alarm = mIntendedWakeupTime
    \/ mDebugState \in {"Reading", "Running"} /\ mCallback
    \/ mDebugState = "InCallback" /\ stage = "entering"

\* No callback is forgotten, whatever schedule, update, cancel, unregisterCallback
\* and an error of the timer do between the steps of the timer's thread.  While
\* an entry is armed the timer is set, no later than the entry's wakeup plus the
\* slack (in particular timerCallback never adds to kInvalidTime, which would
\* overflow); while an update is pending the timer is overdue, as scheduleLocked
\* relies on.
TimerCoversQueue ==
    \A k \in DOMAIN mCallbacks :
        /\ armed(mCallbacks[k]) =>
            /\ timerWillRun
            /\ mIntendedWakeupTime <= mCallbacks[k].mArmedInfo.wakeup + TimerSlack
        /\ hasPendingWorkloadUpdate(mCallbacks[k]) =>
            /\ timerWillRun
            /\ mIntendedWakeupTime < now

\* A callback is never called twice for the same vsync, nor for an earlier one:
\* the vsyncs it is called for are more than mMinVsyncDistance apart, also when
\* the predictions change between schedule, the updates and the call.
VsyncDispatchedOnce ==
    [][\A k \in DOMAIN mCallbacks \cap DOMAIN mCallbacks' :
        LET last == mCallbacks[k].mLastDispatchTime
            next == mCallbacks'[k].mLastDispatchTime
        IN  last # None /\ next # last => next > last + MinVsyncDistance]_vars

\* The queue updates all armed entries whenever the timer is set again.  That
\* never makes one skip the vsync it is armed for: only calls for this entry
\* move it to a vsync that is more than mMinVsyncDistance later.
OthersSkipNoVsync ==
    [][\A k \in DOMAIN mCallbacks \cap DOMAIN mCallbacks' :
        LET before == mCallbacks[k]
            after == mCallbacks'[k]
        IN  /\ armed(before)
            /\ armed(after)
            /\ after.mLastDispatchTime = before.mLastDispatchTime
            /\ ~cancel(k)
            /\ ~\E timing \in Timings : schedule(k, timing)
            => after.mArmedInfo.vsync <= before.mArmedInfo.vsync + MinVsyncDistance]_vars

\* The entry has a pending timing, or is armed for a vsync within the horizon.
outstanding(k) ==
    /\ k \in DOMAIN mCallbacks
    /\ \/ hasPendingWorkloadUpdate(mCallbacks[k])
       \/ armed(mCallbacks[k]) /\ mCallbacks[k].mArmedInfo.vsync <= Horizon

\* What was scheduled happens: an entry armed for a vsync is dispatched, unless
\* calls for this entry move, cancel or unregister it, and a timing that was only
\* noted is applied; also when the timer loses its alarm, fires late or fires for
\* an alarm that was replaced.
ScheduledIsDispatched == \A k \in Token : outstanding(k) ~> ~outstanding(k)
=============================================================================
