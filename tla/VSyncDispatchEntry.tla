------------------------- MODULE VSyncDispatchEntry -------------------------
(***************************************************************************)
(* VSyncDispatchTimerQueueEntry: one registered callback, the vsync it is  *)
(* armed for and the arithmetic that chooses it, and the part of the       *)
(* VSyncTracker the entry asks.  An entry is a record; the operators       *)
(* return the entry a method leaves behind.                                *)
(***************************************************************************)
EXTENDS Timer

CONSTANTS
    Timings,            \* the ScheduleTimings callers pass
    Period,             \* the vsync period
    MinVsyncDistance    \* vsyncs at most this far apart count as one

ASSUME PeriodAssumption ==
    /\ Period \in Nat
    /\ MinVsyncDistance \in Nat
    /\ MinVsyncDistance < Period

ASSUME NoneAssumption == None \notin Int

ASSUME TimingsAssumption ==
    \A timing \in Timings :
        /\ timing.workDuration \in Int
        /\ timing.readyDuration \in Int
        /\ timing.lastVsync \in Int

VARIABLE mOldestVsync   \* a vsync time of the tracker's model, modulo the period

\* An entry as it is registered.  mArmedInfo, when it is there, has the times
\* wakeup, vsync and ready.
NewEntry ==
    [mScheduleTiming |-> None,
     mArmedInfo |-> None,
     mLastDispatchTime |-> None,
     mWorkloadUpdateInfo |-> None]

Larger(a, b) == IF a > b THEN a ELSE b

\* The first predicted vsync after a point in time.
snapToVsync(timePoint) ==
    mOldestVsync + ((timePoint - mOldestVsync) \div Period + 1) * Period

armed(e) == e.mArmedInfo # None

hasPendingWorkloadUpdate(e) == e.mWorkloadUpdateInfo # None

\* Fault: the vsync that was dispatched last is not passed over.
adjustsOnlyClose(e, nextVsyncTime) ==
    IF /\ e.mLastDispatchTime # None
       /\ nextVsyncTime > e.mLastDispatchTime + MinVsyncDistance
       /\ nextVsyncTime - e.mLastDispatchTime + MinVsyncDistance <= Period
    THEN snapToVsync(e.mLastDispatchTime + Period)
    ELSE nextVsyncTime

adjustVsyncIfNeeded(e, nextVsyncTime) ==
    LET last == e.mLastDispatchTime
        alreadyDispatchedForVsync ==
            /\ last # None
            /\ last + MinVsyncDistance >= nextVsyncTime
            /\ last - MinVsyncDistance <= nextVsyncTime
        nextVsyncTooClose ==
            /\ last # None
            /\ nextVsyncTime - last + MinVsyncDistance <= Period
    IN  CASE alreadyDispatchedForVsync -> snapToVsync(last + MinVsyncDistance)
          [] ~alreadyDispatchedForVsync /\ nextVsyncTooClose -> snapToVsync(last + Period)
          [] OTHER -> nextVsyncTime

\* The earliest vsync the work can be ready for, not before the one asked for.
earliestVsync(timing) ==
    Larger(timing.lastVsync, now + timing.workDuration + timing.readyDuration)

\* Moving the armed entry to this vsync or wakeup time would skip the one it is armed for.
wouldSkip(e, vsync, wakeup) ==
    /\ armed(e)
    /\ \/ vsync > e.mArmedInfo.vsync + MinVsyncDistance
       \/ wakeup > e.mArmedInfo.wakeup + MinVsyncDistance

ArmedFor(vsync, wakeup, timing) ==
    [wakeup |-> wakeup, vsync |-> vsync, ready |-> vsync - timing.readyDuration]

entrySchedule(e, timing) ==
    LET duration == timing.workDuration + timing.readyDuration
        first == snapToVsync(earliestVsync(timing))
        vsync == IF wouldSkip(e, first, first - duration)
                 THEN e.mArmedInfo.vsync
                 ELSE adjustVsyncIfNeeded(e, first)
    IN  [e EXCEPT !.mScheduleTiming = timing,
                  !.mArmedInfo = ArmedFor(vsync, Larger(now, vsync - duration), timing)]

addPendingWorkloadUpdate(e, timing) == [e EXCEPT !.mWorkloadUpdateInfo = timing]

\* Fault: an armed entry always moves to the vsync predicted now.
getArmedInfoAnew(e, timing) ==
    LET vsync == adjustVsyncIfNeeded(e, snapToVsync(earliestVsync(timing)))
    IN  ArmedFor(vsync, vsync - timing.readyDuration - timing.workDuration, timing)

getArmedInfo(e, timing) ==
    LET vsync == adjustVsyncIfNeeded(e, snapToVsync(earliestVsync(timing)))
        wakeup == vsync - timing.readyDuration - timing.workDuration
    IN  IF wouldSkip(e, vsync, wakeup)
        THEN e.mArmedInfo
        ELSE ArmedFor(vsync, wakeup, timing)

\* The pending timing replaces the one of the last schedule, then the entry is
\* armed with the latest predictions.  Called for entries that are armed or have
\* a pending update.
entryUpdate(e) ==
    LET timing == IF hasPendingWorkloadUpdate(e) THEN e.mWorkloadUpdateInfo ELSE e.mScheduleTiming
    IN  [e EXCEPT !.mScheduleTiming = timing,
                  !.mWorkloadUpdateInfo = None,
                  !.mArmedInfo = getArmedInfo(e, timing)]

disarm(e) == [e EXCEPT !.mArmedInfo = None]

\* The entry is about to be called for the vsync it is armed for.
executing(e) == [disarm(e) EXCEPT !.mLastDispatchTime = e.mArmedInfo.vsync]
=============================================================================
