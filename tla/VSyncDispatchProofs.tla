------------------------ MODULE VSyncDispatchProofs ------------------------
(***************************************************************************)
(* Proofs about VSyncDispatchTimerQueue for every period, distance, slack, *)
(* set of timings and number of callbacks.  The inductive invariant says   *)
(* of each entry that it is armed for a vsync well after the one it was    *)
(* dispatched for last; that rests on adjustVsyncIfNeeded, whose result is *)
(* such a vsync whatever it is given.                                      *)
(***************************************************************************)
EXTENDS VSyncDispatchTimerQueue, TLAPS

\* What the entry remembers is well formed, and the vsync it is armed for is not
\* one that it has been dispatched for.
EntryInv(e) ==
    /\ e.mLastDispatchTime # None => e.mLastDispatchTime \in Int
    /\ hasPendingWorkloadUpdate(e) => e.mWorkloadUpdateInfo \in Timings
    /\ armed(e) =>
        /\ e.mScheduleTiming \in Timings
        /\ e.mArmedInfo.vsync \in Int
        /\ e.mArmedInfo.wakeup \in Int
        /\ e.mLastDispatchTime # None =>
            e.mArmedInfo.vsync > e.mLastDispatchTime + MinVsyncDistance

\* The clock and the tracker's model are integers, and every entry is in order.
Inv ==
    /\ now \in Int
    /\ mOldestVsync \in Int
    /\ \A k \in DOMAIN mCallbacks : EntryInv(mCallbacks[k])

\* The tracker's prediction (snapToVsync) is a time after the one asked about.
LEMMA SnapAfter ==
    ASSUME NEW t \in Int, mOldestVsync \in Int
    PROVE  snapToVsync(t) \in Int /\ snapToVsync(t) > t
<1> DEFINE d == t - mOldestVsync
           q == d \div Period
<1>1. Period \in Nat /\ Period > 0
  BY PeriodAssumption
<1>2. d \in Int
  OBVIOUS
<1>3. q \in Int /\ d = Period * q + (d % Period) /\ d % Period < Period /\ d % Period \in Int
  <2> HIDE DEF d
  <2> QED  BY <1>1, <1>2
<1>4. (q + 1) * Period = Period * q + Period /\ (q + 1) * Period \in Int
  <2> HIDE DEF q
  <2> QED  BY <1>1, <1>3
<1>5. (q + 1) * Period > d
  <2> HIDE DEF d, q
  <2> DEFINE pq == Period * q
  <2>1. pq \in Int
    BY <1>1, <1>3
  <2> HIDE DEF pq
  <2>2. d = pq + (d % Period) /\ (q + 1) * Period = pq + Period
    BY <1>3, <1>4 DEF pq
  <2> QED  BY <2>1, <2>2, <1>1, <1>3, <1>2
<1>6. snapToVsync(t) = mOldestVsync + (q + 1) * Period
  BY DEF snapToVsync
<1> HIDE DEF q
<1> QED  BY <1>4, <1>5, <1>6

\* adjustVsyncIfNeeded returns a vsync more than the minimal distance after the
\* last one dispatched, whatever the predicted vsync it starts from.
LEMMA AdjustedAfter ==
    ASSUME NEW e, NEW v \in Int, mOldestVsync \in Int,
           e.mLastDispatchTime # None => e.mLastDispatchTime \in Int
    PROVE  /\ adjustVsyncIfNeeded(e, v) \in Int
           /\ e.mLastDispatchTime # None =>
                adjustVsyncIfNeeded(e, v) > e.mLastDispatchTime + MinVsyncDistance
<1>1. CASE e.mLastDispatchTime = None
  BY <1>1 DEF adjustVsyncIfNeeded
<1>2. CASE e.mLastDispatchTime # None
  <2> DEFINE last == e.mLastDispatchTime
             already == last + MinVsyncDistance >= v /\ last - MinVsyncDistance <= v
             tooClose == v - last + MinVsyncDistance <= Period
  <2>1. last \in Int /\ MinVsyncDistance \in Int /\ Period \in Int /\ MinVsyncDistance < Period
    BY <1>2, PeriodAssumption
  <2>2. CASE already
    <3>1. adjustVsyncIfNeeded(e, v) = snapToVsync(last + MinVsyncDistance)
      BY <1>2, <2>2 DEF adjustVsyncIfNeeded
    <3> QED  BY <3>1, <2>1, SnapAfter
  <2>3. CASE ~already /\ tooClose
    <3>1. adjustVsyncIfNeeded(e, v) = snapToVsync(last + Period)
      BY <1>2, <2>3 DEF adjustVsyncIfNeeded
    <3>2. last + Period \in Int
      BY <2>1
    <3>3. snapToVsync(last + Period) \in Int /\ snapToVsync(last + Period) > last + Period
      BY <3>2, SnapAfter
    <3> QED  BY <3>1, <3>3, <2>1
  <2>4. CASE ~already /\ ~tooClose
    <3>1. adjustVsyncIfNeeded(e, v) = v
      BY <1>2, <2>4 DEF adjustVsyncIfNeeded
    <3>2. v > last + MinVsyncDistance
      BY <2>1, <2>4
    <3> QED  BY <3>1, <3>2
  <2> QED  BY <2>2, <2>3, <2>4
<1> QED  BY <1>1, <1>2

-----------------------------------------------------------------------------
\* Whatever the clock and the timing, the prediction schedule and update start
\* from is an integer.
LEMMA FirstPrediction ==
    ASSUME NEW timing \in Timings, now \in Int, mOldestVsync \in Int
    PROVE  snapToVsync(earliestVsync(timing)) \in Int
<1>1. earliestVsync(timing) \in Int
  BY TimingsAssumption DEF earliestVsync, Larger
<1> QED  BY <1>1, SnapAfter

\* VSyncDispatchTimerQueueEntry::schedule keeps an entry in order: it either stays
\* with the vsync it is armed for or takes an adjusted one.
LEMMA ScheduleKeepsEntry ==
    ASSUME NEW e, EntryInv(e), NEW timing \in Timings, now \in Int, mOldestVsync \in Int
    PROVE  /\ EntryInv(entrySchedule(e, timing))
           /\ entrySchedule(e, timing).mLastDispatchTime = e.mLastDispatchTime
<1> DEFINE duration == timing.workDuration + timing.readyDuration
           first == snapToVsync(earliestVsync(timing))
           vsync == IF wouldSkip(e, first, first - duration)
                    THEN e.mArmedInfo.vsync
                    ELSE adjustVsyncIfNeeded(e, first)
           info == ArmedFor(vsync, Larger(now, vsync - duration), timing)
           f == [e EXCEPT !.mScheduleTiming = timing, !.mArmedInfo = info]
<1>1. duration \in Int /\ first \in Int
  BY TimingsAssumption, FirstPrediction
<1>2. /\ vsync \in Int
      /\ e.mLastDispatchTime # None => vsync > e.mLastDispatchTime + MinVsyncDistance
  <2> HIDE DEF first, duration
  <2>1. CASE wouldSkip(e, first, first - duration)
    BY <2>1 DEF wouldSkip, EntryInv, armed
  <2>2. CASE ~wouldSkip(e, first, first - duration)
    BY <2>2, <1>1, AdjustedAfter DEF EntryInv
  <2> QED  BY <2>1, <2>2
<1>3. entrySchedule(e, timing) = f
  BY DEF entrySchedule
<1> HIDE DEF vsync, duration
<1>4. info.vsync = vsync /\ info.wakeup \in Int
  BY <1>1, <1>2 DEF ArmedFor, Larger
<1> HIDE DEF info
<1>5. /\ f.mLastDispatchTime = e.mLastDispatchTime
      /\ f.mWorkloadUpdateInfo = e.mWorkloadUpdateInfo
      /\ armed(f) => f.mScheduleTiming = timing /\ f.mArmedInfo = info
  BY DEF armed
<1> QED  BY <1>2, <1>3, <1>4, <1>5 DEF EntryInv, hasPendingWorkloadUpdate

\* VSyncDispatchTimerQueueEntry::update keeps an entry in order, and does not make
\* an armed one skip its vsync.
LEMMA UpdateKeepsEntry ==
    ASSUME NEW e, EntryInv(e), considers(e), now \in Int, mOldestVsync \in Int
    PROVE  /\ EntryInv(entryUpdate(e))
           /\ entryUpdate(e).mLastDispatchTime = e.mLastDispatchTime
           /\ armed(e) /\ armed(entryUpdate(e)) =>
                entryUpdate(e).mArmedInfo.vsync <= e.mArmedInfo.vsync + MinVsyncDistance
<1> DEFINE timing == IF hasPendingWorkloadUpdate(e) THEN e.mWorkloadUpdateInfo ELSE e.mScheduleTiming
           first == snapToVsync(earliestVsync(timing))
           vsync == adjustVsyncIfNeeded(e, first)
           wakeup == vsync - timing.readyDuration - timing.workDuration
           info == getArmedInfo(e, timing)
           f == [e EXCEPT !.mScheduleTiming = timing, !.mWorkloadUpdateInfo = None, !.mArmedInfo = info]
<1>1. timing \in Timings
  BY DEF EntryInv, considers
<1> HIDE DEF timing
<1>2. first \in Int
  BY <1>1, FirstPrediction
<1> HIDE DEF first
<1>3. /\ vsync \in Int
      /\ e.mLastDispatchTime # None => vsync > e.mLastDispatchTime + MinVsyncDistance
  BY <1>2, AdjustedAfter DEF EntryInv
<1> HIDE DEF vsync
<1>4. wakeup \in Int
  BY <1>1, <1>3, TimingsAssumption
<1>5. info = IF wouldSkip(e, vsync, wakeup) THEN e.mArmedInfo ELSE ArmedFor(vsync, wakeup, timing)
  BY DEF getArmedInfo, first, vsync
<1> HIDE DEF wakeup, info
<1>6. CASE wouldSkip(e, vsync, wakeup)
  <2>1. armed(e) /\ info = e.mArmedInfo
    BY <1>5, <1>6 DEF wouldSkip
  <2> QED
    BY <2>1, <1>1, PeriodAssumption
    DEF EntryInv, armed, hasPendingWorkloadUpdate, entryUpdate, timing, info
<1>7. CASE ~wouldSkip(e, vsync, wakeup)
  <2>1. info.vsync = vsync /\ info.wakeup = wakeup
    BY <1>5, <1>7 DEF ArmedFor
  <2>2. armed(e) => vsync <= e.mArmedInfo.vsync + MinVsyncDistance
    BY <1>3, <1>7, PeriodAssumption DEF wouldSkip, EntryInv
  <2>3. entryUpdate(e) = f
    BY DEF entryUpdate, timing, info
  <2>4. /\ f.mLastDispatchTime = e.mLastDispatchTime
        /\ ~hasPendingWorkloadUpdate(f)
        /\ f.mScheduleTiming = timing /\ f.mArmedInfo = info
    BY DEF hasPendingWorkloadUpdate
  <2> QED
    BY <2>1, <2>2, <2>3, <2>4, <1>1, <1>3, <1>4 DEF EntryInv
<1> QED  BY <1>6, <1>7

\* A new entry is in order, and disarm, addPendingWorkloadUpdate and executing keep
\* it so; executing moves the last dispatch on by more than the minimal distance.
LEMMA OthersKeepEntry ==
    ASSUME NEW e, EntryInv(e)
    PROVE  /\ EntryInv(NewEntry)
           /\ EntryInv(disarm(e))
           /\ disarm(e).mLastDispatchTime = e.mLastDispatchTime
           /\ ~armed(disarm(e))
           /\ \A timing \in Timings :
                /\ EntryInv(addPendingWorkloadUpdate(e, timing))
                /\ addPendingWorkloadUpdate(e, timing).mLastDispatchTime = e.mLastDispatchTime
           /\ armed(e) =>
                /\ EntryInv(executing(e))
                /\ ~armed(executing(e))
                /\ e.mLastDispatchTime # None =>
                    executing(e).mLastDispatchTime > e.mLastDispatchTime + MinVsyncDistance
<1>1. EntryInv(NewEntry)
  BY DEF EntryInv, NewEntry, armed, hasPendingWorkloadUpdate
<1>2. /\ EntryInv(disarm(e))
      /\ disarm(e).mLastDispatchTime = e.mLastDispatchTime
      /\ ~armed(disarm(e))
  BY DEF EntryInv, disarm, armed, hasPendingWorkloadUpdate
<1>3. ASSUME NEW timing \in Timings
      PROVE  /\ EntryInv(addPendingWorkloadUpdate(e, timing))
             /\ addPendingWorkloadUpdate(e, timing).mLastDispatchTime = e.mLastDispatchTime
  BY <1>3 DEF EntryInv, addPendingWorkloadUpdate, armed, hasPendingWorkloadUpdate
<1>4. ASSUME armed(e)
      PROVE  /\ EntryInv(executing(e))
             /\ ~armed(executing(e))
             /\ e.mLastDispatchTime # None =>
                    executing(e).mLastDispatchTime > e.mLastDispatchTime + MinVsyncDistance
  BY <1>4 DEF EntryInv, executing, disarm, armed, hasPendingWorkloadUpdate
<1> QED  BY <1>1, <1>2, <1>3, <1>4

-----------------------------------------------------------------------------
\* rearmTimerSkippingUpdateFor changes entries only by update.
LEMMA RearmKeepsEntries ==
    ASSUME NEW callbacks, NEW intended, NEW skip,
           \A k \in DOMAIN callbacks : EntryInv(callbacks[k]),
           now \in Int, mOldestVsync \in Int,
           rearmTimerSkippingUpdateFor(callbacks, intended, skip)
    PROVE  /\ DOMAIN mCallbacks' = DOMAIN callbacks
           /\ \A k \in DOMAIN callbacks :
                /\ EntryInv(mCallbacks'[k])
                /\ mCallbacks'[k].mLastDispatchTime = callbacks[k].mLastDispatchTime
                /\ armed(callbacks[k]) /\ armed(mCallbacks'[k]) =>
                    mCallbacks'[k].mArmedInfo.vsync
                        <= callbacks[k].mArmedInfo.vsync + MinVsyncDistance
<1> DEFINE some == {k \in DOMAIN callbacks : considers(callbacks[k])}
<1>1. mCallbacks' = [k \in DOMAIN callbacks |->
                        IF k \in some \ skip THEN entryUpdate(callbacks[k]) ELSE callbacks[k]]
  BY DEF rearmTimerSkippingUpdateFor
<1>2. DOMAIN mCallbacks' = DOMAIN callbacks
  BY <1>1
<1>3. ASSUME NEW k \in DOMAIN callbacks
      PROVE  /\ EntryInv(mCallbacks'[k])
             /\ mCallbacks'[k].mLastDispatchTime = callbacks[k].mLastDispatchTime
             /\ armed(callbacks[k]) /\ armed(mCallbacks'[k]) =>
                 mCallbacks'[k].mArmedInfo.vsync
                     <= callbacks[k].mArmedInfo.vsync + MinVsyncDistance
  <2>1. CASE k \in some \ skip
    <3>1. mCallbacks'[k] = entryUpdate(callbacks[k])
      BY <1>1, <2>1
    <3>2. considers(callbacks[k]) /\ EntryInv(callbacks[k])
      BY <2>1
    <3> QED  BY <3>1, <3>2, UpdateKeepsEntry
  <2>2. CASE k \notin some \ skip
    <3>1. mCallbacks'[k] = callbacks[k]
      BY <1>1, <2>2
    <3> QED  BY <3>1, PeriodAssumption DEF EntryInv
  <2> QED  BY <2>1, <2>2
<1> QED  BY <1>2, <1>3

\* What a step may do to an entry: it stays in order, and its last dispatch stays
\* or moves on by more than the minimal distance.
EntryStep(e, f) ==
    /\ EntryInv(f)
    /\ e.mLastDispatchTime # None /\ f.mLastDispatchTime # e.mLastDispatchTime =>
        f.mLastDispatchTime > e.mLastDispatchTime + MinVsyncDistance

\* It does not make the entry skip the vsync it is armed for.
SkipsNothing(e, f) ==
    armed(e) /\ armed(f) /\ f.mLastDispatchTime = e.mLastDispatchTime =>
        f.mArmedInfo.vsync <= e.mArmedInfo.vsync + MinVsyncDistance

\* scheduleLocked takes a legal step with the entry it is for, and one that skips
\* nothing with the others.
LEMMA ScheduleLockedStep ==
    ASSUME Inv, NEW k \in DOMAIN mCallbacks, NEW timing \in Timings, scheduleLocked(k, timing)
    PROVE  /\ DOMAIN mCallbacks' = DOMAIN mCallbacks
           /\ \A j \in DOMAIN mCallbacks :
                /\ EntryStep(mCallbacks[j], mCallbacks'[j])
                /\ j # k => SkipsNothing(mCallbacks[j], mCallbacks'[j])
<1> DEFINE scheduled == [mCallbacks EXCEPT ![k] = entrySchedule(@, timing)]
           noted == [mCallbacks EXCEPT ![k] = addPendingWorkloadUpdate(@, timing)]
<1>1. /\ DOMAIN scheduled = DOMAIN mCallbacks
      /\ \A j \in DOMAIN mCallbacks :
            /\ EntryInv(scheduled[j])
            /\ scheduled[j].mLastDispatchTime = mCallbacks[j].mLastDispatchTime
            /\ j # k => scheduled[j] = mCallbacks[j]
  BY ScheduleKeepsEntry DEF Inv
<1>2. /\ DOMAIN noted = DOMAIN mCallbacks
      /\ \A j \in DOMAIN mCallbacks :
            /\ EntryInv(noted[j])
            /\ noted[j].mLastDispatchTime = mCallbacks[j].mLastDispatchTime
            /\ j # k => noted[j] = mCallbacks[j]
  BY OthersKeepEntry DEF Inv
<1>3. /\ DOMAIN mCallbacks' = DOMAIN mCallbacks
      /\ \A j \in DOMAIN mCallbacks :
            /\ EntryInv(mCallbacks'[j])
            /\ mCallbacks'[j].mLastDispatchTime = mCallbacks[j].mLastDispatchTime
            /\ j # k /\ armed(mCallbacks[j]) /\ armed(mCallbacks'[j]) =>
                mCallbacks'[j].mArmedInfo.vsync <= mCallbacks[j].mArmedInfo.vsync + MinVsyncDistance
  <2>1. CASE mCallbacks' = noted \/ mCallbacks' = scheduled
    <3> HIDE DEF noted, scheduled
    <3> QED  BY <2>1, <1>1, <1>2, PeriodAssumption DEF EntryInv
  <2>2. CASE rearmTimerSkippingUpdateFor(scheduled, mIntendedWakeupTime, {k})
    <3> HIDE DEF scheduled
    <3>1. /\ DOMAIN mCallbacks' = DOMAIN scheduled
          /\ \A j \in DOMAIN scheduled :
                /\ EntryInv(mCallbacks'[j])
                /\ mCallbacks'[j].mLastDispatchTime = scheduled[j].mLastDispatchTime
                /\ armed(scheduled[j]) /\ armed(mCallbacks'[j]) =>
                    mCallbacks'[j].mArmedInfo.vsync
                        <= scheduled[j].mArmedInfo.vsync + MinVsyncDistance
      BY <2>2, <1>1, RearmKeepsEntries DEF Inv
    <3> QED  BY <3>1, <1>1
  <2> QED  BY <2>1, <2>2 DEF scheduleLocked
<1> QED  BY <1>3 DEF EntryStep, SkipsNothing

\* timerCallback dispatches the entries that are due, once each, and lets the
\* others skip nothing when it sets the timer again.
LEMMA TimerCallbackStep ==
    ASSUME Inv, timerCallback
    PROVE  /\ DOMAIN mCallbacks' = DOMAIN mCallbacks
           /\ \A j \in DOMAIN mCallbacks :
                /\ EntryStep(mCallbacks[j], mCallbacks'[j])
                /\ SkipsNothing(mCallbacks[j], mCallbacks'[j])
<1> DEFINE dispatched == [k \in DOMAIN mCallbacks |->
                            IF due(mCallbacks[k]) THEN executing(mCallbacks[k]) ELSE mCallbacks[k]]
<1>1. DOMAIN dispatched = DOMAIN mCallbacks
  OBVIOUS
<1>2. ASSUME NEW j \in DOMAIN mCallbacks
      PROVE  /\ EntryInv(dispatched[j])
             /\ \/ dispatched[j] = mCallbacks[j]
                \/ /\ dispatched[j].mLastDispatchTime # mCallbacks[j].mLastDispatchTime
                   /\ mCallbacks[j].mLastDispatchTime # None =>
                        dispatched[j].mLastDispatchTime
                            > mCallbacks[j].mLastDispatchTime + MinVsyncDistance
  <2>1. CASE due(mCallbacks[j])
    <3>1. armed(mCallbacks[j]) /\ EntryInv(mCallbacks[j])
      BY <2>1 DEF due, Inv
    <3>2. dispatched[j] = executing(mCallbacks[j])
      BY <2>1
    <3>3. executing(mCallbacks[j]).mLastDispatchTime = mCallbacks[j].mArmedInfo.vsync
      BY DEF executing, disarm
    <3>4. executing(mCallbacks[j]).mLastDispatchTime # mCallbacks[j].mLastDispatchTime
      <4>1. CASE mCallbacks[j].mLastDispatchTime = None
        BY <4>1, <3>1, <3>3, NoneAssumption DEF EntryInv
      <4>2. CASE mCallbacks[j].mLastDispatchTime # None
        BY <4>2, <3>1, <3>3, PeriodAssumption DEF EntryInv
      <4> QED  BY <4>1, <4>2
    <3>5. /\ EntryInv(executing(mCallbacks[j]))
          /\ mCallbacks[j].mLastDispatchTime # None =>
                executing(mCallbacks[j]).mLastDispatchTime
                    > mCallbacks[j].mLastDispatchTime + MinVsyncDistance
      BY <3>1, OthersKeepEntry
    <3> QED  BY <3>2, <3>4, <3>5
  <2>2. CASE ~due(mCallbacks[j])
    BY <2>2 DEF Inv
  <2> QED  BY <2>1, <2>2
<1>3. rearmTimerSkippingUpdateFor(dispatched, kInvalidTime, {})
  BY DEF timerCallback, rearmTimer
<1>4. now \in Int /\ mOldestVsync \in Int
  BY DEF Inv
<1> HIDE DEF dispatched
<1>5. /\ DOMAIN mCallbacks' = DOMAIN dispatched
      /\ \A k \in DOMAIN dispatched :
            /\ EntryInv(mCallbacks'[k])
            /\ mCallbacks'[k].mLastDispatchTime = dispatched[k].mLastDispatchTime
            /\ armed(dispatched[k]) /\ armed(mCallbacks'[k]) =>
                mCallbacks'[k].mArmedInfo.vsync
                    <= dispatched[k].mArmedInfo.vsync + MinVsyncDistance
  BY <1>1, <1>2, <1>3, <1>4, RearmKeepsEntries
<1> QED  BY <1>1, <1>2, <1>5 DEF EntryStep, SkipsNothing

\* cancel takes a legal step with the entry it is for, and one that skips nothing
\* with the others.
LEMMA CancelStep ==
    ASSUME Inv, NEW k, cancel(k)
    PROVE  /\ DOMAIN mCallbacks' = DOMAIN mCallbacks
           /\ \A j \in DOMAIN mCallbacks :
                /\ EntryStep(mCallbacks[j], mCallbacks'[j])
                /\ j # k => SkipsNothing(mCallbacks[j], mCallbacks'[j])
<1> DEFINE disarmed == [mCallbacks EXCEPT ![k] = disarm(@)]
<1>1. /\ DOMAIN disarmed = DOMAIN mCallbacks
      /\ \A j \in DOMAIN mCallbacks :
            /\ EntryInv(disarmed[j])
            /\ disarmed[j].mLastDispatchTime = mCallbacks[j].mLastDispatchTime
            /\ j # k => disarmed[j] = mCallbacks[j]
  BY OthersKeepEntry DEF Inv
<1>2. \/ mCallbacks' = disarmed
      \/ rearmTimerSkippingUpdateFor(disarmed, kInvalidTime, {})
  BY DEF cancel, rearmsForOthers, rearmTimer
<1>3. now \in Int /\ mOldestVsync \in Int
  BY DEF Inv
<1> HIDE DEF disarmed
<1>4. CASE mCallbacks' = disarmed
  BY <1>4, <1>1, PeriodAssumption DEF EntryStep, SkipsNothing, EntryInv
<1>5. CASE rearmTimerSkippingUpdateFor(disarmed, kInvalidTime, {})
  <2>1. /\ DOMAIN mCallbacks' = DOMAIN disarmed
        /\ \A j \in DOMAIN disarmed :
              /\ EntryInv(mCallbacks'[j])
              /\ mCallbacks'[j].mLastDispatchTime = disarmed[j].mLastDispatchTime
              /\ armed(disarmed[j]) /\ armed(mCallbacks'[j]) =>
                  mCallbacks'[j].mArmedInfo.vsync
                      <= disarmed[j].mArmedInfo.vsync + MinVsyncDistance
    BY <1>5, <1>1, <1>3, RearmKeepsEntries
  <2> QED  BY <2>1, <1>1 DEF EntryStep, SkipsNothing
<1> QED  BY <1>2, <1>4, <1>5

-----------------------------------------------------------------------------
\* The calls that may move entry k to a later vsync, or disarm it.
CalledFor(k) == cancel(k) \/ \E timing \in Timings : schedule(k, timing)

\* The step is legal for every entry that is there before and after it.
EntriesStep ==
    \A k \in DOMAIN mCallbacks \cap DOMAIN mCallbacks' :
        /\ EntryStep(mCallbacks[k], mCallbacks'[k])
        /\ ~CalledFor(k) => SkipsNothing(mCallbacks[k], mCallbacks'[k])

\* Leaving an entry as it is is a legal step.
LEMMA SameEntry ==
    ASSUME NEW e, EntryInv(e)
    PROVE  EntryStep(e, e) /\ SkipsNothing(e, e)
BY PeriodAssumption DEF EntryInv, EntryStep, SkipsNothing

\* Every step of the queue, its timer and its tracker keeps the invariant and is
\* legal for every entry.
LEMMA NextStep ==
    ASSUME Inv, [Next]_vars
    PROVE  Inv' /\ EntriesStep
<1> USE DEF Inv
<1>1. now' \in Int /\ mOldestVsync' \in Int
  <2>1. now' \in Int
    <3>1. now' = now \/ now' = now + 1
      BY DEF Next, TimerThread, Client, vars, timerVars, Tick, TimerFails, reset, TrackerMoves,
             epollReturns, reads, dispatch, timerCallback, timerCallbackSkipped, callback,
             callbackReturns, registerCallback, unregisterCallback, cancel, schedule, update,
             Destroy
    <3> QED  BY <3>1
  <2>2. mOldestVsync' \in Int
    <3>1. CASE TrackerMoves
      <4>1. /\ (mOldestVsync + 1) % Period \in Int
            /\ (mOldestVsync + Period - 1) % Period \in Int
        BY PeriodAssumption
      <4> QED  BY <3>1, <4>1 DEF TrackerMoves
    <3>2. CASE ~TrackerMoves
      <4>1. mOldestVsync' = mOldestVsync
        BY <3>2
        DEF Next, TimerThread, Client, vars, TimerFails, timerCallback, timerCallbackSkipped,
            callback, callbackReturns, registerCallback, unregisterCallback, cancel, schedule,
            update, Destroy
      <4> QED  BY <4>1
    <3> QED  BY <3>1, <3>2
  <2> QED  BY <2>1, <2>2
<1>2. SUFFICES (\A k \in DOMAIN mCallbacks' : EntryInv(mCallbacks'[k])) /\ EntriesStep
  BY <1>1 DEF EntryInv, armed, hasPendingWorkloadUpdate
<1>3. ASSUME UNCHANGED mCallbacks
      PROVE  (\A k \in DOMAIN mCallbacks' : EntryInv(mCallbacks'[k])) /\ EntriesStep
  BY <1>3, SameEntry DEF EntriesStep
<1>4. ASSUME /\ DOMAIN mCallbacks' = DOMAIN mCallbacks
             /\ \A j \in DOMAIN mCallbacks :
                    /\ EntryStep(mCallbacks[j], mCallbacks'[j])
                    /\ ~CalledFor(j) => SkipsNothing(mCallbacks[j], mCallbacks'[j])
      PROVE  (\A k \in DOMAIN mCallbacks' : EntryInv(mCallbacks'[k])) /\ EntriesStep
  BY <1>4 DEF EntriesStep, EntryStep
<1>5. CASE registerCallback
  <2>1. ASSUME NEW k \in DOMAIN mCallbacks'
        PROVE  \/ k \in DOMAIN mCallbacks /\ mCallbacks'[k] = mCallbacks[k]
               \/ k \notin DOMAIN mCallbacks /\ mCallbacks'[k] = NewEntry
    BY <1>5 DEF registerCallback
  <2>2. EntryInv(NewEntry)
    BY DEF EntryInv, NewEntry, armed, hasPendingWorkloadUpdate
  <2> QED  BY <2>1, <2>2, SameEntry DEF EntriesStep
<1>6. ASSUME NEW k \in Token, unregisterCallback(k)
      PROVE  (\A j \in DOMAIN mCallbacks' : EntryInv(mCallbacks'[j])) /\ EntriesStep
  <2>1. ASSUME NEW j \in DOMAIN mCallbacks'
        PROVE  j \in DOMAIN mCallbacks /\ mCallbacks'[j] = mCallbacks[j]
    BY <1>6 DEF unregisterCallback
  <2> QED  BY <2>1, SameEntry DEF EntriesStep
<1>7. ASSUME NEW k \in Token, cancel(k)
      PROVE  (\A j \in DOMAIN mCallbacks' : EntryInv(mCallbacks'[j])) /\ EntriesStep
  BY <1>4, <1>7, CancelStep DEF CalledFor
<1>8. ASSUME NEW k \in Token, NEW timing \in Timings, schedule(k, timing)
      PROVE  (\A j \in DOMAIN mCallbacks' : EntryInv(mCallbacks'[j])) /\ EntriesStep
  <2>1. k \in DOMAIN mCallbacks /\ scheduleLocked(k, timing)
    BY <1>8 DEF schedule
  <2>2. CalledFor(k)
    BY <1>8 DEF CalledFor
  <2> QED  BY <1>4, <2>1, <2>2, ScheduleLockedStep
<1>9. ASSUME NEW k \in Token, NEW timing \in Timings, update(k, timing)
      PROVE  (\A j \in DOMAIN mCallbacks' : EntryInv(mCallbacks'[j])) /\ EntriesStep
  <2>1. schedule(k, timing)
    BY <1>9 DEF update, schedule
  <2> QED  BY <2>1, <1>8
<1>10. CASE timerCallback
  BY <1>4, <1>10, TimerCallbackStep
<1>11. CASE Destroy
  <2>1. DOMAIN mCallbacks' = {}
    BY <1>11 DEF Destroy
  <2> QED  BY <2>1 DEF EntriesStep
<1>12. CASE \/ epollReturns /\ UNCHANGED <<mOldestVsync, disturbances, queueVars>>
            \/ reads /\ UNCHANGED <<mOldestVsync, disturbances, queueVars>>
            \/ dispatch /\ UNCHANGED <<mOldestVsync, disturbances, queueVars>>
            \/ timerCallbackSkipped \/ callback \/ callbackReturns
            \/ Tick /\ UNCHANGED <<mOldestVsync, disturbances, queueVars>>
            \/ TimerFails \/ TrackerMoves \/ UNCHANGED vars
  <2>1. UNCHANGED mCallbacks
    BY <1>12
    DEF queueVars, vars, timerCallbackSkipped, callback, callbackReturns, TimerFails, TrackerMoves
  <2> QED  BY <2>1, <1>3
<1> QED
  BY <1>5, <1>6, <1>7, <1>8, <1>9, <1>10, <1>11, <1>12 DEF Next, TimerThread, Client

\* The invariant holds: an entry is only ever armed for a vsync that it has not
\* been dispatched for.
THEOREM InvHolds == Spec => []Inv
<1>1. Init => Inv
  BY DEF Init, TimerInit, Inv
<1>2. Inv /\ [Next]_vars => Inv'
  BY NextStep
<1> QED  BY <1>1, <1>2, PTL DEF Spec

\* timerCallback never dispatches a callback twice for the same vsync, nor for an
\* earlier one, for any period, distance and number of callbacks.
THEOREM DispatchedOnce == Spec => VsyncDispatchedOnce
<1>1. Inv /\ [Next]_vars =>
        [\A k \in DOMAIN mCallbacks \cap DOMAIN mCallbacks' :
            LET last == mCallbacks[k].mLastDispatchTime
                next == mCallbacks'[k].mLastDispatchTime
            IN  last # None /\ next # last => next > last + MinVsyncDistance]_vars
  BY NextStep DEF EntriesStep, EntryStep
<1> QED  BY <1>1, InvHolds, PTL DEF Spec, VsyncDispatchedOnce

\* Setting the timer again, for whatever call or dispatch, never makes an armed
\* entry skip its vsync, unless the call is for that entry.
THEOREM OthersSkipNothing == Spec => OthersSkipNoVsync
<1>1. Inv /\ [Next]_vars =>
        [\A k \in DOMAIN mCallbacks \cap DOMAIN mCallbacks' :
            LET before == mCallbacks[k]
                after == mCallbacks'[k]
            IN  /\ armed(before)
                /\ armed(after)
                /\ after.mLastDispatchTime = before.mLastDispatchTime
                /\ ~cancel(k)
                /\ ~\E timing \in Timings : schedule(k, timing)
                => after.mArmedInfo.vsync <= before.mArmedInfo.vsync + MinVsyncDistance]_vars
  BY NextStep DEF EntriesStep, SkipsNothing, CalledFor
<1> QED  BY <1>1, InvHolds, PTL DEF Spec, OthersSkipNoVsync
=============================================================================
