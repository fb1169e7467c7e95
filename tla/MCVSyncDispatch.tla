-------------------------- MODULE MCVSyncDispatch --------------------------
(***************************************************************************)
(* VSyncDispatchTimerQueue on a small instance, with a short and a long    *)
(* client.                                                                 *)
(***************************************************************************)
EXTENDS VSyncDispatchTimerQueue

MCTimings ==
    {[workDuration |-> 1, readyDuration |-> 0, lastVsync |-> 0],
     [workDuration |-> 1, readyDuration |-> 1, lastVsync |-> 0]}
=============================================================================
