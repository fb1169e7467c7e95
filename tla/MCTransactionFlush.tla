------------------------- MODULE MCTransactionFlush -------------------------
(***************************************************************************)
(* TransactionFlush with two binder threads: transactions that wait for    *)
(* each other across apply tokens, in both ways, and buffers with fences.  *)
(***************************************************************************)
EXTENDS TransactionFlush

CONSTANTS t1, t2, a1, a2, b1, b2, layer

Plain(id, a) ==
    [id |-> id, applyToken |-> a, waits |-> {}, signals |-> {}, layer |-> None,
     frameNumber |-> 0, barrierFrameNumber |-> 0, fence |-> FALSE,
     desiredPresentTime |-> None, postTime |-> 0]

Waits(id, a, b) == [Plain(id, a) EXCEPT !.waits = {b}]
Signals(id, a, b) == [Plain(id, a) EXCEPT !.signals = {b}]
Buffer(id, a, frame, barrier) ==
    [Plain(id, a) EXCEPT !.layer = layer, !.frameNumber = frame,
                         !.barrierFrameNumber = barrier, !.fence = TRUE]
Drawn(id, a, frame, barrier) == [Buffer(id, a, frame, barrier) EXCEPT !.fence = FALSE]

MCScripts ==
    {\* A wait, and its signal after a buffer of another token.
     (t1 :> <<Waits(1, a1, b1)>> @@
      t2 :> <<[Buffer(2, a2, 1, 0) EXCEPT !.signals = {b1}]>>),
     \* A layer's buffers come from two tokens; the third, with a present time, has
     \* to follow the second.
     (t1 :> <<Drawn(1, a1, 1, 0), Drawn(2, a1, 2, 0)>> @@
      t2 :> <<[Drawn(3, a2, 3, 2) EXCEPT !.desiredPresentTime = 0]>>),
     \* Two threads use one token, for a layer with back pressure.
     (t1 :> <<Buffer(1, a1, 1, 0)>> @@
      t2 :> <<Plain(2, a1), Drawn(3, a2, 2, 0)>>),
     \* Two tokens wait for each other, so that only the timeout helps.
     (t1 :> <<[Waits(1, a1, b1) EXCEPT !.signals = {b2}]>> @@
      t2 :> <<[Waits(2, a2, b2) EXCEPT !.signals = {b1}]>>)}
=============================================================================
