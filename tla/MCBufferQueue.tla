---------------------------- MODULE MCBufferQueue ----------------------------
(* BufferQueue for TLC.                                                    *)
EXTENDS BufferQueue, TLC

\* Blocking, polling and timed dequeueBuffer.
AllTimeouts == {-1, 0, 1}

Symmetry == Permutations(BufferIds)
=============================================================================
