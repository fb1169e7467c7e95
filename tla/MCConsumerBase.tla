--------------------------- MODULE MCConsumerBase ---------------------------
(* ConsumerBase for TLC.                                                   *)
EXTENDS ConsumerBase, TLC

Symmetry == Permutations(BufferIds)
=============================================================================
