--------------------------- MODULE MCLazyServices ---------------------------
(***************************************************************************)
(* LazyServices on small instances.                                        *)
(***************************************************************************)
EXTENDS LazyServices
=============================================================================
