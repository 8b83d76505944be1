--------------------------- MODULE MCKqueueBackend ---------------------------
(* KqueueBackend for TLC: two descriptors, two workers, a few flows.  *)
EXTENDS KqueueBackend
=============================================================================
