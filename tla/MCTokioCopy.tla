----------------------------- MODULE MCTokioCopy -----------------------------
(* Instance of TokioCopy for TLC.                                           *)
EXTENDS TokioCopy
=============================================================================
