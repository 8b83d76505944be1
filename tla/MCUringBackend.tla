---------------------------- MODULE MCUringBackend ---------------------------
(* Instances of UringBackend for TLC: rings of 2 and 4 entries, as          *)
(* io_uring_setup makes them for entries = 2.                               *)
EXTENDS UringBackend
=============================================================================
