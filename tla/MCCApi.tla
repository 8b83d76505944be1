------------------------------- MODULE MCCApi --------------------------------
(* CApi for TLC: two threads, two operations, a result array of one.       *)
EXTENDS CApi
=============================================================================
