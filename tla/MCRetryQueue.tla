---------------------------- MODULE MCRetryQueue ----------------------------
(* A small instance of RetryQueue for TLC.  There is no symmetry: the run       *)
(* checks a liveness property.                                                  *)
EXTENDS RetryQueue
=============================================================================
