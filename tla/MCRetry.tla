------------------------------- MODULE MCRetry -------------------------------
(* Retries without limit, from 16 seconds up to 64, doubling; one unit is   *)
(* 16 seconds.                                                              *)
EXTENDS Retry

UnlimitedRetries == -1
=============================================================================
