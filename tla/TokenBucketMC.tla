--------------------------- MODULE TokenBucketMC ---------------------------
(* TokenBucket with a burst of two tokens, and two tokens accrued in three ticks.  *)
EXTENDS TokenBucket
=============================================================================
