----------------------------- MODULE MCBackoff -----------------------------
(* Widths small enough for the factor, the product and the millisecond      *)
(* count all to saturate within a few retries.                              *)
EXTENDS Backoff

MCDurations == {0, 1, 3, 8, 20, 39}
=============================================================================
