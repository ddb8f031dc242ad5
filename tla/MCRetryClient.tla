--------------------------- MODULE MCRetryClient ---------------------------
(* Three attempts per call, two calls or streams.  The exponential gives    *)
(* 3 and then 6, clipped to 4 and 5, so the minimum, the cap and a          *)
(* Retry-After before now, below MinWait and above MaxWait are reached.     *)
EXTENDS RetryClient

MCRetryAfters == {-1, 1, 9}
=============================================================================
