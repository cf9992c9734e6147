------------------------------ MODULE MCLimiter ------------------------------
(* Two threads and two clients; a token is two parts, so that a refill can   *)
(* leave half a token in a bucket, and every second call cleans up.          *)
EXTENDS RateLimiter
=============================================================================
