---------------------------- MODULE MCRateLimiter ----------------------------
(***************************************************************************)
(* Two addresses and two requests at once; the clock jumps by less than a  *)
(* token's time, and by more than it takes to fill a bucket.               *)
(***************************************************************************)
EXTENDS RateLimiter, TLC

RequestSymmetry == Permutations(Requests) \cup Permutations(Ips)
=============================================================================
