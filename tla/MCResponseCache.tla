--------------------------- MODULE MCResponseCache ---------------------------
(***************************************************************************)
(* TLC's instance of ResponseCache: one key more than the cache holds, two *)
(* requests at once, and time enough for an entry to expire and its        *)
(* replacement to expire too.                                              *)
(***************************************************************************)
EXTENDS ResponseCache, TLC

CONSTANTS k1, k2, k3, d1, d2, r1, r2, none

(* Keys, data and requests are interchangeable.                            *)
Interchangeable ==
  Permutations({k1, k2, k3}) \union Permutations({d1, d2}) \union Permutations({r1, r2})
=============================================================================
