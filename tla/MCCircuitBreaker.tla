-------------------------- MODULE MCCircuitBreaker --------------------------
(***************************************************************************)
(* TLC's instance of CircuitBreaker: one service, since circuits of        *)
(* different services share no state, but enough checks and calls of it at *)
(* once for two trial probes to overlap with a probe and a call that began *)
(* before the outage.                                                      *)
(***************************************************************************)
EXTENDS CircuitBreaker

CONSTANT users   (* the service *)

MCServices == {users}
=============================================================================
