-------------------------- MODULE MCServiceRegistry --------------------------
(***************************************************************************)
(* TLC's instance of ServiceRegistry: two services, one of them in the     *)
(* config file, registrations that are enabled or disabled, two schema     *)
(* versions and two workers.                                               *)
(***************************************************************************)
EXTENDS ServiceRegistry

CONSTANTS users, orders, on, off, v1, v2, w1, w2, none

MCConfigured == [s \in Services |-> IF s = users THEN on ELSE none]
=============================================================================
