-------------------------- MODULE MCSecurityManager --------------------------
(***************************************************************************)
(* Two changes of the settings: the first changes a rate, the second the   *)
(* number of connections.                                                  *)
(***************************************************************************)
EXTENDS SecurityManager, TLC

RpmDef == (Default :> 0) @@ (0 :> 1) @@ (1 :> 2) @@ (2 :> 2)
LimitDef == (Default :> 0) @@ (0 :> 1) @@ (1 :> 1) @@ (2 :> 2)

ClientSymmetry == Permutations(Clients) \cup Permutations(Admins)
=============================================================================
