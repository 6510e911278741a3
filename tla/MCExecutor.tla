----------------------------- MODULE MCExecutor -----------------------------
(***************************************************************************)
(* Two root steps, an entity step that depends on one of them and a join   *)
(* that depends on the other.  The root of the join and the join are sent  *)
(* to services with a retry.                                               *)
(***************************************************************************)
EXTENDS Executor, TLC

CONSTANTS r1, r2, e1, j1

ParentDef == (e1 :> r1) @@ (j1 :> r2)
RetriesDef == (r1 :> 0) @@ (r2 :> 1) @@ (e1 :> 0) @@ (j1 :> 1)
=============================================================================
