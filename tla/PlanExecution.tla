--------------------------- MODULE PlanExecution ---------------------------
(***************************************************************************)
(* What the executor promises of the steps of a plan                       *)
(* (internal/planner/types.go, Step.DependsOn: "Step IDs that must         *)
(* complete before this step can run"; internal/executor/executor.go,      *)
(* Execute).  Nothing is said of calls, retries or cancellation: Executor  *)
(* implements this with all of them.                                       *)
(***************************************************************************)
CONSTANTS
    Roots,     \* the steps that depend on none
    Deps,      \* the steps that depend on a root
    Parent     \* the root each of them depends on

Steps == Roots \cup Deps

VARIABLES
    outcome,   \* of each step: see Outcomes
    responded  \* the merged result has been returned

vars == <<outcome, responded>>

Outcomes == {"pending", "running", "settled", "failed", "skipped"}

Over(s) == outcome[s] \in {"settled", "failed", "skipped"}
RootsOver == \A r \in Roots : Over(r)

Init ==
    /\ outcome = [s \in Steps |-> IF s \in Roots THEN "running" ELSE "pending"]
    /\ responded = FALSE

\* A running step comes to its end; only a root can fail as a whole.
Settle(s) ==
    /\ outcome[s] = "running"
    /\ \E o \in {"settled", "failed"} :
          /\ o = "failed" => s \in Roots
          /\ outcome' = [outcome EXCEPT ![s] = o]
    /\ UNCHANGED responded

\* A dependent step is looked at when every root is over and no other
\* dependent runs: it is skipped exactly if its parent failed.
Start(s) ==
    /\ outcome[s] = "pending"
    /\ RootsOver
    /\ \A d \in Deps : outcome[d] # "running"
    /\ IF outcome[Parent[s]] = "failed"
       THEN outcome' = [outcome EXCEPT ![s] = "skipped"]
       ELSE \E o \in {"running", "settled"} : outcome' = [outcome EXCEPT ![s] = o]
    /\ UNCHANGED responded

Respond ==
    /\ \A s \in Steps : Over(s)
    /\ ~responded
    /\ responded' = TRUE
    /\ UNCHANGED outcome

Next ==
    \/ \E s \in Steps : Settle(s)
    \/ \E s \in Deps : Start(s)
    \/ Respond

Spec == Init /\ [][Next]_vars
=============================================================================
