------------------------------ MODULE Executor ------------------------------
(***************************************************************************)
(* One request's execution of a query plan (internal/executor/executor.go, *)
(* upstream.go, merge.go).  Root steps run in a goroutine each; when all   *)
(* have ended, dependent steps run one after the other.  Every call asks   *)
(* the circuit breaker, sends at most 1 + RetryCount HTTP requests, and    *)
(* reports to the breaker once.                                            *)
(*                                                                         *)
(* A step fills containers: the objects of the merged result its data goes *)
(* into.  A root step has one, the response's root.  An entity step asks   *)
(* for all of its containers in one call, a join step for one per call.    *)
(*                                                                         *)
(* The circuit moves at any time (module CircuitBreaker), so Allow may     *)
(* answer either way whenever it is asked.                                 *)
(***************************************************************************)
EXTENDS Naturals, FiniteSets

CONSTANTS
    Roots,         \* root steps of the plan
    Entities,      \* dependent steps that resolve entities
    Joins,         \* dependent steps that join
    Parent,        \* the root step each dependent step depends on
    Retries,       \* RetryCount of each step's service
    MaxContainers  \* bound: containers a dependent step finds

Deps == Entities \cup Joins
Steps == Roots \cup Deps
Containers == 1..MaxContainers

ASSUME ExecutorAssumption ==
    /\ Roots \cap Deps = {}
    /\ Entities \cap Joins = {}
    /\ Parent \in [Deps -> Roots]
    /\ Retries \in [Steps -> Nat]
    /\ MaxContainers \in Nat \ {0}

VARIABLES
    phase,      \* where Execute is: "roots" (wg.Wait), "deps", "done"
    at,         \* where each step is: see Places
    attempt,    \* the loop variable of callUpstream
    found,      \* containers of each step
    todo,       \* those whose call has not ended
    filled,     \* those that received data
    blamed,     \* those an entry of the response's errors speaks for
    omitted,    \* those the upstream left out of an answer without an error
    answered,   \* steps with an entry in stepData
    cancelled,  \* the request's context is done
    admitted,   \* calls of each step that Allow let through
    reported    \* RecordSuccess and RecordFailure calls of each step

callVars == <<at, attempt, todo, admitted, reported>>
dataVars == <<filled, blamed, omitted, answered>>
vars == <<phase, at, attempt, found, todo, filled, blamed, omitted, answered,
          cancelled, admitted, reported>>

Places == {"idle",      \* a dependent step not reached
           "allow",     \* about to ask the circuit breaker
           "send",      \* about to send a request
           "sent",      \* waiting for the answer
           "backoff",   \* waiting before the next attempt
           "ended", "skipped"}

InCall(s) == at[s] \in {"send", "sent", "backoff"}
Over(s) == at[s] \in {"ended", "skipped"}

Init ==
    /\ phase = "roots"
    /\ at = [s \in Steps |-> IF s \in Roots THEN "allow" ELSE "idle"]
    /\ attempt = [s \in Steps |-> 0]
    /\ found = [s \in Steps |-> IF s \in Roots THEN {1} ELSE {}]
    /\ todo = found
    /\ filled = [s \in Steps |-> {}]
    /\ blamed = filled
    /\ omitted = filled
    /\ answered = {}
    /\ cancelled = FALSE
    /\ admitted = [s \in Steps |-> 0]
    /\ reported = admitted

-----------------------------------------------------------------------------
(***************************************************************************)
(* How a call ends.                                                        *)
(***************************************************************************)

\* The containers the call under way is for: a join goes through its
\* containers in order.
Batch(s) ==
    IF s \in Joins THEN {c \in todo[s] : \A d \in todo[s] : c <= d} ELSE todo[s]

\* The first call of a join is its last.
MoveOnOnce(s) ==
    /\ todo' = [todo EXCEPT ![s] = {}]
    /\ at' = [at EXCEPT ![s] = "ended"]

\* After a call a join goes on with its next container, whatever came of
\* this one.
MoveOn(s) ==
    /\ todo' = [todo EXCEPT ![s] = @ \ Batch(s)]
    /\ at' = [at EXCEPT ![s] = IF todo[s] = Batch(s) THEN "ended" ELSE "allow"]

\* The breaker is not told.
ReportNothing(s) == UNCHANGED reported

\* RecordSuccess or RecordFailure.
Report(s) == reported' = [reported EXCEPT ![s] = @ + 1]

\* The error is lost.
BlameNobody(s) == UNCHANGED dataVars

\* The call's error becomes an error of the response.
Blame(s) ==
    /\ blamed' = [blamed EXCEPT ![s] = @ \cup Batch(s)]
    /\ UNCHANGED <<filled, omitted, answered>>

\* callUpstream returned an error.
Fails(s) ==
    /\ Report(s)
    /\ MoveOn(s)
    /\ Blame(s)
    /\ UNCHANGED <<phase, attempt, found, cancelled, admitted>>

-----------------------------------------------------------------------------
(***************************************************************************)
(* callStep and callUpstream.                                              *)
(***************************************************************************)

Admitted(s) ==
    /\ at[s] = "allow"
    /\ at' = [at EXCEPT ![s] = "send"]
    /\ attempt' = [attempt EXCEPT ![s] = 0]
    /\ admitted' = [admitted EXCEPT ![s] = @ + 1]
    /\ UNCHANGED <<phase, found, todo, cancelled, reported>>
    /\ UNCHANGED dataVars

\* The circuit is open: the call fails without being reported.
Refused(s) ==
    /\ at[s] = "allow"
    /\ MoveOn(s)
    /\ Blame(s)
    /\ UNCHANGED <<phase, attempt, found, cancelled, admitted, reported>>

Send(s) ==
    /\ at[s] = "send"
    /\ ~cancelled
    /\ at' = [at EXCEPT ![s] = "sent"]
    /\ UNCHANGED <<phase, attempt, found, todo, cancelled, admitted, reported>>
    /\ UNCHANGED dataVars

\* A request whose context is done fails before it is sent, or while it waits.
Cancelled(s) ==
    /\ at[s] \in {"send", "sent"}
    /\ cancelled
    /\ Fails(s)

\* The upstream answers with JSON of the right shape.  It gives data for some
\* of the containers; its errors may speak for all of them.  An error without
\* a message is dropped by Execute, so it counts as none.
Answers(s) ==
    /\ at[s] = "sent"
    /\ \E given \in SUBSET Batch(s), errors \in BOOLEAN :
          /\ filled' = [filled EXCEPT ![s] = @ \cup given]
          /\ blamed' = [blamed EXCEPT ![s] = IF errors THEN @ \cup Batch(s) ELSE @]
          /\ omitted' = [omitted EXCEPT ![s] = IF errors THEN @
                                               ELSE @ \cup (Batch(s) \ given)]
    /\ answered' = IF s \in Roots THEN answered \cup {s} ELSE answered
    /\ Report(s)
    /\ MoveOn(s)
    /\ UNCHANGED <<phase, attempt, found, cancelled, admitted>>

\* "data" is not an object: reported as a success, but the step has failed.
AnswersUnreadably(s) ==
    /\ at[s] = "sent"
    /\ Fails(s)

\* A 4xx status, or the timeout of the request: never retried.
ClientError(s) ==
    /\ at[s] = "sent"
    /\ Fails(s)

\* A timeout of zero taken for none.
NeverTimesOut(s) == FALSE

TimesOut(s) ==
    /\ at[s] = "sent"
    /\ Fails(s)

\* A 5xx status, a broken connection, a body that is not JSON: retried
\* while attempts are left.
FailsForNow(s) ==
    /\ at[s] = "sent"
    /\ IF attempt[s] < Retries[s]
       THEN /\ at' = [at EXCEPT ![s] = "backoff"]
            /\ attempt' = [attempt EXCEPT ![s] = @ + 1]
            /\ UNCHANGED <<phase, found, todo, cancelled, admitted, reported>>
            /\ UNCHANGED dataVars
       ELSE Fails(s)

BackoffEnds(s) ==
    /\ at[s] = "backoff"
    /\ at' = [at EXCEPT ![s] = "send"]
    /\ UNCHANGED <<phase, attempt, found, todo, cancelled, admitted, reported>>
    /\ UNCHANGED dataVars

BackoffCancelled(s) ==
    /\ at[s] = "backoff"
    /\ cancelled
    /\ Fails(s)

-----------------------------------------------------------------------------
(***************************************************************************)
(* Execute.                                                                *)
(***************************************************************************)

\* The first root to end suffices.
CollectEarly ==
    /\ phase = "roots"
    /\ \E r \in Roots : Over(r)
    /\ phase' = "deps"
    /\ UNCHANGED callVars
    /\ UNCHANGED dataVars
    /\ UNCHANGED <<found, cancelled>>

\* wg.Wait returns.
Collect ==
    /\ phase = "roots"
    /\ \A r \in Roots : Over(r)
    /\ phase' = "deps"
    /\ UNCHANGED callVars
    /\ UNCHANGED dataVars
    /\ UNCHANGED <<found, cancelled>>

\* The loop over the dependent steps: none is under way.  The plan lists
\* them by service, in the order of a Go map.
AtNextDep(s) ==
    /\ phase = "deps"
    /\ at[s] = "idle"
    /\ \A d \in Deps : at[d] = "idle" \/ Over(d)

\* The containers are looked for in the parent's data: objects at the merge
\* path, for a join those with a key.  Without any there is no call.
BeginDep(s) ==
    /\ AtNextDep(s)
    /\ Parent[s] \in answered
    /\ \E n \in 0..(IF filled[Parent[s]] = {} THEN 0 ELSE MaxContainers) :
          /\ found' = [found EXCEPT ![s] = 1..n]
          /\ todo' = [todo EXCEPT ![s] = 1..n]
          /\ at' = [at EXCEPT ![s] = IF n = 0 THEN "ended" ELSE "allow"]
    /\ UNCHANGED <<phase, attempt, cancelled, admitted, reported>>
    /\ UNCHANGED dataVars

\* The parent failed.
SkipDep(s) ==
    /\ AtNextDep(s)
    /\ Parent[s] \notin answered
    /\ at' = [at EXCEPT ![s] = "skipped"]
    /\ UNCHANGED <<phase, attempt, found, todo, cancelled, admitted, reported>>
    /\ UNCHANGED dataVars

Finish ==
    /\ phase = "deps"
    /\ \A s \in Deps : Over(s)
    /\ phase' = "done"
    /\ UNCHANGED callVars
    /\ UNCHANGED dataVars
    /\ UNCHANGED <<found, cancelled>>

\* The client goes away: net/http cancels the request's context.
ClientGone ==
    /\ phase # "done"
    /\ ~cancelled
    /\ cancelled' = TRUE
    /\ UNCHANGED <<phase, found>>
    /\ UNCHANGED callVars
    /\ UNCHANGED dataVars

Call(s) ==
    \/ Admitted(s) \/ Refused(s)
    \/ Send(s) \/ Cancelled(s)
    \/ Answers(s) \/ AnswersUnreadably(s) \/ ClientError(s) \/ TimesOut(s)
    \/ FailsForNow(s) \/ BackoffEnds(s) \/ BackoffCancelled(s)

Next ==
    \/ \E s \in Steps : Call(s)
    \/ Collect
    \/ \E s \in Deps : BeginDep(s) \/ SkipDep(s)
    \/ Finish
    \/ ClientGone

\* The goroutines run, timers fire; nothing is asked of an upstream or of
\* the client.
Fairness ==
    /\ \A s \in Steps :
          /\ WF_vars(Admitted(s) \/ Refused(s))
          /\ WF_vars(Send(s) \/ Cancelled(s))
          /\ WF_vars(TimesOut(s))
          /\ WF_vars(BackoffEnds(s))
    /\ WF_vars(Collect)
    /\ \A s \in Deps : WF_vars(BeginDep(s) \/ SkipDep(s))
    /\ WF_vars(Finish)

Spec == Init /\ [][Next]_vars
FairSpec == Spec /\ Fairness

-----------------------------------------------------------------------------
(***************************************************************************)
(* Properties.                                                             *)
(***************************************************************************)

\* Types of the variables.
TypeOK ==
    /\ phase \in {"roots", "deps", "done"}
    /\ at \in [Steps -> Places]
    /\ attempt \in [Steps -> Nat]
    /\ \A s \in Steps : attempt[s] <= Retries[s]
    /\ found \in [Steps -> SUBSET Containers]
    /\ todo \in [Steps -> SUBSET Containers]
    /\ filled \in [Steps -> SUBSET Containers]
    /\ blamed \in [Steps -> SUBSET Containers]
    /\ omitted \in [Steps -> SUBSET Containers]
    /\ answered \subseteq Roots
    /\ cancelled \in BOOLEAN
    /\ admitted \in [Steps -> Nat]
    /\ reported \in [Steps -> Nat]

\* The breaker hears exactly once of every call it admitted, whichever way
\* the call ended - answered, retried to the end, timed out, cancelled while
\* waiting or while backing off - and never of one it refused (callStep).
ReportsBalance ==
    \A s \in Steps :
        admitted[s] = reported[s] + (IF InCall(s) THEN 1 ELSE 0)

\* No gap in the result goes unexplained: every place a step was to fill is
\* filled, has an error, or was left out by an answer without one; one
\* failed call of a join costs only its own container; and what a skipped
\* step was to fill is accounted for by the error of its parent (Execute,
\* executeEntityStep, executeJoinStep).
GapsExplained ==
    /\ \A s \in Steps :
          at[s] = "ended" => found[s] = filled[s] \cup blamed[s] \cup omitted[s]
    /\ \A s \in Deps :
          at[s] = "skipped" => blamed[Parent[s]] # {}

\* The promise of PlanExecution: a dependent step runs when all roots are
\* over, alone, exactly if its parent was answered, and the response waits
\* for every step (Execute; DependsOn in planner/types.go:50).
Outcome(s) ==
    CASE at[s] = "idle" -> "pending"
      [] at[s] = "skipped" -> "skipped"
      [] at[s] = "ended" -> IF s \in Roots \ answered THEN "failed" ELSE "settled"
      [] OTHER -> "running"

Plan == INSTANCE PlanExecution
            WITH outcome <- [s \in Steps |-> Outcome(s)],
                 responded <- (phase = "done")

ImplementsPlan == Plan!Spec

\* Every request is answered, though upstreams may never answer: the timeout
\* that is used even when none is configured (callUpstream) and the bounded
\* retries see to it.
Ends == <>(phase = "done")
=============================================================================
