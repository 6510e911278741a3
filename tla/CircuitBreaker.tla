--------------------------- MODULE CircuitBreaker ---------------------------
(***************************************************************************)
(* The upstream health monitor of internal/health/monitor.go: one circuit  *)
(* per service, moved by two independent sources of evidence, the health   *)
(* loop's own probes and the outcome of the executor's calls.              *)
(*                                                                         *)
(* A check (checkOne) is two critical sections around an unlocked network  *)
(* probe.  What the first section learnt, whether the circuit was          *)
(* half-open, is used by the second one, by which time other checks and    *)
(* calls may have moved the circuit.  A probe is therefore one of two      *)
(* kinds: a "fresh" probe began while the circuit was closed, a "trial"    *)
(* probe while it was half-open.                                           *)
(*                                                                         *)
(* A name missing from the monitor's map behaves as a closed circuit with  *)
(* no failures (Allow returns true, getOrCreate creates exactly that), so  *)
(* the map is total here.  An entry is never deleted: a service removed    *)
(* and registered again finds the circuit it left.                         *)
(***************************************************************************)
EXTENDS Naturals

CONSTANTS
  Services,       (* names of upstream services                            *)
  FailThreshold,  (* Config.FailThreshold                                  *)
  MaxFailures,    (* bound: the failure counter saturates here; the code   *)
                  (* only ever compares it with FailThreshold              *)
  MaxChecks,      (* bound: checks of one service running at once          *)
  MaxCalls        (* bound: executor calls of one service running at once  *)

ASSUME BreakerAssumption ==
  /\ FailThreshold \in Nat \ {0}
  /\ MaxFailures \in Nat /\ MaxFailures >= FailThreshold
  /\ MaxChecks \in Nat \ {0}
  /\ MaxCalls \in Nat

VARIABLES
  loop,        (* the health loop: "new", "running", "stopped"             *)
  shortProbes, (* the configuration has CheckTimeout < RecoveryCooldown    *)
  registered,  (* the services HealthTargets returns                       *)
  up,          (* up[s]: s would answer a request now                      *)
  circuit,     (* serviceState.Circuit                                     *)
  cooled,      (* RecoveryCooldown has passed since openedAt               *)
  failures,    (* ConsecFailures                                           *)
  checks,      (* checkOne goroutines that have not yet taken the lock     *)
  fresh,       (* probes under way that began with a closed circuit        *)
  trial,       (* probes under way that began with a half-open circuit     *)
  calls,       (* executor calls under way                                 *)
  reloading,   (* services with a Reload goroutine running                 *)
  owed         (* history: opened since the last Reload was started        *)

env     == <<registered, up>>
breaker == <<circuit, cooled, failures>>
probes  == <<checks, fresh, trial>>
vars    == <<loop, shortProbes, env, breaker, probes, calls, reloading, owed>>

States == {"closed", "open", "half_open"}

TypeOK ==
  /\ loop \in {"new", "running", "stopped"}
  /\ shortProbes \in BOOLEAN
  /\ registered \subseteq Services
  /\ up \in [Services -> BOOLEAN]
  /\ circuit \in [Services -> States]
  /\ cooled \in [Services -> BOOLEAN]
  /\ failures \in [Services -> 0..MaxFailures]
  /\ checks \in [Services -> Nat]
  /\ fresh \in [Services -> Nat]
  /\ trial \in [Services -> Nat]
  /\ calls \in [Services -> Nat]
  /\ reloading \subseteq Services
  /\ owed \in [Services -> BOOLEAN]

Init ==
  /\ loop = "new"
  /\ shortProbes \in BOOLEAN
  /\ registered \in SUBSET Services
  /\ up \in [Services -> BOOLEAN]
  /\ circuit = [s \in Services |-> "closed"]
  /\ cooled = [s \in Services |-> FALSE]
  /\ failures = [s \in Services |-> 0]
  /\ checks = [s \in Services |-> 0]
  /\ fresh = [s \in Services |-> 0]
  /\ trial = [s \in Services |-> 0]
  /\ calls = [s \in Services |-> 0]
  /\ reloading = {}
  /\ owed = [s \in Services |-> FALSE]

-----------------------------------------------------------------------------
(* Helpers.                                                                *)

Increment(f, s) == [f EXCEPT ![s] = @ + 1]
Decrement(f, s) == [f EXCEPT ![s] = @ - 1]

OneMoreFailure(s) == IF failures[s] < MaxFailures THEN failures[s] + 1 ELSE MaxFailures

(* openCircuit; the recovery that must follow is owed a Reload.            *)
OpenCircuit(s) ==
  /\ circuit' = [circuit EXCEPT ![s] = "open"]
  /\ cooled' = [cooled EXCEPT ![s] = FALSE]
  /\ owed' = [owed EXCEPT ![s] = TRUE]

(* A threshold counted one failure early, and one failure late.            *)
ReachesThresholdEarly(s) == circuit[s] = "closed" /\ OneMoreFailure(s) + 1 >= FailThreshold

(* A closed circuit whose failures reach the threshold opens: the code     *)
(* compares with >=, where the comment of RecordFailure says "exceed".     *)
ReachesThreshold(s) == circuit[s] = "closed" /\ OneMoreFailure(s) >= FailThreshold

(* A failed trial probe that counts like any other failure.                *)
ReopensByCountOnly(s, wasHalfOpen) == ReachesThreshold(s)

(* A check that counts its failures and leaves the threshold to the calls. *)
ReopensTrialOnly(s, wasHalfOpen) == wasHalfOpen

(* A failed probe opens a closed circuit by count, and a failed trial      *)
(* probe opens it whatever the circuit has become meanwhile.               *)
Reopens(s, wasHalfOpen) == ReachesThreshold(s) \/ wasHalfOpen

(* wasOpen forgetting what the first critical section saw.                 *)
WasOpenNow(s, wasHalfOpen) == circuit[s] = "open"

(* wasOpen: the reload goes with what the probe saw when it began, or with *)
(* a circuit that is open when it ends.                                    *)
WasOpen(s, wasHalfOpen) == wasHalfOpen \/ circuit[s] = "open"

KeepCircuit == UNCHANGED <<circuit, cooled, owed>>

Allow(s) == circuit[s] = "closed"

-----------------------------------------------------------------------------
(* The environment: the registry's set of targets and the upstreams.       *)

Register(s) ==
  /\ s \notin registered
  /\ registered' = registered \union {s}
  /\ UNCHANGED <<loop, shortProbes, up, breaker, probes, calls, reloading, owed>>

Deregister(s) ==
  /\ s \in registered
  /\ registered' = registered \ {s}
  /\ UNCHANGED <<loop, shortProbes, up, breaker, probes, calls, reloading, owed>>

UpstreamChanges(s) ==
  /\ up' = [up EXCEPT ![s] = ~@]
  /\ UNCHANGED <<loop, shortProbes, registered, breaker, probes, calls, reloading, owed>>

(* RecoveryCooldown passes.  If a probe cannot last that long (its client  *)
(* gives up after CheckTimeout), the ones begun before the circuit opened  *)
(* have all ended by now; none begins while it is open.                    *)
CooldownPasses(s) ==
  /\ circuit[s] = "open" /\ ~cooled[s]
  /\ shortProbes => fresh[s] = 0 /\ trial[s] = 0
  /\ cooled' = [cooled EXCEPT ![s] = TRUE]
  /\ UNCHANGED <<loop, shortProbes, env, circuit, failures, probes, calls, reloading, owed>>

-----------------------------------------------------------------------------
(* The health loop.                                                        *)

Start ==
  /\ loop = "new"
  /\ loop' = "running"
  /\ UNCHANGED <<shortProbes, env, breaker, probes, calls, reloading, owed>>

Stop ==
  /\ loop = "running"
  /\ loop' = "stopped"
  /\ UNCHANGED <<shortProbes, env, breaker, probes, calls, reloading, owed>>

(* A round that leaves out the services it rejects calls to.               *)
CheckAllHealthy ==
  /\ loop = "running"
  /\ registered # {}
  /\ \A s \in registered : checks[s] + fresh[s] + trial[s] < MaxChecks
  /\ checks' = [s \in Services |-> IF s \in registered /\ Allow(s)
                                   THEN checks[s] + 1 ELSE checks[s]]
  /\ UNCHANGED <<loop, shortProbes, env, breaker, fresh, trial, calls, reloading, owed>>

(* One round: a goroutine for every target.                                *)
CheckAll ==
  /\ loop = "running"
  /\ registered # {}
  /\ \A s \in registered : checks[s] + fresh[s] + trial[s] < MaxChecks
  /\ checks' = [s \in Services |-> IF s \in registered THEN checks[s] + 1 ELSE checks[s]]
  /\ UNCHANGED <<loop, shortProbes, env, breaker, fresh, trial, calls, reloading, owed>>

(* checkOne up to the unlock before the probe, one action for each case of *)
(* its switch on the circuit.                                              *)
SkipCheck(s) ==
  /\ checks[s] > 0
  /\ circuit[s] = "open" /\ ~cooled[s]
  /\ checks' = Decrement(checks, s)
  /\ UNCHANGED <<loop, shortProbes, env, breaker, fresh, trial, calls, reloading, owed>>

BeginFreshProbe(s) ==
  /\ checks[s] > 0
  /\ circuit[s] = "closed"
  /\ checks' = Decrement(checks, s)
  /\ fresh' = Increment(fresh, s)
  /\ UNCHANGED <<loop, shortProbes, env, breaker, trial, calls, reloading, owed>>

BeginTrialProbe(s) ==
  /\ checks[s] > 0
  /\ circuit[s] = "half_open" \/ (circuit[s] = "open" /\ cooled[s])
  /\ checks' = Decrement(checks, s)
  /\ circuit' = [circuit EXCEPT ![s] = "half_open"]
  /\ trial' = Increment(trial, s)
  /\ UNCHANGED <<loop, shortProbes, env, cooled, failures, fresh, calls, reloading, owed>>

(* The second critical section of checkOne.                                *)
EndProbe(s, wasHalfOpen) ==
  IF wasHalfOpen
  THEN trial[s] > 0 /\ trial' = Decrement(trial, s) /\ UNCHANGED <<checks, fresh>>
  ELSE fresh[s] > 0 /\ fresh' = Decrement(fresh, s) /\ UNCHANGED <<checks, trial>>

(* The service did not answer, answered 5xx, or the loop's context, which  *)
(* the probe's request carries, was cancelled.                             *)
ProbeFails(s, wasHalfOpen) ==
  /\ ~up[s] \/ loop = "stopped"
  /\ EndProbe(s, wasHalfOpen)
  /\ failures' = [failures EXCEPT ![s] = OneMoreFailure(s)]
  /\ IF Reopens(s, wasHalfOpen) THEN OpenCircuit(s) ELSE KeepCircuit
  /\ UNCHANGED <<loop, shortProbes, env, calls, reloading>>

ProbeSucceeds(s, wasHalfOpen) ==
  /\ up[s]
  /\ EndProbe(s, wasHalfOpen)
  /\ failures' = [failures EXCEPT ![s] = 0]
  /\ circuit' = [circuit EXCEPT ![s] = "closed"]
  /\ IF WasOpen(s, wasHalfOpen)
     THEN /\ reloading' = reloading \union {s}
          /\ owed' = [owed EXCEPT ![s] = FALSE]
     ELSE UNCHANGED <<reloading, owed>>
  /\ UNCHANGED <<loop, shortProbes, env, cooled, calls>>

ProbeEnds(s, wasHalfOpen) == ProbeFails(s, wasHalfOpen) \/ ProbeSucceeds(s, wasHalfOpen)

(* The last Reload goroutine of s returns, whatever it found.              *)
ReloadEnds(s) ==
  /\ s \in reloading
  /\ reloading' = reloading \ {s}
  /\ UNCHANGED <<loop, shortProbes, env, breaker, probes, calls, owed>>

-----------------------------------------------------------------------------
(* The executor's calls (callStep).  Allow is asked once, before the first *)
(* attempt, and one outcome is recorded after the last; the circuit moves  *)
(* in between.                                                             *)

CallBegins(s) ==
  /\ Allow(s)
  /\ calls[s] < MaxCalls
  /\ calls' = Increment(calls, s)
  /\ UNCHANGED <<loop, shortProbes, env, breaker, probes, reloading, owed>>

(* RecordSuccess.                                                          *)
CallSucceeds(s) ==
  /\ up[s]
  /\ calls[s] > 0
  /\ calls' = Decrement(calls, s)
  /\ failures' = [failures EXCEPT ![s] = 0]
  /\ UNCHANGED <<loop, shortProbes, env, circuit, cooled, probes, reloading, owed>>

(* RecordFailure reporting one call for each of two attempts.              *)
CallFailsTwice(s) ==
  /\ calls[s] > 0
  /\ calls' = Decrement(Decrement(calls, s), s)
  /\ failures' = [failures EXCEPT ![s] = OneMoreFailure(s)]
  /\ IF ReachesThreshold(s) THEN OpenCircuit(s) ELSE KeepCircuit
  /\ UNCHANGED <<loop, shortProbes, env, probes, reloading>>

(* RecordFailure.  A service that is up fails a call too: a client that    *)
(* gives up and a 4xx answer are reported like an outage.                  *)
CallFails(s) ==
  /\ calls[s] > 0
  /\ calls' = Decrement(calls, s)
  /\ failures' = [failures EXCEPT ![s] = OneMoreFailure(s)]
  /\ IF ReachesThreshold(s) THEN OpenCircuit(s) ELSE KeepCircuit
  /\ UNCHANGED <<loop, shortProbes, env, probes, reloading>>

-----------------------------------------------------------------------------
Environment(s) == Register(s) \/ Deregister(s) \/ UpstreamChanges(s) \/ CooldownPasses(s)
BeginCheck(s)  == SkipCheck(s) \/ BeginFreshProbe(s) \/ BeginTrialProbe(s)
Executor(s)    == CallBegins(s) \/ CallSucceeds(s) \/ CallFails(s)

Next ==
  \/ Start \/ Stop \/ CheckAll
  \/ \E s \in Services :
       \/ Environment(s) \/ BeginCheck(s) \/ ReloadEnds(s) \/ Executor(s)
       \/ \E wasHalfOpen \in BOOLEAN : ProbeEnds(s, wasHalfOpen)

(* The ticker keeps ticking until the loop's context is cancelled, a ready *)
(* goroutine runs, time passes, and the client's CheckTimeout ends a probe *)
(* that hangs.  Nothing makes a service come back, a client ask, or the    *)
(* process start or stop the loop.                                         *)
Fairness ==
  /\ WF_vars(CheckAll)
  /\ \A s \in Services :
       /\ WF_vars(CooldownPasses(s))
       /\ WF_vars(BeginCheck(s))
       /\ \A wasHalfOpen \in BOOLEAN : WF_vars(ProbeEnds(s, wasHalfOpen))

Spec == Init /\ [][Next]_vars /\ Fairness

-----------------------------------------------------------------------------
(* Properties.                                                             *)

(* While a circuit is closed its service has failed fewer times in a row   *)
(* than the threshold, although failures are counted in every state, by    *)
(* checks and calls that began in another one: no service is left closed   *)
(* with a full counter, where the next outage would be noticed at once or  *)
(* never.  This is the threshold as the code has it (>= in RecordFailure   *)
(* and checkOne); by the comment of RecordFailure the circuit would stay   *)
(* closed at the threshold and open one failure later.                     *)
ClosedBelowThreshold == \A s \in Services : circuit[s] = "closed" => failures[s] < FailThreshold

(* A half-open circuit is always being probed by a check that will close   *)
(* it or open it again: it is never left rejecting calls with nobody       *)
(* looking, whichever of several overlapping checks ends first.            *)
HalfOpenIsProbed == \A s \in Services : circuit[s] = "half_open" => trial[s] > 0

(* A circuit that closed without a Reload (a probe begun before the outage *)
(* closed it while half-open) still has the trial probe under way that     *)
(* will start the Reload or open the circuit again: checkOne loses no      *)
(* recovery for good.                                                      *)
OwedReloadIsComing ==
  \A s \in Services : (circuit[s] = "closed" /\ owed[s]) => trial[s] > 0

Closes(s) == circuit[s] # "closed" /\ circuit'[s] = "closed"

(* Only a probe that was answered closes a circuit: the late success of a  *)
(* call admitted before the outage does not (RecordSuccess).               *)
ClosesOnlyOnProbe ==
  [][\A s \in Services : Closes(s) => up[s] /\ fresh'[s] + trial'[s] < fresh[s] + trial[s]]_vars

(* A closed circuit opens only on FailThreshold failures in a row or on    *)
(* the failure of a trial probe: a single failed call never cuts a service *)
(* off unless the threshold is one.                                        *)
OpensOnEvidence ==
  [][\A s \in Services : circuit[s] = "closed" /\ circuit'[s] = "open"
       => failures'[s] >= FailThreshold \/ trial'[s] < trial[s]]_vars

(* Reloader is called when a circuit closes again, as its comment says, in *)
(* a configuration whose probes end within the cooldown: no probe begun    *)
(* before the outage can then close a half-open circuit.                   *)
ReloadsWhenProbesAreShort ==
  [][shortProbes => \A s \in Services : Closes(s) => s \in reloading']_vars

(* A service that is registered and stays up is admitted again, however    *)
(* often calls to it fail meanwhile, while the health loop runs.           *)
Recovers ==
  \A s \in Services :
    <>[](up[s] /\ s \in registered /\ loop = "running") => []<>(circuit[s] = "closed")
=============================================================================
