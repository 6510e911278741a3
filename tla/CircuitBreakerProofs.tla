------------------------ MODULE CircuitBreakerProofs ------------------------
(***************************************************************************)
(* What CircuitBreaker guarantees for any services, threshold and bounds.  *)
(*                                                                         *)
(* The invariants are inductive together: that a half-open circuit is      *)
(* being probed (HalfOpenIsProbed) is what makes an unreloaded recovery    *)
(* temporary (OwedReloadIsComing), since the only step that closes a       *)
(* circuit without a Reload starts from a half-open one.  For the short    *)
(* configuration the strengthening is NoStaleProbe: once the cooldown has  *)
(* passed, no probe that began with a closed circuit is left.              *)
(***************************************************************************)
EXTENDS CircuitBreaker, TLAPS

NoStaleProbe ==
  shortProbes => \A s \in Services :
    circuit[s] = "half_open" \/ (circuit[s] = "open" /\ cooled[s]) => fresh[s] = 0

IInv ==
  /\ TypeOK
  /\ ClosedBelowThreshold
  /\ HalfOpenIsProbed
  /\ OwedReloadIsComing
  /\ NoStaleProbe

LEMMA InitIInv == Init => IInv
BY BreakerAssumption
   DEF Init, IInv, TypeOK, States, ClosedBelowThreshold, HalfOpenIsProbed,
       OwedReloadIsComing, NoStaleProbe

LEMMA OneMoreFailureType ==
  ASSUME TypeOK, NEW s \in Services
  PROVE  OneMoreFailure(s) \in 0..MaxFailures
BY BreakerAssumption DEF TypeOK, OneMoreFailure

(* Opening the circuit or keeping it as it is, whichever the evidence.     *)
LEMMA CircuitMoveType ==
  ASSUME TypeOK, NEW s \in Services, OpenCircuit(s) \/ KeepCircuit
  PROVE  /\ circuit' \in [Services -> States]
         /\ cooled' \in [Services -> BOOLEAN]
         /\ owed' \in [Services -> BOOLEAN]
<1>1. CASE OpenCircuit(s)
  BY <1>1 DEF TypeOK, OpenCircuit, States
<1>2. CASE KeepCircuit
  BY <1>2 DEF TypeOK, KeepCircuit
<1> QED BY <1>1, <1>2

(* The probe counters when one probe ends.                                 *)
LEMMA EndProbeType ==
  ASSUME TypeOK, NEW s \in Services, NEW w \in BOOLEAN, EndProbe(s, w)
  PROVE  /\ checks' \in [Services -> Nat]
         /\ fresh' \in [Services -> Nat]
         /\ trial' \in [Services -> Nat]
BY DEF TypeOK, EndProbe, Decrement

(* The types are preserved by every step.                                  *)
LEMMA NextTypeOK == ASSUME TypeOK, [Next]_vars PROVE TypeOK'
<1> USE BreakerAssumption DEF TypeOK, States
<1>1. CASE Start \/ Stop \/ CheckAll
  BY <1>1 DEF Start, Stop, CheckAll, env, breaker, probes
<1>2. ASSUME NEW s \in Services, Environment(s) PROVE TypeOK'
  BY <1>2 DEF Environment, Register, Deregister, UpstreamChanges, CooldownPasses,
              env, breaker, probes
<1>3. ASSUME NEW s \in Services, BeginCheck(s) PROVE TypeOK'
  BY <1>3 DEF BeginCheck, SkipCheck, BeginFreshProbe, BeginTrialProbe, Increment, Decrement,
              env, breaker
<1>4. ASSUME NEW s \in Services, NEW w \in BOOLEAN, ProbeEnds(s, w) PROVE TypeOK'
  <2>1. CASE ProbeFails(s, w)
    <3>1. OpenCircuit(s) \/ KeepCircuit
      BY <2>1 DEF ProbeFails
    <3>2. EndProbe(s, w)
      BY <2>1 DEF ProbeFails
    <3> QED BY <2>1, <3>1, <3>2, OneMoreFailureType, CircuitMoveType, EndProbeType
            DEF ProbeFails, env
  <2>2. CASE ProbeSucceeds(s, w)
    <3>1. EndProbe(s, w)
      BY <2>2 DEF ProbeSucceeds
    <3>2. owed' \in [Services -> BOOLEAN] /\ reloading' \subseteq Services
      BY <2>2 DEF ProbeSucceeds
    <3>3. failures' \in [Services -> 0..MaxFailures] /\ circuit' \in [Services -> States]
      BY <2>2 DEF ProbeSucceeds
    <3>4. UNCHANGED <<loop, shortProbes, registered, up, cooled, calls>>
      BY <2>2 DEF ProbeSucceeds, env
    <3>5. /\ checks' \in [Services -> Nat]
          /\ fresh' \in [Services -> Nat]
          /\ trial' \in [Services -> Nat]
      BY <3>1, EndProbeType
    <3> QED BY <3>2, <3>3, <3>4, <3>5
  <2> QED BY <1>4, <2>1, <2>2 DEF ProbeEnds
<1>5. ASSUME NEW s \in Services, ReloadEnds(s) PROVE TypeOK'
  BY <1>5 DEF ReloadEnds, env, breaker, probes
<1>6. ASSUME NEW s \in Services, Executor(s) PROVE TypeOK'
  <2>1. CASE CallBegins(s)
    BY <2>1 DEF CallBegins, Increment, env, breaker, probes
  <2>2. CASE CallSucceeds(s)
    BY <2>2 DEF CallSucceeds, Decrement, env, probes
  <2>3. CASE CallFails(s)
    <3>1. OpenCircuit(s) \/ KeepCircuit
      BY <2>3 DEF CallFails
    <3> QED BY <2>3, <3>1, OneMoreFailureType, CircuitMoveType DEF CallFails, Decrement, env, probes
  <2> QED BY <1>6, <2>1, <2>2, <2>3 DEF Executor
<1>7. CASE UNCHANGED vars
  BY <1>7 DEF vars, env, breaker, probes
<1> QED BY <1>1, <1>2, <1>3, <1>4, <1>5, <1>6, <1>7 DEF Next

-----------------------------------------------------------------------------
(* The service a step is about is the only one whose circuit it moves: the *)
(* other services, and the flags no step writes, keep their state.         *)

LEMMA NextIInv == ASSUME IInv, [Next]_vars PROVE IInv'
<1>0. TypeOK /\ TypeOK'
  BY NextTypeOK DEF IInv
<1> DEFINE Safe == ClosedBelowThreshold /\ HalfOpenIsProbed /\ OwedReloadIsComing /\ NoStaleProbe
<1> SUFFICES Safe'
  BY <1>0 DEF IInv
<1> USE DEF IInv, ClosedBelowThreshold, HalfOpenIsProbed, OwedReloadIsComing, NoStaleProbe
<1>1. CASE Start \/ Stop \/ CheckAll
  BY <1>1 DEF Start, Stop, CheckAll, env, breaker, probes
<1>2. ASSUME NEW s \in Services, Environment(s) PROVE Safe'
  <2>1. CASE CooldownPasses(s)
    BY <1>0, <2>1 DEF CooldownPasses, env, probes, TypeOK
  <2>2. CASE Register(s) \/ Deregister(s) \/ UpstreamChanges(s)
    BY <2>2 DEF Register, Deregister, UpstreamChanges, breaker, probes
  <2> QED BY <1>2, <2>1, <2>2 DEF Environment
<1>3. ASSUME NEW s \in Services, BeginCheck(s) PROVE Safe'
  <2>1. CASE SkipCheck(s)
    BY <2>1 DEF SkipCheck, env, breaker
  <2>2. CASE BeginFreshProbe(s)
    BY <1>0, <2>2 DEF BeginFreshProbe, Increment, Decrement, env, breaker, TypeOK
  <2>3. CASE BeginTrialProbe(s)
    BY <1>0, <2>3 DEF BeginTrialProbe, Increment, Decrement, env, TypeOK, States
  <2> QED BY <1>3, <2>1, <2>2, <2>3 DEF BeginCheck
<1>4. ASSUME NEW s \in Services, NEW w \in BOOLEAN, ProbeEnds(s, w) PROVE Safe'
  <2>1. CASE ProbeFails(s, w)
    <3>1. CASE Reopens(s, w)
      BY <1>0, <2>1, <3>1
         DEF ProbeFails, EndProbe, Decrement, OneMoreFailure, OpenCircuit, env, TypeOK
    <3>2. CASE ~Reopens(s, w)
      BY <1>0, <2>1, <3>2, OneMoreFailureType, BreakerAssumption
         DEF ProbeFails, EndProbe, Decrement, OneMoreFailure, KeepCircuit, Reopens,
             ReachesThreshold, env, TypeOK
    <3> QED BY <3>1, <3>2
  <2>2. CASE ProbeSucceeds(s, w)
    BY <1>0, <2>2, BreakerAssumption
       DEF ProbeSucceeds, EndProbe, Decrement, WasOpen, env, TypeOK, States
  <2> QED BY <1>4, <2>1, <2>2 DEF ProbeEnds
<1>5. ASSUME NEW s \in Services, ReloadEnds(s) PROVE Safe'
  BY <1>5 DEF ReloadEnds, env, breaker, probes
<1>6. ASSUME NEW s \in Services, Executor(s) PROVE Safe'
  <2>1. CASE CallBegins(s)
    BY <2>1 DEF CallBegins, env, breaker, probes
  <2>2. CASE CallSucceeds(s)
    BY <1>0, <2>2, BreakerAssumption DEF CallSucceeds, env, probes, TypeOK
  <2>3. CASE CallFails(s)
    <3>1. CASE ReachesThreshold(s)
      BY <1>0, <2>3, <3>1
         DEF CallFails, OneMoreFailure, OpenCircuit, env, probes, TypeOK
    <3>2. CASE ~ReachesThreshold(s)
      BY <1>0, <2>3, <3>2, OneMoreFailureType, BreakerAssumption
         DEF CallFails, OneMoreFailure, KeepCircuit, ReachesThreshold, env, probes, TypeOK
    <3> QED BY <3>1, <3>2
  <2> QED BY <1>6, <2>1, <2>2, <2>3 DEF Executor
<1>7. CASE UNCHANGED vars
  BY <1>7 DEF vars, env, breaker, probes
<1> QED BY <1>1, <1>2, <1>3, <1>4, <1>5, <1>6, <1>7 DEF Next

THEOREM Inductive == Spec => []IInv
BY InitIInv, NextIInv, PTL DEF Spec

-----------------------------------------------------------------------------
(* TypeOK holds of every behaviour of the monitor.                         *)
THEOREM TypeCorrect == Spec => []TypeOK
<1>1. IInv => TypeOK
  BY DEF IInv
<1> QED BY <1>1, Inductive, PTL

(* A closed circuit has fewer failures in a row than the threshold,        *)
(* whichever probes and calls of an earlier state report late.             *)
THEOREM ClosedBelow == Spec => []ClosedBelowThreshold
<1>1. IInv => ClosedBelowThreshold
  BY DEF IInv
<1> QED BY <1>1, Inductive, PTL

(* A half-open circuit always has the probe that will decide it.           *)
THEOREM HalfOpenProbed == Spec => []HalfOpenIsProbed
<1>1. IInv => HalfOpenIsProbed
  BY DEF IInv
<1> QED BY <1>1, Inductive, PTL

(* A recovery that started no Reload has a trial probe under way.          *)
THEOREM OwedReload == Spec => []OwedReloadIsComing
<1>1. IInv => OwedReloadIsComing
  BY DEF IInv
<1> QED BY <1>1, Inductive, PTL

-----------------------------------------------------------------------------
(* Action properties.                                                      *)

(* The only step that closes the circuit of s is a probe of s answered.    *)
LEMMA ClosingStep ==
  ASSUME TypeOK, [Next]_vars, NEW s \in Services, Closes(s)
  PROVE  \E w \in BOOLEAN : ProbeSucceeds(s, w)
<1> USE DEF TypeOK, Closes
<1>1. CASE Start \/ Stop \/ CheckAll
  BY <1>1 DEF Start, Stop, CheckAll, breaker
<1>2. ASSUME NEW r \in Services, Environment(r) PROVE FALSE
  BY <1>2 DEF Environment, Register, Deregister, UpstreamChanges, CooldownPasses, breaker
<1>3. ASSUME NEW r \in Services, BeginCheck(r) PROVE FALSE
  BY <1>3 DEF BeginCheck, SkipCheck, BeginFreshProbe, BeginTrialProbe, breaker
<1>4. ASSUME NEW r \in Services, NEW w \in BOOLEAN, ProbeEnds(r, w) PROVE ProbeSucceeds(s, w)
  <2>1. CASE ProbeFails(r, w)
    BY <2>1 DEF ProbeFails, OpenCircuit, KeepCircuit
  <2>2. CASE ProbeSucceeds(r, w)
    BY <2>2 DEF ProbeSucceeds
  <2> QED BY <1>4, <2>1, <2>2 DEF ProbeEnds
<1>5. ASSUME NEW r \in Services, ReloadEnds(r) PROVE FALSE
  BY <1>5 DEF ReloadEnds, breaker
<1>6. ASSUME NEW r \in Services, Executor(r) PROVE FALSE
  BY <1>6 DEF Executor, CallBegins, CallSucceeds, CallFails, OpenCircuit, KeepCircuit, breaker
<1>7. CASE UNCHANGED vars
  BY <1>7 DEF vars, breaker
<1> QED BY <1>1, <1>2, <1>3, <1>4, <1>5, <1>6, <1>7 DEF Next

(* A circuit closes only because a probe of its service was answered.      *)
THEOREM ClosingNeedsProbe == Spec => ClosesOnlyOnProbe
<1>1. ASSUME IInv, [Next]_vars, NEW s \in Services, Closes(s)
      PROVE  up[s] /\ fresh'[s] + trial'[s] < fresh[s] + trial[s]
  <2>1. PICK w \in BOOLEAN : ProbeSucceeds(s, w)
    BY <1>1, ClosingStep DEF IInv
  <2> QED BY <1>1, <2>1 DEF ProbeSucceeds, EndProbe, Decrement, IInv, TypeOK
<1>2. IInv /\ [Next]_vars =>
        [\A s \in Services : Closes(s) => up[s] /\ fresh'[s] + trial'[s] < fresh[s] + trial[s]]_vars
  BY <1>1
<1> QED BY <1>2, Inductive, PTL DEF Spec, ClosesOnlyOnProbe

(* When probes end within the cooldown every recovery starts its Reload:   *)
(* the step that closes the circuit cannot find it half-open without       *)
(* having been the half-open probe itself.                                 *)
THEOREM ShortProbesReload == Spec => ReloadsWhenProbesAreShort
<1>1. ASSUME IInv, [Next]_vars, shortProbes, NEW s \in Services, Closes(s)
      PROVE  s \in reloading'
  <2>1. PICK w \in BOOLEAN : ProbeSucceeds(s, w)
    BY <1>1, ClosingStep DEF IInv
  <2>2. WasOpen(s, w)
    BY <1>1, <2>1 DEF ProbeSucceeds, EndProbe, WasOpen, Closes, IInv, TypeOK, States, NoStaleProbe
  <2> QED BY <2>1, <2>2 DEF ProbeSucceeds
<1>2. IInv /\ [Next]_vars =>
        [shortProbes => \A s \in Services : Closes(s) => s \in reloading']_vars
  BY <1>1
<1> QED BY <1>2, Inductive, PTL DEF Spec, ReloadsWhenProbesAreShort

(* A closed circuit opens only at the threshold or by a failed trial.      *)
THEOREM OpeningNeedsEvidence == Spec => OpensOnEvidence
<1> DEFINE Opens(s) == circuit[s] = "closed" /\ circuit'[s] = "open"
           Evidence(s) == failures'[s] >= FailThreshold \/ trial'[s] < trial[s]
<1>1. ASSUME IInv, [Next]_vars, NEW s \in Services, Opens(s) PROVE Evidence(s)
  <2> USE <1>1 DEF IInv, TypeOK
  <2>1. CASE Start \/ Stop \/ CheckAll
    BY <2>1 DEF Start, Stop, CheckAll, breaker
  <2>2. ASSUME NEW r \in Services, Environment(r) PROVE Evidence(s)
    BY <2>2 DEF Environment, Register, Deregister, UpstreamChanges, CooldownPasses, breaker
  <2>3. ASSUME NEW r \in Services, BeginCheck(r) PROVE Evidence(s)
    BY <2>3 DEF BeginCheck, SkipCheck, BeginFreshProbe, BeginTrialProbe, breaker
  <2>4. ASSUME NEW r \in Services, NEW w \in BOOLEAN, ProbeEnds(r, w) PROVE Evidence(s)
    <3>1. CASE ProbeFails(r, w)
      <4>1. s = r /\ Reopens(r, w)
        BY <3>1 DEF ProbeFails, OpenCircuit, KeepCircuit
      <4>2. CASE ReachesThreshold(s)
        BY <3>1, <4>1, <4>2 DEF ProbeFails, ReachesThreshold
      <4>3. CASE w
        BY <3>1, <4>1, <4>3 DEF ProbeFails, EndProbe, Decrement
      <4> QED BY <4>1, <4>2, <4>3 DEF Reopens
    <3>2. CASE ProbeSucceeds(r, w)
      BY <3>2 DEF ProbeSucceeds
    <3> QED BY <2>4, <3>1, <3>2 DEF ProbeEnds
  <2>5. ASSUME NEW r \in Services, ReloadEnds(r) PROVE Evidence(s)
    BY <2>5 DEF ReloadEnds, breaker
  <2>6. ASSUME NEW r \in Services, Executor(r) PROVE Evidence(s)
    <3>1. CASE CallFails(r)
      BY <3>1 DEF CallFails, OpenCircuit, KeepCircuit, ReachesThreshold
    <3>2. CASE CallBegins(r) \/ CallSucceeds(r)
      BY <3>2 DEF CallBegins, CallSucceeds, breaker
    <3> QED BY <2>6, <3>1, <3>2 DEF Executor
  <2>7. CASE UNCHANGED vars
    BY <2>7 DEF vars, breaker
  <2> QED BY <2>1, <2>2, <2>3, <2>4, <2>5, <2>6, <2>7 DEF Next
<1>2. IInv /\ [Next]_vars => [\A s \in Services : Opens(s) => Evidence(s)]_vars
  BY <1>1
<1> QED BY <1>2, Inductive, PTL DEF Spec, OpensOnEvidence
=============================================================================
