--------------------------- MODULE ExecutorProofs ---------------------------
(***************************************************************************)
(* What holds of one request's execution for any plan and any number of    *)
(* retries and containers: the breaker hears once of every admitted call,  *)
(* and no gap in the result goes unexplained.  Explained extends the       *)
(* latter to steps under way: what is not yet settled is still to do.      *)
(***************************************************************************)
EXTENDS Executor, TLAPS

(* Each container of a step is settled or still to do; a root that failed  *)
(* has an error; dependent steps wait for the roots.                       *)
Explained ==
  /\ \A s \in Steps :
       /\ at[s] \notin {"idle", "skipped"} =>
            found[s] = filled[s] \cup blamed[s] \cup omitted[s] \cup todo[s]
       /\ at[s] = "ended" => todo[s] = {}
       /\ at[s] = "idle" => filled[s] = {} /\ blamed[s] = {} /\ omitted[s] = {}
  /\ \A r \in Roots :
       /\ at[r] \notin {"idle", "skipped"}
       /\ ~Over(r) => todo[r] # {}
       /\ at[r] = "ended" /\ r \notin answered => blamed[r] # {}
  /\ phase # "roots" => \A r \in Roots : Over(r)
  /\ \A s \in Deps : at[s] = "skipped" => blamed[Parent[s]] # {}

Inv == TypeOK /\ ReportsBalance /\ Explained

-----------------------------------------------------------------------------
(* Roots are about to call, nothing is settled.                            *)
LEMMA InitInv == Init => Inv
<1> SUFFICES ASSUME Init PROVE Inv OBVIOUS
<1>0. 1 \in Containers BY ExecutorAssumption DEF Containers
<1>1. TypeOK
  <2>1. at \in [Steps -> Places] BY DEF Init, Places
  <2>2. attempt \in [Steps -> Nat] /\ \A s \in Steps : attempt[s] <= Retries[s]
    BY ExecutorAssumption DEF Init
  <2>3. found \in [Steps -> SUBSET Containers] /\ todo \in [Steps -> SUBSET Containers]
    BY <1>0 DEF Init
  <2>4. /\ filled \in [Steps -> SUBSET Containers] /\ blamed \in [Steps -> SUBSET Containers]
        /\ omitted \in [Steps -> SUBSET Containers]
    BY DEF Init
  <2>5. admitted \in [Steps -> Nat] /\ reported \in [Steps -> Nat] BY DEF Init
  <2>q. QED BY <2>1, <2>2, <2>3, <2>4, <2>5 DEF Init, TypeOK
<1>2. ReportsBalance BY DEF Init, ReportsBalance, InCall
<1>3. Explained BY ExecutorAssumption DEF Init, Explained, Over, Steps, Deps
<1>q. QED BY <1>1, <1>2, <1>3 DEF Inv

(* The call under way is for some of what is still to do; a root's is for  *)
(* all of it.                                                              *)
LEMMA BatchType ==
  ASSUME TypeOK, NEW s \in Steps
  PROVE  Batch(s) \subseteq todo[s] /\ (s \in Roots => Batch(s) = todo[s])
BY ExecutorAssumption DEF Batch, Deps

(* A call that ends: its containers are settled one way or another, and    *)
(* the breaker is told of it if it was let through.                        *)
LEMMA EndOfCall ==
  ASSUME Inv, NEW s \in Steps, NEW f \in SUBSET Batch(s), NEW b \in SUBSET Batch(s),
         NEW o \in SUBSET Batch(s), f \cup b \cup o = Batch(s),
         at[s] \in {"allow", "send", "sent", "backoff"}, MoveOn(s),
         filled' = [filled EXCEPT ![s] = @ \cup f],
         blamed' = [blamed EXCEPT ![s] = @ \cup b],
         omitted' = [omitted EXCEPT ![s] = @ \cup o],
         s \in Roots => (s \in answered' \/ b = Batch(s)),
         answered \subseteq answered', answered' \subseteq Roots,
         \A r \in Roots \ {s} : r \in answered' <=> r \in answered,
         reported' = IF InCall(s) THEN [reported EXCEPT ![s] = @ + 1] ELSE reported,
         UNCHANGED <<phase, attempt, found, cancelled, admitted>>
  PROVE  Inv'
<1>0. TypeOK /\ ReportsBalance /\ Explained BY DEF Inv
<1>1. Batch(s) \subseteq todo[s] /\ (s \in Roots => Batch(s) = todo[s])
  BY <1>0, BatchType
<1>2. PICK place \in {"ended", "allow"} :
        /\ at' = [at EXCEPT ![s] = place]
        /\ place = "ended" <=> todo[s] = Batch(s)
  BY DEF MoveOn
<1>3. todo' = [todo EXCEPT ![s] = @ \ Batch(s)] BY DEF MoveOn
<1>4. Batch(s) \subseteq Containers BY <1>0, <1>1 DEF TypeOK
<1>5. TypeOK'
  <2>1. at' \in [Steps -> Places] BY <1>0, <1>2 DEF TypeOK, Places
  <2>2. todo' \in [Steps -> SUBSET Containers] BY <1>0, <1>3 DEF TypeOK
  <2>3. /\ filled' \in [Steps -> SUBSET Containers] /\ blamed' \in [Steps -> SUBSET Containers]
        /\ omitted' \in [Steps -> SUBSET Containers]
    BY <1>0, <1>4 DEF TypeOK
  <2>4. reported' \in [Steps -> Nat] BY <1>0 DEF TypeOK
  <2>q. QED BY <1>0, <2>1, <2>2, <2>3, <2>4 DEF TypeOK
<1>6. ReportsBalance'
  <2>1. ASSUME NEW x \in Steps
        PROVE  admitted'[x] = reported'[x] + (IF InCall(x)' THEN 1 ELSE 0)
    <3>1. CASE x = s
      <4>1. ~InCall(s)' BY <1>0, <1>2 DEF InCall, TypeOK
      <4>q. QED BY <1>0, <3>1, <4>1 DEF ReportsBalance, TypeOK
    <3>2. CASE x # s
      <4>1. InCall(x)' = InCall(x) /\ reported'[x] = reported[x]
        BY <1>0, <1>2, <3>2 DEF InCall, TypeOK
      <4>q. QED BY <1>0, <4>1 DEF ReportsBalance
    <3>q. QED BY <3>1, <3>2
  <2>q. QED BY <2>1 DEF ReportsBalance
<1>7. Explained'
  <2>0. /\ at'[s] = place /\ \A x \in Steps \ {s} : at'[x] = at[x]
        /\ todo'[s] = todo[s] \ Batch(s) /\ \A x \in Steps \ {s} : todo'[x] = todo[x]
        /\ filled'[s] = filled[s] \cup f /\ blamed'[s] = blamed[s] \cup b
        /\ omitted'[s] = omitted[s] \cup o
        /\ \A x \in Steps \ {s} : /\ filled'[x] = filled[x] /\ blamed'[x] = blamed[x]
                                  /\ omitted'[x] = omitted[x]
    BY <1>0, <1>2, <1>3 DEF TypeOK
  <2>1. \A x \in Steps :
          /\ at'[x] \notin {"idle", "skipped"} =>
               found'[x] = filled'[x] \cup blamed'[x] \cup omitted'[x] \cup todo'[x]
          /\ at'[x] = "ended" => todo'[x] = {}
          /\ at'[x] = "idle" => filled'[x] = {} /\ blamed'[x] = {} /\ omitted'[x] = {}
    <3>1. found[s] = filled[s] \cup blamed[s] \cup omitted[s] \cup todo[s]
      BY <1>0 DEF Explained
    <3>q. QED BY <1>0, <1>1, <1>2, <2>0, <3>1 DEF Explained
  <2>2. \A r \in Roots :
          /\ at'[r] \notin {"idle", "skipped"}
          /\ ~Over(r)' => todo'[r] # {}
          /\ at'[r] = "ended" /\ r \notin answered' => blamed'[r] # {}
    <3>1. ASSUME NEW r \in Roots, r # s
          PROVE  /\ at'[r] \notin {"idle", "skipped"} /\ (~Over(r)' => todo'[r] # {})
                 /\ (at'[r] = "ended" /\ r \notin answered' => blamed'[r] # {})
      BY <1>0, <2>0, <3>1 DEF Explained, Over, Steps
    <3>2. ASSUME s \in Roots
          PROVE  /\ at'[s] \notin {"idle", "skipped"} /\ (~Over(s)' => todo'[s] # {})
                 /\ (at'[s] = "ended" /\ s \notin answered' => blamed'[s] # {})
      <4>1. todo[s] # {} /\ Batch(s) = todo[s]
        BY <1>0, <1>1, <3>2 DEF Explained, Over
      <4>2. place = "ended" BY <1>2, <4>1
      <4>q. QED BY <2>0, <3>2, <4>1, <4>2 DEF Over
    <3>q. QED BY <3>1, <3>2
  <2>3. phase' # "roots" => \A r \in Roots : Over(r)'
    BY <1>0, <2>0 DEF Explained, Over, Steps
  <2>4. \A x \in Deps : at'[x] = "skipped" => blamed'[Parent[x]] # {}
    <3>1. ASSUME NEW x \in Deps, at'[x] = "skipped" PROVE blamed'[Parent[x]] # {}
      <4>1. x # s /\ at[x] = "skipped" BY <2>0, <1>2, <3>1 DEF Steps
      <4>2. blamed[Parent[x]] # {} BY <1>0, <4>1 DEF Explained
      <4>3. Parent[x] \in Steps BY ExecutorAssumption DEF Steps
      <4>q. QED BY <2>0, <4>2, <4>3
    <3>q. QED BY <3>1
  <2>q. QED BY <2>1, <2>2, <2>3, <2>4 DEF Explained
<1>q. QED BY <1>5, <1>6, <1>7 DEF Inv

(* A call that comes to nothing blames all it was for.                     *)
LEMMA BlamedInv ==
  ASSUME Inv, NEW s \in Steps, MoveOn(s), Blame(s),
         at[s] \in {"allow", "send", "sent", "backoff"},
         reported' = IF InCall(s) THEN [reported EXCEPT ![s] = @ + 1] ELSE reported,
         UNCHANGED <<phase, attempt, found, cancelled, admitted>>
  PROVE  Inv'
<1> DEFINE none == {}
<1>1. none \in SUBSET Batch(s) /\ Batch(s) \in SUBSET Batch(s)
      /\ none \cup Batch(s) \cup none = Batch(s)
  OBVIOUS
<1>2. filled' = [filled EXCEPT ![s] = @ \cup none] /\ omitted' = [omitted EXCEPT ![s] = @ \cup none]
  BY DEF Blame, Inv, TypeOK
<1>3. blamed' = [blamed EXCEPT ![s] = @ \cup Batch(s)] BY DEF Blame
<1>4. answered' = answered /\ answered \subseteq Roots BY DEF Blame, Inv, TypeOK
<1>5. /\ answered \subseteq answered' /\ answered' \subseteq Roots
      /\ s \in Roots => (s \in answered' \/ Batch(s) = Batch(s))
      /\ \A r \in Roots \ {s} : r \in answered' <=> r \in answered
  BY <1>4
<1> HIDE DEF none
<1>q. QED BY <1>1, <1>2, <1>3, <1>5, EndOfCall

(* callUpstream's error is reported, Allow's is not.                       *)
LEMMA FailsInv ==
  ASSUME Inv, NEW s \in Steps, Fails(s), InCall(s)
  PROVE  Inv'
<1>1. at[s] \in {"allow", "send", "sent", "backoff"} BY DEF InCall
<1>2. reported' = IF InCall(s) THEN [reported EXCEPT ![s] = @ + 1] ELSE reported
  BY DEF Fails, Report
<1>q. QED BY <1>1, <1>2, BlamedInv DEF Fails

(* A refused call.                                                         *)
LEMMA RefusedInv ==
  ASSUME Inv, NEW s \in Steps, Refused(s)
  PROVE  Inv'
<1>1. at[s] \in {"allow", "send", "sent", "backoff"} BY DEF Refused
<1>2. reported' = IF InCall(s) THEN [reported EXCEPT ![s] = @ + 1] ELSE reported
  BY DEF Refused, InCall
<1>q. QED BY <1>1, <1>2, BlamedInv DEF Refused

(* An answer gives data, errors, or neither, for each container.           *)
LEMMA AnswersInv ==
  ASSUME Inv, NEW s \in Steps, Answers(s)
  PROVE  Inv'
<1>1. PICK given \in SUBSET Batch(s), errors \in BOOLEAN :
        /\ filled' = [filled EXCEPT ![s] = @ \cup given]
        /\ blamed' = [blamed EXCEPT ![s] = IF errors THEN @ \cup Batch(s) ELSE @]
        /\ omitted' = [omitted EXCEPT ![s] = IF errors THEN @ ELSE @ \cup (Batch(s) \ given)]
  BY DEF Answers
<1> DEFINE b == IF errors THEN Batch(s) ELSE {}
           o == IF errors THEN {} ELSE Batch(s) \ given
<1>2. blamed' = [blamed EXCEPT ![s] = @ \cup b] /\ omitted' = [omitted EXCEPT ![s] = @ \cup o]
  BY <1>1 DEF Inv, TypeOK
<1>3. b \in SUBSET Batch(s) /\ o \in SUBSET Batch(s) /\ given \cup b \cup o = Batch(s)
  OBVIOUS
<1>4. at[s] \in {"allow", "send", "sent", "backoff"} /\ InCall(s) BY DEF Answers, InCall
<1>5. /\ answered \subseteq answered' /\ answered' \subseteq Roots
      /\ s \in Roots => s \in answered'
      /\ \A r \in Roots \ {s} : r \in answered' <=> r \in answered
  BY DEF Answers, Inv, TypeOK
<1> HIDE DEF b, o
<1>q. QED BY <1>1, <1>2, <1>3, <1>4, <1>5, EndOfCall DEF Answers, Report

(* A step of a call that ends nothing.                                     *)
LEMMA QuietInv ==
  ASSUME Inv, NEW s \in Steps, NEW place \in {"send", "sent", "backoff"}, InCall(s),
         at' = [at EXCEPT ![s] = place],
         attempt' \in [Steps -> Nat], \A x \in Steps : attempt'[x] <= Retries[x],
         UNCHANGED <<phase, found, todo, filled, blamed, omitted, answered, cancelled,
                     admitted, reported>>
  PROVE  Inv'
<1>0. TypeOK /\ ReportsBalance /\ Explained BY DEF Inv
<1>1. at'[s] = place /\ \A x \in Steps \ {s} : at'[x] = at[x] BY <1>0 DEF TypeOK
<1>2. TypeOK'
  <2>1. at' \in [Steps -> Places] BY <1>0 DEF TypeOK, Places
  <2>q. QED BY <1>0, <2>1 DEF TypeOK
<1>3. ReportsBalance'
  <2>1. \A x \in Steps : InCall(x)' = InCall(x) BY <1>1 DEF InCall
  <2>q. QED BY <1>0, <2>1 DEF ReportsBalance
<1>4. Explained'
  BY <1>0, <1>1 DEF Explained, Over, InCall, Steps
<1>q. QED BY <1>2, <1>3, <1>4 DEF Inv

(* Every move of a call keeps the invariant.                               *)
LEMMA CallInv ==
  ASSUME Inv, NEW s \in Steps, Call(s)
  PROVE  Inv'
<1>0. TypeOK /\ ReportsBalance /\ Explained BY DEF Inv
<1>1. CASE Admitted(s)
  <2>0. at'[s] = "send" /\ at[s] = "allow" /\ \A x \in Steps \ {s} : at'[x] = at[x]
    BY <1>0, <1>1 DEF Admitted, TypeOK
  <2>1. TypeOK'
    <3>1. at' \in [Steps -> Places] BY <1>0, <1>1 DEF Admitted, TypeOK, Places
    <3>2. attempt' \in [Steps -> Nat] /\ \A x \in Steps : attempt'[x] <= Retries[x]
      <4>1. attempt' = [attempt EXCEPT ![s] = 0] BY <1>1 DEF Admitted
      <4>2. \A x \in Steps : attempt'[x] = IF x = s THEN 0 ELSE attempt[x]
        BY <1>0, <4>1 DEF TypeOK
      <4>3. \A x \in Steps : Retries[x] \in Nat BY ExecutorAssumption
      <4>q. QED BY <1>0, <4>1, <4>2, <4>3 DEF TypeOK
    <3>3. admitted' \in [Steps -> Nat] BY <1>0, <1>1 DEF Admitted, TypeOK
    <3>q. QED BY <1>0, <1>1, <3>1, <3>2, <3>3 DEF Admitted, TypeOK, dataVars
  <2>2. ReportsBalance'
    <3>1. ASSUME NEW x \in Steps
          PROVE  admitted'[x] = reported'[x] + (IF InCall(x)' THEN 1 ELSE 0)
      <4>1. CASE x = s
        <5>1. InCall(x)' /\ ~InCall(x) BY <2>0, <4>1 DEF InCall
        <5>2. admitted'[x] = admitted[x] + 1 /\ reported'[x] = reported[x]
          BY <1>0, <1>1, <4>1 DEF Admitted, TypeOK
        <5>q. QED BY <1>0, <5>1, <5>2 DEF ReportsBalance, TypeOK
      <4>2. CASE x # s
        <5>1. InCall(x)' = InCall(x) BY <2>0, <4>2 DEF InCall
        <5>2. admitted'[x] = admitted[x] /\ reported'[x] = reported[x]
          BY <1>0, <1>1, <4>2 DEF Admitted, TypeOK
        <5>q. QED BY <1>0, <5>1, <5>2 DEF ReportsBalance
      <4>q. QED BY <4>1, <4>2
    <3>q. QED BY <3>1 DEF ReportsBalance
  <2>3. Explained'
    BY <1>0, <1>1, <2>0 DEF Explained, Over, Steps, Admitted, dataVars
  <2>q. QED BY <2>1, <2>2, <2>3 DEF Inv
<1>2. CASE Refused(s) BY <1>2, RefusedInv
<1>3. CASE Send(s)
  <2>1. /\ attempt' \in [Steps -> Nat] /\ \A x \in Steps : attempt'[x] <= Retries[x]
        /\ at' = [at EXCEPT ![s] = "sent"] /\ InCall(s)
        /\ UNCHANGED <<phase, found, todo, filled, blamed, omitted, answered, cancelled,
                        admitted, reported>>
    BY <1>0, <1>3 DEF Send, TypeOK, dataVars, InCall
  <2>q. QED BY <2>1, QuietInv
<1>4. CASE Cancelled(s) \/ AnswersUnreadably(s) \/ ClientError(s) \/ TimesOut(s)
           \/ BackoffCancelled(s)
  <2>1. Fails(s) /\ InCall(s)
    BY <1>4 DEF Cancelled, AnswersUnreadably, ClientError, TimesOut, BackoffCancelled, InCall
  <2>q. QED BY <2>1, FailsInv
<1>5. CASE Answers(s) BY <1>5, AnswersInv
<1>6. CASE FailsForNow(s)
  <2>1. InCall(s) BY <1>6 DEF FailsForNow, InCall
  <2>2. CASE attempt[s] < Retries[s]
    <3>1. attempt' \in [Steps -> Nat] /\ \A x \in Steps : attempt'[x] <= Retries[x]
      <4>1. attempt' = [attempt EXCEPT ![s] = @ + 1] BY <1>6, <2>2 DEF FailsForNow
      <4>2. \A x \in Steps : attempt'[x] = IF x = s THEN attempt[x] + 1 ELSE attempt[x]
        BY <1>0, <4>1 DEF TypeOK
      <4>3. \A x \in Steps : Retries[x] \in Nat /\ attempt[x] \in Nat
        BY <1>0, ExecutorAssumption DEF TypeOK
      <4>4. \A x \in Steps : attempt'[x] <= Retries[x]
        BY <1>0, <2>2, <4>2, <4>3 DEF TypeOK
      <4>5. attempt' \in [Steps -> Nat] BY <1>0, <4>1, <4>3 DEF TypeOK
      <4>q. QED BY <4>4, <4>5
    <3>2. /\ at' = [at EXCEPT ![s] = "backoff"]
          /\ UNCHANGED <<phase, found, todo, filled, blamed, omitted, answered, cancelled,
                          admitted, reported>>
      BY <1>6, <2>2 DEF FailsForNow, dataVars
    <3>q. QED BY <2>1, <3>1, <3>2, QuietInv
  <2>3. CASE ~(attempt[s] < Retries[s])
    <3>1. Fails(s) BY <1>6, <2>3 DEF FailsForNow
    <3>q. QED BY <2>1, <3>1, FailsInv
  <2>q. QED BY <2>2, <2>3
<1>7. CASE BackoffEnds(s)
  <2>1. /\ attempt' \in [Steps -> Nat] /\ \A x \in Steps : attempt'[x] <= Retries[x]
        /\ at' = [at EXCEPT ![s] = "send"] /\ InCall(s)
        /\ UNCHANGED <<phase, found, todo, filled, blamed, omitted, answered, cancelled,
                        admitted, reported>>
    BY <1>0, <1>7 DEF BackoffEnds, TypeOK, dataVars, InCall
  <2>q. QED BY <2>1, QuietInv
<1>q. QED BY <1>1, <1>2, <1>3, <1>4, <1>5, <1>6, <1>7 DEF Call

(* A dependent step begins with what it finds still to do.                 *)
LEMMA BeginDepInv ==
  ASSUME Inv, NEW s \in Deps, BeginDep(s)
  PROVE  Inv'
<1>0. TypeOK /\ ReportsBalance /\ Explained BY DEF Inv
<1>1. s \in Steps /\ s \notin Roots BY ExecutorAssumption DEF Steps
<1>2. PICK n \in 0..(IF filled[Parent[s]] = {} THEN 0 ELSE MaxContainers) :
        /\ found' = [found EXCEPT ![s] = 1..n]
        /\ todo' = [todo EXCEPT ![s] = 1..n]
        /\ at' = [at EXCEPT ![s] = IF n = 0 THEN "ended" ELSE "allow"]
  BY DEF BeginDep
<1>3. 1..n \subseteq Containers BY <1>2, ExecutorAssumption DEF Containers
<1>4. n = 0 => 1..n = {} BY <1>2
<1>5. at[s] = "idle" BY DEF BeginDep, AtNextDep
<1> DEFINE some == 1..n
           place == IF n = 0 THEN "ended" ELSE "allow"
<1>6. /\ found' = [found EXCEPT ![s] = some] /\ todo' = [todo EXCEPT ![s] = some]
      /\ at' = [at EXCEPT ![s] = place] /\ some \subseteq Containers
      /\ place \in {"ended", "allow"} /\ (place = "ended" => some = {})
  BY <1>2, <1>3, <1>4
<1> HIDE DEF some, place
<1>7. UNCHANGED <<phase, attempt, cancelled, admitted, reported, filled, blamed, omitted, answered>>
  BY DEF BeginDep, dataVars
<1>8. /\ at'[s] = place /\ found'[s] = some /\ todo'[s] = some
      /\ \A x \in Steps \ {s} : at'[x] = at[x] /\ found'[x] = found[x] /\ todo'[x] = todo[x]
  BY <1>0, <1>1, <1>6 DEF TypeOK
<1>9. TypeOK'
  <2>1. at' \in [Steps -> Places] BY <1>0, <1>6 DEF TypeOK, Places
  <2>2. found' \in [Steps -> SUBSET Containers] /\ todo' \in [Steps -> SUBSET Containers]
    BY <1>0, <1>6 DEF TypeOK
  <2>q. QED BY <1>0, <1>7, <2>1, <2>2 DEF TypeOK
<1>10. ReportsBalance'
  <2>1. \A x \in Steps : InCall(x)' = InCall(x) BY <1>5, <1>6, <1>8 DEF InCall
  <2>q. QED BY <1>0, <1>7, <2>1 DEF ReportsBalance
<1>11. Explained'
  <2>1. ASSUME NEW x \in Steps
        PROVE  /\ at'[x] \notin {"idle", "skipped"} =>
                    found'[x] = filled'[x] \cup blamed'[x] \cup omitted'[x] \cup todo'[x]
               /\ at'[x] = "ended" => todo'[x] = {}
               /\ at'[x] = "idle" => filled'[x] = {} /\ blamed'[x] = {} /\ omitted'[x] = {}
    <3>1. CASE x = s
      <4>1. filled[s] = {} /\ blamed[s] = {} /\ omitted[s] = {} BY <1>0, <1>5, <1>1 DEF Explained
      <4>q. QED BY <1>6, <1>7, <1>8, <3>1, <4>1
    <3>2. CASE x # s BY <1>0, <1>7, <1>8, <3>2 DEF Explained
    <3>q. QED BY <3>1, <3>2
  <2>2. \A r \in Roots : at'[r] = at[r] /\ todo'[r] = todo[r] /\ blamed'[r] = blamed[r]
    BY <1>1, <1>7, <1>8 DEF Steps
  <2>3. \A x \in Deps : at'[x] = "skipped" => blamed'[Parent[x]] # {}
    BY <1>0, <1>6, <1>7, <1>8 DEF Explained, Steps
  <2>q. QED BY <1>0, <1>7, <2>1, <2>2, <2>3 DEF Explained, Over
<1>q. QED BY <1>9, <1>10, <1>11 DEF Inv

(* A dependent step is skipped because its parent failed, with an error.   *)
LEMMA SkipDepInv ==
  ASSUME Inv, NEW s \in Deps, SkipDep(s)
  PROVE  Inv'
<1>0. TypeOK /\ ReportsBalance /\ Explained BY DEF Inv
<1>1. s \in Steps /\ s \notin Roots /\ Parent[s] \in Roots BY ExecutorAssumption DEF Steps
<1>2. at[s] = "idle" /\ phase = "deps" BY DEF SkipDep, AtNextDep
<1>3. at'[s] = "skipped" /\ \A x \in Steps \ {s} : at'[x] = at[x]
  BY <1>0, <1>1 DEF SkipDep, TypeOK
<1>4. UNCHANGED <<phase, attempt, found, todo, cancelled, admitted, reported,
                  filled, blamed, omitted, answered>>
  BY DEF SkipDep, dataVars
<1>5. blamed[Parent[s]] # {}
  <2>1. Over(Parent[s]) /\ at[Parent[s]] # "skipped" BY <1>0, <1>1, <1>2 DEF Explained
  <2>2. at[Parent[s]] = "ended" BY <2>1 DEF Over
  <2>q. QED BY <1>0, <1>1, <2>2 DEF Explained, SkipDep
<1>6. TypeOK'
  <2>1. at' \in [Steps -> Places] BY <1>0 DEF SkipDep, TypeOK, Places
  <2>q. QED BY <1>0, <1>4, <2>1 DEF TypeOK
<1>7. ReportsBalance'
  <2>1. \A x \in Steps : InCall(x)' = InCall(x) BY <1>2, <1>3 DEF InCall
  <2>q. QED BY <1>0, <1>4, <2>1 DEF ReportsBalance
<1>8. Explained'
  <2>1. \A r \in Roots : at'[r] = at[r] BY <1>1, <1>3 DEF Steps
  <2>2. \A x \in Steps :
          /\ at'[x] \notin {"idle", "skipped"} => at'[x] = at[x]
          /\ at'[x] = "ended" => at[x] = "ended"
          /\ at'[x] = "idle" => at[x] = "idle"
    BY <1>3
  <2>3. \A x \in Deps : at'[x] = "skipped" => blamed'[Parent[x]] # {}
    BY <1>0, <1>3, <1>4, <1>5 DEF Explained, Steps
  <2>q. QED BY <1>0, <1>4, <2>1, <2>2, <2>3 DEF Explained, Over
<1>q. QED BY <1>6, <1>7, <1>8 DEF Inv

(* No step of an execution breaks the invariant.                           *)
LEMMA NextInv == Inv /\ [Next]_vars => Inv'
<1> SUFFICES ASSUME Inv, [Next]_vars PROVE Inv' OBVIOUS
<1>0. TypeOK /\ ReportsBalance /\ Explained BY DEF Inv
<1>1. ASSUME NEW s \in Steps, Call(s) PROVE Inv' BY <1>1, CallInv
<1>2. CASE Collect
  <2>1. TypeOK' BY <1>0, <1>2 DEF Collect, callVars, dataVars, TypeOK
  <2>2. ReportsBalance' BY <1>0, <1>2 DEF Collect, callVars, ReportsBalance, InCall
  <2>3. Explained' BY <1>0, <1>2 DEF Collect, callVars, dataVars, Explained, Over
  <2>q. QED BY <2>1, <2>2, <2>3 DEF Inv
<1>3. ASSUME NEW s \in Deps, BeginDep(s) \/ SkipDep(s) PROVE Inv'
  BY <1>3, BeginDepInv, SkipDepInv
<1>4. CASE Finish
  <2>1. TypeOK' BY <1>0, <1>4 DEF Finish, callVars, dataVars, TypeOK
  <2>2. ReportsBalance' BY <1>0, <1>4 DEF Finish, callVars, ReportsBalance, InCall
  <2>3. Explained' BY <1>0, <1>4 DEF Finish, callVars, dataVars, Explained, Over
  <2>q. QED BY <2>1, <2>2, <2>3 DEF Inv
<1>5. CASE ClientGone
  <2>1. TypeOK' BY <1>0, <1>5 DEF ClientGone, callVars, dataVars, TypeOK
  <2>2. ReportsBalance' BY <1>0, <1>5 DEF ClientGone, callVars, ReportsBalance, InCall
  <2>3. Explained' BY <1>0, <1>5 DEF ClientGone, callVars, dataVars, Explained, Over
  <2>q. QED BY <2>1, <2>2, <2>3 DEF Inv
<1>6. CASE UNCHANGED vars
  BY <1>0, <1>6 DEF vars, Inv, TypeOK, ReportsBalance, InCall, Explained, Over
<1>q. QED BY <1>1, <1>2, <1>3, <1>4, <1>5, <1>6 DEF Next

(* The invariant holds of every execution of every plan.                   *)
THEOREM Inductive == Spec => []Inv
<1>q. QED BY InitInv, NextInv, PTL DEF Spec

(* Every variable keeps its type, and a call stays within its retries.     *)
THEOREM TypeCorrect == Spec => []TypeOK
<1>1. Inv => TypeOK BY DEF Inv
<1>q. QED BY Inductive, <1>1, PTL

(* The breaker hears once of every call it admitted and never of another   *)
(* (callStep).                                                             *)
THEOREM AlwaysBalanced == Spec => []ReportsBalance
<1>1. Inv => ReportsBalance BY DEF Inv
<1>q. QED BY Inductive, <1>1, PTL

(* Every gap in the result has an error or an omission behind it (Execute, *)
(* executeEntityStep, executeJoinStep).                                    *)
THEOREM GapsAlwaysExplained == Spec => []GapsExplained
<1>1. Explained => GapsExplained
  <2>1. ASSUME Explained, NEW s \in Steps, at[s] = "ended"
        PROVE  found[s] = filled[s] \cup blamed[s] \cup omitted[s]
    BY <2>1 DEF Explained
  <2>q. QED BY <2>1 DEF Explained, GapsExplained
<1>2. Inv => GapsExplained BY <1>1 DEF Inv
<1>q. QED BY Inductive, <1>2, PTL

-----------------------------------------------------------------------------
(* What the steps of an execution do to the outcomes of PlanExecution.     *)
outcome == [s \in Steps |-> Outcome(s)]

(* The outcomes are what they are called.                                  *)
LEMMA Meanings ==
  ASSUME TypeOK, NEW s \in Steps
  PROVE  /\ Outcome(s) \in {"pending", "running", "settled", "failed", "skipped"}
         /\ Outcome(s) = "pending" <=> at[s] = "idle"
         /\ Outcome(s) = "skipped" <=> at[s] = "skipped"
         /\ Outcome(s) = "running" <=> at[s] \in {"allow", "send", "sent", "backoff"}
         /\ Outcome(s) = "failed" <=> at[s] = "ended" /\ s \in Roots \ answered
         /\ Outcome(s) = "settled" <=> at[s] = "ended" /\ s \notin Roots \ answered
<1>1. at[s] \in {"idle", "allow", "send", "sent", "backoff", "ended", "skipped"}
  BY DEF TypeOK, Places
<1>q. QED BY <1>1 DEF Outcome

(* A running step that runs on or ends, the others staying as they are, is *)
(* a step of the plan or none.                                             *)
LEMMA SettleStep ==
  ASSUME NEW s \in Steps, outcome[s] = "running",
         NEW o \in {"running", "settled", "failed"}, o = "failed" => s \in Roots,
         outcome' = [outcome EXCEPT ![s] = o],
         (phase = "done")' = (phase = "done")
  PROVE  [Plan!Next]_Plan!vars
<1>1. CASE o = "running"
  <2>1. outcome' = outcome BY <1>1 DEF outcome
  <2>q. QED BY <2>1 DEF Plan!vars, outcome
<1>2. CASE o # "running"
  <2>1. Plan!Settle(s) BY <1>2 DEF Plan!Settle, outcome
  <2>q. QED BY <2>1 DEF Plan!Next, Plan!Steps, Steps
<1>q. QED BY <1>1, <1>2

(* Where the other steps are does not change, nor who of them answered.    *)
LEMMA OneOutcome ==
  ASSUME TypeOK, NEW s \in Steps, NEW place, at' = [at EXCEPT ![s] = place],
         \A r \in Roots \ {s} : r \in answered' <=> r \in answered
  PROVE  outcome' = [outcome EXCEPT ![s] = Outcome(s)'] /\ at'[s] = place
<1>1. at'[s] = place /\ \A x \in Steps \ {s} : at'[x] = at[x] BY DEF TypeOK
<1>2. \A x \in Steps \ {s} : Outcome(x)' = Outcome(x) BY <1>1 DEF Outcome
<1>3. \A x \in Steps : outcome'[x] = IF x = s THEN Outcome(s)' ELSE outcome[x]
  BY <1>2 DEF outcome
<1>q. QED BY <1>1, <1>3 DEF outcome

(* A call that goes on or ends settles its step or leaves it running.      *)
LEMMA CallRefines ==
  ASSUME Inv, NEW s \in Steps, Call(s)
  PROVE  [Plan!Next]_Plan!vars
<1>0. TypeOK BY DEF Inv
<1>1. PICK place \in {"allow", "send", "sent", "backoff", "ended"} :
        at' = [at EXCEPT ![s] = place]
  <2>1. CASE MoveOn(s) BY <2>1 DEF MoveOn
  <2>2. CASE ~MoveOn(s)
    BY <2>2 DEF Call, Admitted, Refused, Send, Cancelled, Answers, AnswersUnreadably,
       ClientError, TimesOut, FailsForNow, BackoffEnds, BackoffCancelled, Fails
  <2>q. QED BY <2>1, <2>2
<1>2. at[s] \in {"allow", "send", "sent", "backoff"}
  BY DEF Call, Admitted, Refused, Send, Cancelled, Answers, AnswersUnreadably, ClientError,
     TimesOut, FailsForNow, BackoffEnds, BackoffCancelled
<1>3. phase' = phase /\ \A r \in Roots \ {s} : r \in answered' <=> r \in answered
  <2>1. CASE Answers(s) BY <2>1 DEF Answers
  <2>2. CASE ~Answers(s)
    BY <2>2 DEF Call, Admitted, Refused, Send, Cancelled, AnswersUnreadably, ClientError,
       TimesOut, FailsForNow, BackoffEnds, BackoffCancelled, Fails, Blame, dataVars
  <2>q. QED BY <2>1, <2>2
<1>4. outcome' = [outcome EXCEPT ![s] = Outcome(s)'] /\ at'[s] = place
  BY <1>0, <1>1, <1>3, OneOutcome
<1>5. Outcome(s)' \in {"running", "settled", "failed"} /\ (Outcome(s)' = "failed" => s \in Roots)
  BY <1>4 DEF Outcome
<1>6. outcome[s] = "running" BY <1>0, <1>2, Meanings DEF outcome
<1>q. QED BY <1>3, <1>4, <1>5, <1>6, SettleStep

(* The loop over the dependent steps starts or skips them as the plan says.*)
LEMMA DepRefines ==
  ASSUME Inv, NEW s \in Deps, BeginDep(s) \/ SkipDep(s)
  PROVE  [Plan!Next]_Plan!vars
<1>0. TypeOK /\ Explained BY DEF Inv
<1>1. s \in Steps /\ s \notin Roots /\ Parent[s] \in Roots /\ Parent[s] \in Steps
  BY ExecutorAssumption DEF Steps
<1>2. AtNextDep(s) /\ UNCHANGED <<phase, answered>> BY DEF BeginDep, SkipDep, dataVars
<1>3. outcome[s] = "pending" BY <1>0, <1>1, <1>2, Meanings DEF outcome, AtNextDep
<1>4. Plan!RootsOver
  <2>1. \A r \in Roots : r \in Steps /\ Over(r) BY <1>0, <1>2 DEF Explained, AtNextDep, Steps
  <2>2. \A r \in Roots : outcome[r] \in {"settled", "failed", "skipped"}
    BY <1>0, <2>1, Meanings DEF Over, outcome
  <2>q. QED BY <2>2 DEF Plan!RootsOver, Plan!Over, outcome
<1>5. \A d \in Deps : outcome[d] # "running"
  <2>1. \A d \in Deps : d \in Steps /\ (at[d] = "idle" \/ Over(d)) BY <1>2 DEF AtNextDep, Steps
  <2>q. QED BY <1>0, <2>1, Meanings DEF Over, outcome
<1>6. at[Parent[s]] = "ended"
  BY <1>0, <1>1, <1>2 DEF Explained, AtNextDep, Over
<1>7. outcome[Parent[s]] = "failed" <=> Parent[s] \notin answered
  BY <1>0, <1>1, <1>6, Meanings DEF outcome
<1>8. CASE BeginDep(s)
  <2>1. PICK place \in {"ended", "allow"} : at' = [at EXCEPT ![s] = place] BY <1>8 DEF BeginDep
  <2>2. outcome' = [outcome EXCEPT ![s] = Outcome(s)'] /\ at'[s] = place
    BY <1>0, <1>1, <1>2, <2>1, OneOutcome
  <2>3. Outcome(s)' \in {"running", "settled"} BY <1>1, <2>2 DEF Outcome
  <2>4. outcome[Parent[s]] # "failed" BY <1>7, <1>8 DEF BeginDep
  <2>5. Plan!Start(s) BY <1>2, <1>3, <1>4, <1>5, <2>2, <2>3, <2>4 DEF Plan!Start, outcome
  <2>q. QED BY <2>5 DEF Plan!Next
<1>9. CASE SkipDep(s)
  <2>1. at' = [at EXCEPT ![s] = "skipped"] BY <1>9 DEF SkipDep
  <2>2. outcome' = [outcome EXCEPT ![s] = Outcome(s)'] /\ at'[s] = "skipped"
    BY <1>0, <1>1, <1>2, <2>1, OneOutcome
  <2>3. Outcome(s)' = "skipped" BY <2>2 DEF Outcome
  <2>4. outcome[Parent[s]] = "failed" BY <1>7, <1>9 DEF SkipDep
  <2>5. Plan!Start(s) BY <1>2, <1>3, <1>4, <1>5, <2>2, <2>3, <2>4 DEF Plan!Start, outcome
  <2>q. QED BY <2>5 DEF Plan!Next
<1>q. QED BY <1>8, <1>9

(* The response is returned when every step is over.                       *)
LEMMA FinishRefines ==
  ASSUME Inv, Finish
  PROVE  [Plan!Next]_Plan!vars
<1>0. TypeOK /\ Explained BY DEF Inv
<1>1. \A s \in Steps : Over(s) BY <1>0 DEF Finish, Explained, Steps
<1>2. \A s \in Steps : outcome[s] \in {"settled", "failed", "skipped"}
  BY <1>0, <1>1, Meanings DEF Over, outcome
<1>3. outcome' = outcome BY DEF Finish, callVars, dataVars, outcome, Outcome
<1>4. Plan!Respond
  BY <1>2, <1>3 DEF Plan!Respond, Plan!Over, Plan!Steps, Steps, Finish, outcome
<1>q. QED BY <1>4 DEF Plan!Next

(* Every execution is one of the plan: dependent steps wait for all roots, *)
(* run alone and exactly if their parent was answered, and the response    *)
(* waits for all (Execute).                                                *)
THEOREM RefinesPlan == Spec => ImplementsPlan
<1>1. Init => Plan!Init
  <2> SUFFICES ASSUME Init PROVE Plan!Init OBVIOUS
  <2>1. \A s \in Steps : Outcome(s) = IF s \in Roots THEN "running" ELSE "pending"
    BY DEF Init, Outcome
  <2>q. QED BY <2>1 DEF Init, Plan!Init, Plan!Steps, Steps
<1>2. Inv /\ [Next]_vars => [Plan!Next]_Plan!vars
  <2> SUFFICES ASSUME Inv, [Next]_vars PROVE [Plan!Next]_Plan!vars OBVIOUS
  <2>1. ASSUME NEW s \in Steps, Call(s) PROVE [Plan!Next]_Plan!vars BY <2>1, CallRefines
  <2>2. ASSUME NEW s \in Deps, BeginDep(s) \/ SkipDep(s) PROVE [Plan!Next]_Plan!vars
    BY <2>2, DepRefines
  <2>3. CASE Finish BY <2>3, FinishRefines
  <2>4. CASE Collect \/ ClientGone \/ UNCHANGED vars
    <3>1. UNCHANGED <<at, answered>> /\ (phase = "done")' = (phase = "done")
      BY <2>4 DEF Collect, ClientGone, vars, callVars, dataVars
    <3>2. outcome' = outcome BY <3>1 DEF outcome, Outcome
    <3>q. QED BY <3>1, <3>2 DEF Plan!vars, outcome
  <2>q. QED BY <2>1, <2>2, <2>3, <2>4 DEF Next
<1>q. QED BY <1>1, <1>2, Inductive, PTL DEF Spec, ImplementsPlan, Plan!Spec
=============================================================================
