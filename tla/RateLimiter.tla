----------------------------- MODULE RateLimiter -----------------------------
(***************************************************************************)
(* The token buckets of one rate limiter (internal/security/ratelimit.go), *)
(* under the requests of RateLimitMiddleware: one global bucket and one    *)
(* for each address, made when its first request comes.                    *)
(*                                                                         *)
(* Tokens are counted in sixtieths and time in seconds, so that a bucket   *)
(* gains its rate per minute each second.                                  *)
(***************************************************************************)
EXTENDS Integers

CONSTANTS
    Ips,        \* addresses
    Requests,   \* goroutines that serve requests
    GlobalRPM,  \* 0: no global bucket
    PerIPRPM,   \* 0: no buckets by address
    MaxTime,    \* bound: seconds
    Ticks,      \* by how many seconds the clock advances at once
    Absent      \* no bucket, no address

ASSUME RateLimiterAssumption ==
    /\ GlobalRPM \in Nat
    /\ PerIPRPM \in Nat
    /\ MaxTime \in Nat
    /\ Ticks \subseteq Nat \ {0}
    /\ Absent \notin Ips
    /\ Absent \notin [tokens : Nat, last : Nat]

Whole == 60   \* one token

VARIABLES
    now,       \* the time since the limiter was made
    global,    \* the global bucket
    buckets,   \* the bucket of each address, or Absent
    made,      \* history: when that bucket was made
    serving,   \* the address each request comes from
    stage,     \* where each request is: see Stages
    passed,    \* history: tokens taken from the global bucket
    passedBy   \* history: tokens taken from an address's bucket

limiterVars == <<now, global, buckets, made, serving, stage, passed, passedBy>>

Stages == {"idle", "global", "load", "store", "take"}
Bucket == [tokens : Nat, last : Nat]

NewBucket(rpm) == [tokens |-> Whole * rpm, last |-> now]

LimiterInit ==
    /\ now = 0
    /\ global = NewBucket(GlobalRPM)
    /\ buckets = [i \in Ips |-> Absent]
    /\ made = [i \in Ips |-> 0]
    /\ serving = [r \in Requests |-> Absent]
    /\ stage = [r \in Requests |-> "idle"]
    /\ passed = 0
    /\ passedBy = [i \in Ips |-> 0]

-----------------------------------------------------------------------------
(***************************************************************************)
(* take: the bucket is refilled and, if it has a whole token, one is       *)
(* taken, all under its lock.                                              *)
(***************************************************************************)

Refill(b, rpm) ==
    LET tokens == b.tokens + (now - b.last) * rpm IN
    IF tokens > Whole * rpm THEN Whole * rpm ELSE tokens

HasToken(b, rpm) == Refill(b, rpm) >= Whole

\* The time of the refill is kept only when a token is taken.
AfterTakeStale(b, rpm) ==
    IF HasToken(b, rpm)
    THEN [tokens |-> Refill(b, rpm) - Whole, last |-> now]
    ELSE [tokens |-> Refill(b, rpm), last |-> b.last]

AfterTake(b, rpm) ==
    IF HasToken(b, rpm)
    THEN [tokens |-> Refill(b, rpm) - Whole, last |-> now]
    ELSE [tokens |-> Refill(b, rpm), last |-> now]

-----------------------------------------------------------------------------
(***************************************************************************)
(* AllowRequest.                                                           *)
(***************************************************************************)

Arrive(r, i) ==
    /\ stage[r] = "idle"
    /\ serving' = [serving EXCEPT ![r] = i]
    /\ stage' = [stage EXCEPT ![r] = "global"]
    /\ UNCHANGED <<now, global, buckets, made, passed, passedBy>>

Answered(r) ==
    /\ serving' = [serving EXCEPT ![r] = Absent]
    /\ stage' = [stage EXCEPT ![r] = "idle"]

NextBucket(r) ==
    IF PerIPRPM > 0
    THEN stage' = [stage EXCEPT ![r] = "load"] /\ UNCHANGED serving
    ELSE Answered(r)

TakeGlobal(r) ==
    /\ stage[r] = "global"
    /\ IF GlobalRPM = 0
       THEN UNCHANGED <<global, passed>> /\ NextBucket(r)
       ELSE /\ global' = AfterTake(global, GlobalRPM)
            /\ IF HasToken(global, GlobalRPM)
               THEN passed' = passed + 1 /\ NextBucket(r)
               ELSE UNCHANGED passed /\ Answered(r)
    /\ UNCHANGED <<now, buckets, made, passedBy>>

\* bucketFor: the bucket is looked up; if there is none, one is made, and
\* stored if there is still none.
Load(r) ==
    /\ stage[r] = "load"
    /\ stage' = [stage EXCEPT ![r] = IF buckets[serving[r]] = Absent THEN "store" ELSE "take"]
    /\ UNCHANGED <<now, global, buckets, made, serving, passed, passedBy>>

\* The new bucket is stored whether or not there is one.
Store(r) ==
    /\ stage[r] = "store"
    /\ buckets' = [buckets EXCEPT ![serving[r]] = NewBucket(PerIPRPM)]
    /\ UNCHANGED made
    /\ stage' = [stage EXCEPT ![r] = "take"]
    /\ UNCHANGED <<now, global, serving, passed, passedBy>>

LoadOrStore(r) ==
    /\ stage[r] = "store"
    /\ IF buckets[serving[r]] = Absent
       THEN /\ buckets' = [buckets EXCEPT ![serving[r]] = NewBucket(PerIPRPM)]
            /\ made' = [made EXCEPT ![serving[r]] = now]
       ELSE UNCHANGED <<buckets, made>>
    /\ stage' = [stage EXCEPT ![r] = "take"]
    /\ UNCHANGED <<now, global, serving, passed, passedBy>>

TakeOwn(r) ==
    /\ stage[r] = "take"
    /\ LET i == serving[r] IN
          /\ buckets' = [buckets EXCEPT ![i] = AfterTake(buckets[i], PerIPRPM)]
          /\ passedBy' = [passedBy EXCEPT ![i] =
                            IF HasToken(buckets[i], PerIPRPM) THEN @ + 1 ELSE @]
    /\ Answered(r)
    /\ UNCHANGED <<now, global, made, passed>>

Tick ==
    /\ \E t \in Ticks : now + t <= MaxTime /\ now' = now + t
    /\ UNCHANGED <<global, buckets, made, serving, stage, passed, passedBy>>

LimiterNext ==
    \/ \E r \in Requests :
          \/ \E i \in Ips : Arrive(r, i)
          \/ TakeGlobal(r) \/ Load(r) \/ LoadOrStore(r) \/ TakeOwn(r)
    \/ Tick

LimiterSpec == LimiterInit /\ [][LimiterNext]_limiterVars

-----------------------------------------------------------------------------
(***************************************************************************)
(* Properties.                                                             *)
(***************************************************************************)

\* Types of the variables.
LimiterTypeOK ==
    /\ now \in Nat
    /\ global \in Bucket
    /\ global.last <= now
    /\ buckets \in [Ips -> Bucket \cup {Absent}]
    /\ \A i \in Ips : buckets[i] # Absent => buckets[i].last <= now
    /\ made \in [Ips -> Nat]
    /\ serving \in [Requests -> Ips \cup {Absent}]
    /\ stage \in [Requests -> Stages]
    /\ \A r \in Requests : stage[r] = "idle" <=> serving[r] = Absent
    /\ passed \in Nat
    /\ passedBy \in [Ips -> Nat]

\* Tokens taken so far, the fraction in the bucket included, never exceed one
\* full bucket and what the rate has given since, and a quiet time saves up no
\* more than a full bucket: the limit of a request stream of any shape
\* (tokenBucket).
GlobalBound ==
    /\ Whole * passed + global.tokens <= GlobalRPM * (Whole + global.last)
    /\ global.tokens <= Whole * GlobalRPM

\* The same for every address since its bucket was made, though requests
\* that find no bucket race to make it (bucketFor).
PerIPBound ==
    \A i \in Ips :
        IF buckets[i] = Absent
        THEN passedBy[i] = 0
        ELSE /\ Whole * passedBy[i] + buckets[i].tokens
                  <= PerIPRPM * (Whole + (buckets[i].last - made[i]))
             /\ buckets[i].tokens <= Whole * PerIPRPM
=============================================================================
