--------------------------- MODULE GatewayProofs ---------------------------
(***************************************************************************)
(* What holds of the gateway for any requests, keys, queries, roles and    *)
(* times.  The bound on how long a withdrawn query is still answered needs *)
(* to know how old the plan behind every entry and every execution is:     *)
(* Young says that a refused query's entry has lived, and its execution    *)
(* run, at least as long as it has been refused.                           *)
(***************************************************************************)
EXTENDS Gateway, FiniteSetTheorems, TLAPS

Executing(r) == handling[r].at = "execute"

Young ==
  /\ \A k \in CacheKey : cache[k] # None => refused[k] + cache[k] <= TTL + MaxRun
  /\ \A r \in Requests : Executing(r) =>
       refused[<<handling[r].query, caller[r].role>>] <= handling[r].age

(* A handler has a query in hand.                                          *)
Asked == \A r \in Requests : handling[r].at # "none" => handling[r].query \in Queries

(* What Plan would accept is not counted as refused.                       *)
Fresh == \A q \in Queries, role \in Roles : ~Refuses(q, role) => refused[<<q, role>>] = 0

(* A gate between its statements remembers a table that would admit it.    *)
Remembered ==
  \A r \in Requests :
    caller[r].stage = "key" =>
      /\ caller[r].key \in Keys
      /\ WouldAdmit(routerKeys, caller[r].key) => admitted[r]

Typed == AccessTypeOK /\ GatewayTypeOK

-----------------------------------------------------------------------------
(* The role resolveRole comes to is one of the roles.                      *)
LEMMA RoleIsRole ==
  ASSUME NEW token \in {None} \union Tokens, NEW header \in {None} \union Roles, NEW secrets
  PROVE  ResolveRole(token, header, secrets) \in Roles
<1>1. CASE Verifies(token, secrets)
  <2>1. token \in Token BY <1>1, AccessAssumption DEF Verifies
  <2>2. token.allowed \subseteq Roles /\ token.role \in {None} \union Roles
    BY <2>1 DEF Token
  <2>q. QED BY <1>1, <2>2, AccessAssumption DEF ResolveRole
<1>2. CASE ~Verifies(token, secrets)
  BY <1>2, AccessAssumption DEF ResolveRole
<1>q. QED BY <1>1, <1>2

(* The endpoint found is one that is saved.                                *)
LEMMA FirstMatches ==
  ASSUME NEW call, saved \subseteq DOMAIN Endpoints, Matched(call) # {}
  PROVE  FirstEndpoint(call) \in saved
<1>1. Matched(call) \in SUBSET DOMAIN Endpoints BY DEF Matched
<1>2. \E i \in Matched(call) : \A j \in Matched(call) : i <= j BY <1>1, GatewayAssumption
<1>3. FirstEndpoint(call) \in Matched(call) BY <1>2 DEF FirstEndpoint
<1>q. QED BY <1>3 DEF Matched

(* The values a request starts and ends with have their types.             *)
LEMMA NobodyTyped ==
  /\ Nobody \in Caller
  /\ [Nobody EXCEPT !.stage = "role"] \in Caller
  /\ \A role \in Roles : [Nobody EXCEPT !.stage = "handler", !.role = role] \in Caller
  /\ \A key \in Keys : [Nobody EXCEPT !.stage = "key", !.key = key] \in Caller
BY DEF Nobody, Caller

(* No request in hand is one of the values of Handling.                    *)
LEMMA NothingTyped == Nothing \in Handling
BY GatewayAssumption DEF Nothing, Handling

-----------------------------------------------------------------------------
Inv == Typed /\ Asked /\ Young /\ Remembered /\ Entitled /\ Fresh

kept == <<routerKeys, jwtSecrets, schema, allowed, refused, saved, changes>>

(* It holds at the start, where every query has been refused for long.     *)
LEMMA InitInv == Init => Inv
<1> SUFFICES ASSUME Init PROVE Inv OBVIOUS
<1>1. AccessTypeOK
  BY NobodyTyped DEF Init, AccessInit, AccessTypeOK, Rows, Nobody
<1>2. GatewayTypeOK
  <2>1. Long \in Nat BY GatewayAssumption DEF Long
  <2>2. allowed \subseteq CacheKey BY GatewayAssumption DEF Init, CacheKey
  <2>q. QED BY <2>1, <2>2, NothingTyped, GatewayAssumption
        DEF Init, AccessInit, GatewayTypeOK, Nothing, Nobody
<1>3. Asked /\ Young /\ Remembered /\ Entitled /\ Fresh
  BY DEF Init, AccessInit, Asked, Young, Executing, Remembered, Entitled, Fresh, Refuses, Nothing, Nobody
<1>q. QED BY <1>1, <1>2, <1>3 DEF Inv, Typed

(* A step of the handler of one request, whatever it does to the cache, if *)
(* what it leaves behind is young.                                         *)
LEMMA HandlerStep ==
  ASSUME Inv, NEW r \in Requests, NEW h \in Handling, NEW c \in Caller,
         handling' = [handling EXCEPT ![r] = h], caller' = [caller EXCEPT ![r] = c],
         c.stage \in {"idle", "handler"}, h.at # "none" <=> c.stage = "handler",
         c.stage = "handler" => c.role \in Roles,
         UNCHANGED kept, UNCHANGED admitted,
         cache' \in [CacheKey -> {None} \union 0..TTL],
         \A k \in CacheKey : cache'[k] # None => refused[k] + cache'[k] <= TTL + MaxRun,
         h.at # "none" => h.query \in Queries,
         h.at = "execute" => refused[<<h.query, c.role>>] <= h.age
  PROVE  Inv'
<1>0. /\ \A s \in Requests \ {r} : handling'[s] = handling[s] /\ caller'[s] = caller[s]
      /\ handling'[r] = h /\ caller'[r] = c
      /\ handling' \in [Requests -> Handling] /\ caller' \in [Requests -> Caller]
  BY DEF Inv, Typed, AccessTypeOK, GatewayTypeOK
<1>1. AccessTypeOK' BY <1>0 DEF Inv, Typed, AccessTypeOK, kept
<1>2. GatewayTypeOK' BY <1>0 DEF Inv, Typed, GatewayTypeOK, kept
<1>3. Young' BY <1>0 DEF Inv, Young, Executing, kept
<1>4. Remembered' BY <1>0 DEF Inv, Remembered, kept, WouldAdmit, Active
<1>5. Entitled' BY <1>0 DEF Inv, Entitled, kept
<1>6. Fresh' BY DEF Inv, Fresh, Refuses, kept
<1>7. Asked' BY <1>0 DEF Inv, Asked
<1>q. QED BY <1>1, <1>2, <1>3, <1>4, <1>5, <1>6, <1>7 DEF Inv, Typed

(* The same for a step that leaves the cache alone.                        *)
LEMMA QuietStep ==
  ASSUME Inv, NEW r \in Requests, NEW h \in Handling, NEW c \in Caller,
         handling' = [handling EXCEPT ![r] = h], caller' = [caller EXCEPT ![r] = c],
         c.stage \in {"idle", "handler"}, h.at # "none" <=> c.stage = "handler",
         c.stage = "handler" => c.role \in Roles,
         UNCHANGED kept, UNCHANGED admitted, UNCHANGED cache,
         h.at # "none" => h.query \in Queries,
         h.at = "execute" => refused[<<h.query, c.role>>] <= h.age
  PROVE  Inv'
<1>1. cache' \in [CacheKey -> {None} \union 0..TTL]
  BY DEF Inv, Typed, GatewayTypeOK
<1>2. \A k \in CacheKey : cache'[k] # None => refused[k] + cache'[k] <= TTL + MaxRun
  BY DEF Inv, Young
<1>q. QED BY <1>1, <1>2, HandlerStep

(* A request leaves its handler.                                           *)
LEMMA LeaveStep ==
  ASSUME Inv, NEW r \in Requests, Leave(r), UNCHANGED kept, UNCHANGED admitted, UNCHANGED cache
  PROVE  Inv'
<1>1. Nothing.at = "none" /\ Nobody.stage = "idle" BY DEF Nothing, Nobody
<1>q. QED BY <1>1, NothingTyped, NobodyTyped, QuietStep DEF Leave

(* A request that a handler holds, moved on by it.                         *)
LEMMA MoveStep ==
  ASSUME Inv, NEW r \in Requests, NEW h \in Handling, Step(r, h),
         handling[r].at # "none", h.at # "none",
         UNCHANGED kept, UNCHANGED admitted, UNCHANGED cache,
         h.query = handling[r].query,
         h.at = "execute" => refused[<<h.query, caller[r].role>>] <= h.age
  PROVE  Inv'
<1>1. caller[r] \in Caller /\ caller[r].stage = "handler" /\ caller[r].role \in Roles
  BY DEF Inv, Typed, AccessTypeOK, GatewayTypeOK
<1>2. caller' = [caller EXCEPT ![r] = caller[r]]
  BY DEF Step, Inv, Typed, AccessTypeOK
<1>3. handling' = [handling EXCEPT ![r] = h] BY DEF Step
<1>4. h.query \in Queries BY DEF Inv, Asked
<1>q. QED BY <1>1, <1>2, <1>3, <1>4, QuietStep

(* A request enters its handler with the role it was given.               *)
LEMMA EnterStep ==
  ASSUME Inv, NEW r \in Requests, NEW h \in Handling, Enter(r, h),
         h.at \notin {"none", "execute"}, h.query \in Queries,
         UNCHANGED kept, UNCHANGED admitted, UNCHANGED cache
  PROVE  Inv'
<1>1. caller[r].role \in Roles BY DEF Enter, Inv, Typed, AccessTypeOK
<1> DEFINE c == [Nobody EXCEPT !.stage = "handler", !.role = caller[r].role]
<1>2. c \in Caller /\ c.stage = "handler" /\ c.role = caller[r].role
  BY <1>1, NobodyTyped DEF Nobody
<1>3. handling' = [handling EXCEPT ![r] = h] /\ caller' = [caller EXCEPT ![r] = c]
  BY DEF Enter
<1> HIDE DEF c
<1>q. QED BY <1>1, <1>2, <1>3, QuietStep

-----------------------------------------------------------------------------
(* The actions of a handler.                                               *)

(* A request read: refused at once, or given to the handler.               *)
LEMMA ReadRequestInv ==
  ASSUME Inv, NEW r \in Requests, NEW config \in Configs, NEW batch \in BOOLEAN,
         NEW q \in Queries, ReadRequest(r, config, batch, q)
  PROVE  Inv'
<1> DEFINE h == [Nothing EXCEPT !.at = "analyze", !.query = q, !.config = config]
<1>1. h \in Handling /\ h.at = "analyze" /\ h.query = q BY NothingTyped DEF Nothing, Handling
<1>2. UNCHANGED kept /\ UNCHANGED admitted /\ UNCHANGED cache
  BY DEF ReadRequest, metadata, kept
<1>3. Leave(r) \/ Enter(r, h) BY DEF ReadRequest
<1> HIDE DEF h
<1>q. QED BY <1>1, <1>2, <1>3, LeaveStep, EnterStep

(* A query measured: refused, or looked up next.                           *)
LEMMA AnalyzeInv ==
  ASSUME Inv, NEW r \in Requests, Analyze(r)
  PROVE  Inv'
<1> DEFINE h == [handling[r] EXCEPT !.at = "lookup"]
<1>1. h \in Handling /\ h.at = "lookup" /\ h.query = handling[r].query
  BY DEF Inv, Typed, GatewayTypeOK, Handling
<1>2. UNCHANGED kept /\ UNCHANGED admitted /\ UNCHANGED cache /\ handling[r].at # "none"
  BY DEF Analyze, metadata, kept
<1>3. Leave(r) \/ Step(r, h) BY DEF Analyze
<1> HIDE DEF h
<1>q. QED BY <1>1, <1>2, <1>3, LeaveStep, MoveStep

(* A query looked up: found, or planned next.                              *)
LEMMA LookupInv ==
  ASSUME Inv, NEW r \in Requests, Lookup(r)
  PROVE  Inv'
<1>1. PICK cached \in BOOLEAN, at \in {"answer", "plan"} :
        Step(r, [handling[r] EXCEPT !.cached = cached, !.at = at])
  BY DEF Lookup
<1> DEFINE h == [handling[r] EXCEPT !.cached = cached, !.at = at]
<1>2. h \in Handling /\ h.at = at /\ h.query = handling[r].query BY DEF Inv, Typed, GatewayTypeOK, Handling
<1>3. UNCHANGED kept /\ UNCHANGED admitted /\ UNCHANGED cache /\ handling[r].at # "none"
  BY DEF Lookup, metadata, kept
<1>4. Step(r, h) BY <1>1
<1> HIDE DEF h
<1>q. QED BY <1>2, <1>3, <1>4, MoveStep

(* A REST call that matches has one of the queries.                        *)
LEMMA MatchEndpointInv ==
  ASSUME Inv, NEW r \in Requests, NEW call \in Calls, MatchEndpoint(r, call)
  PROVE  Inv'
<1> DEFINE q == Endpoints[FirstEndpoint(call)].query
           h == [Nothing EXCEPT !.at = "plan", !.rest = TRUE, !.query = q]
<1>1. q \in Queries
  <2>1. saved \subseteq DOMAIN Endpoints BY DEF Inv, Typed, GatewayTypeOK
  <2>2. FirstEndpoint(call) \in DOMAIN Endpoints
    BY <2>1, FirstMatches DEF MatchEndpoint
  <2>q. QED BY <2>2, GatewayAssumption
<1>2. Enter(r, h) BY DEF MatchEndpoint
<1>3. UNCHANGED kept /\ UNCHANGED admitted /\ UNCHANGED cache
  BY DEF MatchEndpoint, metadata, kept
<1> HIDE DEF q
<1>4. h \in Handling /\ h.at = "plan" /\ h.query = q BY <1>1, NothingTyped DEF Nothing, Handling
<1> HIDE DEF h
<1>q. QED BY <1>1, <1>2, <1>3, <1>4, EnterStep

(* What Plan does not refuse has been refused for no time.                 *)
LEMMA PlanInv ==
  ASSUME Inv, NEW r \in Requests, Plan(r)
  PROVE  Inv'
<1> DEFINE h == [handling[r] EXCEPT !.at = "execute"]
<1>1. UNCHANGED kept /\ UNCHANGED admitted /\ UNCHANGED cache /\ handling[r].at = "plan"
  BY DEF Plan, metadata, kept
<1>2. CASE Refuses(handling[r].query, caller[r].role)
  BY <1>1, <1>2, LeaveStep DEF Plan
<1>3. CASE ~Refuses(handling[r].query, caller[r].role)
  <2>1. Step(r, h) BY <1>3 DEF Plan
  <2>2. h \in Handling /\ h.at = "execute" /\ h.query = handling[r].query
        /\ h.age \in 0..MaxRun
    BY GatewayAssumption DEF Inv, Typed, GatewayTypeOK, Handling
  <2>3. <<h.query, caller[r].role>> \in allowed BY <1>3, <2>2 DEF Refuses
  <2>4. <<h.query, caller[r].role>> \in CacheKey BY <2>3 DEF Inv, Typed, GatewayTypeOK
  <2>5. h.query \in Queries BY <2>4 DEF CacheKey
  <2>6. refused[<<h.query, caller[r].role>>] = 0
    <3>1. caller[r].role \in Roles BY <2>4 DEF CacheKey
    <3>2. ~Refuses(h.query, caller[r].role) BY <1>3, <2>2
    <3>q. QED BY <2>5, <3>1, <3>2 DEF Inv, Fresh
  <2>7. refused[<<h.query, caller[r].role>>] <= h.age BY <2>2, <2>6
  <2> HIDE DEF h
  <2>q. QED BY <1>1, <2>1, <2>2, <2>5, <2>7, MoveStep
<1>q. QED BY <1>2, <1>3

(* The entry stored is as old as the execution was long.                   *)
LEMMA SucceedInv ==
  ASSUME Inv, NEW r \in Requests, Succeed(r)
  PROVE  Inv'
<1> DEFINE h == [handling[r] EXCEPT !.at = "answer", !.age = 0]
           key == <<handling[r].query, caller[r].role>>
<1>1. /\ h \in Handling /\ h.at = "answer" /\ h.query = handling[r].query
      /\ caller[r] \in Caller /\ caller[r].stage = "handler" /\ caller[r].role \in Roles
      /\ handling[r].age \in 0..MaxRun
  <2>1. handling[r] \in Handling /\ handling[r].at = "execute"
    BY DEF Succeed, Inv, Typed, GatewayTypeOK
  <2>2. h \in Handling /\ h.at = "answer" /\ h.query = handling[r].query /\ handling[r].age \in 0..MaxRun
    <3>1. 0 \in 0..MaxRun BY GatewayAssumption
    <3>q. QED BY <2>1, <3>1 DEF Handling
  <2>3. caller[r] \in Caller /\ caller[r].stage = "handler" /\ caller[r].role \in Roles
    BY <2>1 DEF Inv, Typed, GatewayTypeOK, AccessTypeOK
  <2>q. QED BY <2>2, <2>3
<1>2. key \in CacheKey /\ refused[key] <= handling[r].age
  BY <1>1 DEF Inv, Asked, Young, Executing, Succeed, CacheKey
<1>3. /\ cache' \in [CacheKey -> {None} \union 0..TTL]
      /\ \A k \in CacheKey : cache'[k] # None => refused[k] + cache'[k] <= TTL + MaxRun
  <2>1. CASE handling[r].cached
    <3>1. PICK drop : cache' = [k \in CacheKey |->
              IF k = key THEN TTL ELSE IF k \in drop THEN None ELSE cache[k]]
      BY <2>1 DEF Succeed, Set, Key, QueryKey
    <3>2. refused[key] \in Nat /\ refused[key] + TTL <= TTL + MaxRun
      BY <1>1, <1>2, GatewayAssumption DEF Inv, Typed, GatewayTypeOK, Long
    <3> HIDE DEF key
    <3>3. TTL \in 0..TTL BY GatewayAssumption
    <3>q. QED BY <3>1, <3>2, <3>3 DEF Inv, Typed, GatewayTypeOK, Young
  <2>2. CASE ~handling[r].cached
    BY <2>2 DEF Succeed, Inv, Typed, GatewayTypeOK, Young
  <2>q. QED BY <2>1, <2>2
<1>4. UNCHANGED kept /\ UNCHANGED admitted BY DEF Succeed, metadata, kept
<1>5. handling' = [handling EXCEPT ![r] = h] /\ caller' = [caller EXCEPT ![r] = caller[r]]
  BY DEF Succeed, Step, Inv, Typed, AccessTypeOK
<1>6. h.query \in Queries BY <1>1 DEF Succeed, Inv, Asked
<1> HIDE DEF h
<1>q. QED BY <1>1, <1>3, <1>4, <1>5, <1>6, HandlerStep

-----------------------------------------------------------------------------
(* What happens meanwhile.                                                 *)

(* The table of keys changes, and every gate under way remembers.          *)
LEMMA SetKeysInv ==
  ASSUME Inv, NEW keys \in [Keys -> Rows], SetKeys(keys)
  PROVE  Inv'
<1>1. AccessTypeOK' BY DEF SetKeys, Inv, Typed, AccessTypeOK
<1>2. GatewayTypeOK' BY GatewayAssumption DEF SetKeys, Change, Inv, Typed, GatewayTypeOK
<1>3. Asked' /\ Young' /\ Fresh'
  BY DEF SetKeys, Inv, Asked, Young, Executing, Fresh, Refuses
<1>4. Remembered' /\ Entitled'
  BY DEF SetKeys, Inv, Typed, AccessTypeOK, Remembered, Entitled
<1>q. QED BY <1>1, <1>2, <1>3, <1>4 DEF Inv, Typed

(* The table of secrets changes: no request under way looks at it again.   *)
LEMMA SetSecretsInv ==
  ASSUME Inv, NEW secrets \in [Secrets -> Rows], SetSecrets(secrets)
  PROVE  Inv'
<1>1. AccessTypeOK' BY DEF SetSecrets, Inv, Typed, AccessTypeOK
<1>2. GatewayTypeOK' BY GatewayAssumption DEF SetSecrets, Change, Inv, Typed, GatewayTypeOK
<1>3. Asked' /\ Young' /\ Fresh' /\ Remembered' /\ Entitled'
  BY DEF SetSecrets, Inv, Asked, Young, Executing, Fresh, Refuses, Remembered, Entitled, WouldAdmit, Active
<1>q. QED BY <1>1, <1>2, <1>3 DEF Inv, Typed

(* The schema or the rules change: what is not refused now counts from 0.  *)
LEMMA RulesChangeInv ==
  ASSUME Inv, schema' \in {None} \union Schemas, allowed' \subseteq CacheKey,
         refused' = StillRefused, UNCHANGED accessVars, UNCHANGED <<saved, cache>>,
         changes' \in 0..MaxChanges,
         NEW moved \in [Requests -> BOOLEAN],
         handling' = [r \in Requests |-> [handling[r] EXCEPT !.moved = moved[r]]]
  PROVE  Inv'
<1>1. /\ refused' \in [CacheKey -> 0..Long]
      /\ \A k \in CacheKey : refused'[k] <= refused[k]
      /\ \A k \in CacheKey : ~Refuses(k[1], k[2])' => refused'[k] = 0
  BY GatewayAssumption DEF StillRefused, Inv, Typed, GatewayTypeOK, Long
<1>2. /\ handling' \in [Requests -> Handling]
      /\ \A r \in Requests : /\ handling'[r].at = handling[r].at
                             /\ handling'[r].query = handling[r].query
                             /\ handling'[r].age = handling[r].age
  BY DEF Inv, Typed, GatewayTypeOK, Handling
<1>3. AccessTypeOK' BY DEF accessVars, Inv, Typed, AccessTypeOK
<1>4. GatewayTypeOK' BY <1>1, <1>2 DEF accessVars, Inv, Typed, GatewayTypeOK
<1>5. Young'
  <2>1. \A k \in CacheKey : cache'[k] # None => refused'[k] + cache'[k] <= TTL + MaxRun
    BY <1>1, GatewayAssumption DEF Inv, Typed, GatewayTypeOK, Young, Long
  <2>2. ASSUME NEW r \in Requests, Executing(r)'
        PROVE  refused'[<<handling'[r].query, caller'[r].role>>] <= handling'[r].age
    <3>1. /\ handling[r].query \in Queries /\ caller[r].role \in Roles
          /\ refused[<<handling[r].query, caller[r].role>>] <= handling[r].age
          /\ handling[r].age \in 0..MaxRun
      BY <1>2, <2>2
      DEF Executing, Inv, Asked, Young, Typed, GatewayTypeOK, AccessTypeOK, Handling
    <3> DEFINE k == <<handling[r].query, caller[r].role>>
    <3>2. k \in CacheKey BY <3>1 DEF CacheKey
    <3>3. refused'[k] \in 0..Long /\ refused[k] \in 0..Long /\ refused'[k] <= refused[k]
      BY <1>1, <3>2 DEF Inv, Typed, GatewayTypeOK
    <3>4. k' = k BY <1>2 DEF accessVars
    <3>q. QED BY <1>2, <3>1, <3>3, <3>4, GatewayAssumption DEF accessVars, Long
  <2>q. QED BY <2>1, <2>2 DEF Young
<1>6. Fresh' BY <1>1 DEF Fresh, CacheKey
<1>7. Asked' /\ Remembered' /\ Entitled'
  BY <1>2 DEF accessVars, Inv, Asked, Remembered, Entitled, WouldAdmit, Active
<1>q. QED BY <1>3, <1>4, <1>5, <1>6, <1>7 DEF Inv, Typed

(* A new schema.                                                           *)
LEMMA UpdateSchemaInv ==
  ASSUME Inv, NEW s \in Schemas, UpdateSchema(s)
  PROVE  Inv'
<1> DEFINE moved == [r \in Requests |->
       handling[r].moved \/ (handling[r].at \in {"lookup", "plan"} /\ ~handling[r].rest)]
<1>1. moved \in [Requests -> BOOLEAN]
  BY DEF Inv, Typed, GatewayTypeOK, Handling
<1>2. handling' = [r \in Requests |-> [handling[r] EXCEPT !.moved = moved[r]]]
  BY DEF UpdateSchema, Inv, Typed, GatewayTypeOK, Handling
<1>3. /\ schema' \in {None} \union Schemas /\ allowed' \subseteq CacheKey
      /\ refused' = StillRefused /\ UNCHANGED accessVars /\ UNCHANGED <<saved, cache>>
      /\ changes' \in 0..MaxChanges
  BY GatewayAssumption DEF UpdateSchema, Change, Inv, Typed, GatewayTypeOK
<1> HIDE DEF moved
<1>q. QED BY <1>1, <1>2, <1>3, RulesChangeInv

(* A rule given or taken away.                                             *)
LEMMA SetPermissionInv ==
  ASSUME Inv, NEW k \in CacheKey, SetPermission(k)
  PROVE  Inv'
<1> DEFINE moved == [r \in Requests |-> handling[r].moved]
<1>1. moved \in [Requests -> BOOLEAN]
  BY DEF Inv, Typed, GatewayTypeOK, Handling
<1>2. handling' = [r \in Requests |-> [handling[r] EXCEPT !.moved = moved[r]]]
  BY DEF SetPermission, Inv, Typed, GatewayTypeOK, Handling
<1>3. /\ schema' \in {None} \union Schemas /\ allowed' \subseteq CacheKey
      /\ refused' = StillRefused /\ UNCHANGED accessVars /\ UNCHANGED <<saved, cache>>
      /\ changes' \in 0..MaxChanges
  BY GatewayAssumption DEF SetPermission, Change, Inv, Typed, GatewayTypeOK
<1> HIDE DEF moved
<1>q. QED BY <1>1, <1>2, <1>3, RulesChangeInv

(* Endpoints and flushes touch neither plans nor rules.                    *)
LEMMA SaveEndpointsInv ==
  ASSUME Inv, NEW names \in SUBSET DOMAIN Endpoints, SaveEndpoints(names)
  PROVE  Inv'
<1>1. AccessTypeOK' BY DEF SaveEndpoints, accessVars, Inv, Typed, AccessTypeOK
<1>2. GatewayTypeOK'
  BY GatewayAssumption DEF SaveEndpoints, Change, accessVars, Inv, Typed, GatewayTypeOK
<1>3. Asked' /\ Young' /\ Fresh' /\ Remembered' /\ Entitled'
  BY DEF SaveEndpoints, accessVars, Inv, Asked, Young, Executing, Fresh, Refuses, Remembered,
         Entitled, WouldAdmit, Active
<1>q. QED BY <1>1, <1>2, <1>3 DEF Inv, Typed

(* An emptied cache has nothing old.                                       *)
LEMMA FlushCacheInv ==
  ASSUME Inv, FlushCache
  PROVE  Inv'
<1>1. AccessTypeOK' BY DEF FlushCache, metadata, Inv, Typed, AccessTypeOK
<1>2. GatewayTypeOK' BY DEF FlushCache, metadata, Inv, Typed, GatewayTypeOK
<1>3. Asked' /\ Young' /\ Fresh' /\ Remembered' /\ Entitled'
  BY DEF FlushCache, metadata, Inv, Asked, Young, Executing, Fresh, Refuses, Remembered,
         Entitled, WouldAdmit, Active
<1>q. QED BY <1>1, <1>2, <1>3 DEF Inv, Typed

(* Time: what an entry loses of its life, and an execution gains in age,   *)
(* is what the count of refusals can have gained.                          *)
LEMMA TickInv ==
  ASSUME Inv, Tick
  PROVE  Inv'
<1>1. /\ refused' \in [CacheKey -> 0..Long]
      /\ \A k \in CacheKey : refused'[k] <= refused[k] + 1
      /\ \A k \in CacheKey : ~Refuses(k[1], k[2]) => refused'[k] = refused[k]
  BY GatewayAssumption DEF Tick, Inv, Typed, GatewayTypeOK, Long
<1>2. /\ cache' \in [CacheKey -> {None} \union 0..TTL]
      /\ \A k \in CacheKey : cache'[k] # None => cache[k] # None /\ cache'[k] = cache[k] - 1
  BY GatewayAssumption DEF Tick, Inv, Typed, GatewayTypeOK
<1>3. /\ handling' \in [Requests -> Handling]
      /\ \A r \in Requests :
           /\ handling'[r].at = handling[r].at /\ handling'[r].query = handling[r].query
           /\ Executing(r) => handling'[r].age = handling[r].age + 1
  <2>1. ASSUME NEW r \in Requests
        PROVE  /\ handling'[r] \in Handling
               /\ handling'[r].at = handling[r].at /\ handling'[r].query = handling[r].query
               /\ Executing(r) => handling'[r].age = handling[r].age + 1
    <3>1. handling[r] \in Handling BY DEF Inv, Typed, GatewayTypeOK
    <3>2. CASE handling[r].at = "execute"
      <4>1. handling'[r] = [handling[r] EXCEPT !.age = @ + 1] /\ handling[r].age < MaxRun
        BY <3>2 DEF Tick
      <4>2. handling[r].age + 1 \in 0..MaxRun
        BY <3>1, <4>1, GatewayAssumption DEF Handling
      <4>q. QED BY <3>1, <4>1, <4>2 DEF Handling
    <3>3. CASE handling[r].at # "execute"
      BY <3>1, <3>3 DEF Tick, Executing
    <3>q. QED BY <3>2, <3>3
  <2>q. QED BY <2>1 DEF Tick
<1>4. AccessTypeOK' BY DEF Tick, accessVars, Inv, Typed, AccessTypeOK
<1>5. GatewayTypeOK'
  BY <1>1, <1>2, <1>3 DEF Tick, accessVars, Inv, Typed, GatewayTypeOK
<1>6. Young'
  <2>1. ASSUME NEW k \in CacheKey, cache'[k] # None
        PROVE  refused'[k] + cache'[k] <= TTL + MaxRun
    <3>1. cache[k] \in 0..TTL /\ refused[k] \in 0..Long /\ refused'[k] \in 0..Long
          /\ refused[k] + cache[k] <= TTL + MaxRun
          /\ refused'[k] <= refused[k] + 1 /\ cache'[k] = cache[k] - 1
      BY <1>1, <1>2, <2>1 DEF Inv, Typed, GatewayTypeOK, Young
    <3>q. QED BY <3>1, GatewayAssumption DEF Long
  <2>2. ASSUME NEW r \in Requests, Executing(r)'
        PROVE  refused'[<<handling'[r].query, caller'[r].role>>] <= handling'[r].age
    <3>1. /\ Executing(r) /\ handling[r].query \in Queries /\ caller[r].role \in Roles
          /\ refused[<<handling[r].query, caller[r].role>>] <= handling[r].age
          /\ handling[r].age \in 0..MaxRun
      BY <1>3, <2>2
      DEF Executing, Inv, Asked, Young, Typed, GatewayTypeOK, AccessTypeOK, Handling
    <3> DEFINE k == <<handling[r].query, caller[r].role>>
    <3>2. k \in CacheKey BY <3>1 DEF CacheKey
    <3>3. refused'[k] \in 0..Long /\ refused[k] \in 0..Long /\ refused'[k] <= refused[k] + 1
      BY <1>1, <3>2 DEF Inv, Typed, GatewayTypeOK
    <3>4. k' = k BY <1>3 DEF Tick, accessVars
    <3>q. QED BY <1>3, <3>1, <3>3, <3>4, GatewayAssumption DEF Tick, accessVars, Long
  <2>q. QED BY <2>1, <2>2 DEF Young
<1>7. Fresh'
  BY <1>1 DEF Tick, Inv, Fresh, CacheKey, Refuses
<1>8. Asked' /\ Remembered' /\ Entitled'
  BY <1>3 DEF Tick, accessVars, Inv, Asked, Remembered, Entitled, WouldAdmit, Active
<1>q. QED BY <1>4, <1>5, <1>6, <1>7, <1>8 DEF Inv, Typed

-----------------------------------------------------------------------------
(* The gate.                                                               *)

(* The gate and the role touch nothing a handler holds.                    *)
LEMMA EntersInv ==
  ASSUME Inv, NEW r \in Requests, Enters(r)
  PROVE  Inv'
<1> DEFINE others == UNCHANGED <<schema, allowed, refused, saved, cache, handling, changes>>
<1>1. others BY DEF Enters
<1>2. ASSUME NEW c \in Caller, NEW a \in BOOLEAN, UNCHANGED <<routerKeys, jwtSecrets>>,
             caller[r].stage # "handler", c.stage # "handler",
             caller' = [caller EXCEPT ![r] = c], admitted' = [admitted EXCEPT ![r] = a],
             c.stage = "role" => a,
             c.stage = "key" => c.key \in Keys /\ (WouldAdmit(routerKeys, c.key) => a),
             c.stage = "ready" => c.role \in Roles /\ EntitledRole(c)
      PROVE Inv'
  <2>0. /\ caller'[r] = c /\ admitted'[r] = a
        /\ \A s \in Requests \ {r} : caller'[s] = caller[s] /\ admitted'[s] = admitted[s]
        /\ caller' \in [Requests -> Caller] /\ admitted' \in [Requests -> BOOLEAN]
    BY <1>2 DEF Inv, Typed, AccessTypeOK
  <2>1. AccessTypeOK' BY <1>2, <2>0 DEF Inv, Typed, AccessTypeOK
  <2>2. GatewayTypeOK' BY <1>1, <1>2, <2>0 DEF Inv, Typed, GatewayTypeOK
  <2>3. Young'
    <3>1. \A s \in Requests : Executing(s)' => Executing(s) /\ caller'[s] = caller[s]
      BY <1>1, <1>2, <2>0 DEF Executing, Inv, Typed, GatewayTypeOK
    <3>q. QED BY <1>1, <3>1 DEF Inv, Young
  <2>4. Remembered' BY <1>2, <2>0 DEF Inv, Remembered, WouldAdmit, Active
  <2>5. Entitled' BY <1>2, <2>0 DEF Inv, Entitled
  <2>6. Fresh' /\ Asked' BY <1>1 DEF Inv, Fresh, Refuses, Asked
  <2>q. QED BY <2>1, <2>2, <2>3, <2>4, <2>5, <2>6 DEF Inv, Typed
<1> HIDE DEF others
<1>3. ASSUME NEW key \in {None} \union Keys, CheckKeys(r, key) PROVE Inv'
  <2>1. caller[r].stage # "handler" /\ UNCHANGED <<routerKeys, jwtSecrets>>
    BY <1>3 DEF CheckKeys
  <2>2. CASE Admit(r, TRUE)
    <3> DEFINE c == [Nobody EXCEPT !.stage = "role"]
    <3>1. c \in Caller /\ c.stage = "role" BY NobodyTyped DEF Nobody
    <3>2. caller' = [caller EXCEPT ![r] = c] /\ admitted' = [admitted EXCEPT ![r] = TRUE]
      BY <2>2 DEF Admit
    <3> HIDE DEF c
    <3>q. QED BY <1>2, <2>1, <3>1, <3>2
  <2>3. CASE ~Admit(r, TRUE)
    <3> DEFINE c == [Nobody EXCEPT !.stage = "key", !.key = key]
               a == WouldAdmit(routerKeys, key)
    <3>1. key \in Keys BY <1>3, <2>3 DEF CheckKeys
    <3>2. c \in Caller /\ c.stage = "key" /\ c.key = key
      BY <3>1, NobodyTyped DEF Nobody
    <3>3. caller' = [caller EXCEPT ![r] = c] /\ admitted' = [admitted EXCEPT ![r] = a]
      BY <1>3, <2>3 DEF CheckKeys
    <3>4. a \in BOOLEAN /\ (WouldAdmit(routerKeys, c.key) => a)
      BY <3>2 DEF WouldAdmit
    <3> HIDE DEF c, a
    <3>q. QED BY <1>2, <2>1, <3>1, <3>2, <3>3, <3>4
  <2>q. QED BY <2>2, <2>3
<1>4. ASSUME ValidateKey(r) PROVE Inv'
  <2>1. caller[r].stage = "key" /\ UNCHANGED <<routerKeys, jwtSecrets>>
    BY <1>4 DEF ValidateKey
  <2>2. CASE ValidateRouterKey(caller[r].key) /\ Admit(r, admitted[r])
    <3> DEFINE c == [Nobody EXCEPT !.stage = "role"]
    <3>1. c \in Caller /\ c.stage = "role" BY NobodyTyped DEF Nobody
    <3>2. caller' = [caller EXCEPT ![r] = c] /\ admitted' = [admitted EXCEPT ![r] = admitted[r]]
      BY <2>2 DEF Admit
    <3>3. admitted[r] \in BOOLEAN /\ admitted[r]
      <4>1. caller[r].key \in Keys
        BY <2>1 DEF Inv, Remembered
      <4>2. WouldAdmit(routerKeys, caller[r].key)
        BY <2>2, <4>1, AccessAssumption DEF ValidateRouterKey, WouldAdmit
      <4>q. QED BY <2>1, <4>2 DEF Inv, Remembered, Typed, AccessTypeOK
    <3> HIDE DEF c
    <3>q. QED BY <1>2, <2>1, <3>1, <3>2, <3>3
  <2>3. CASE Refuse(r)
    <3>1. Nobody \in Caller /\ Nobody.stage = "idle" BY NobodyTyped DEF Nobody
    <3>2. caller' = [caller EXCEPT ![r] = Nobody] /\ admitted' = [admitted EXCEPT ![r] = FALSE]
      BY <2>3 DEF Refuse
    <3>q. QED BY <1>2, <2>1, <3>1, <3>2
  <2>q. QED BY <1>4, <2>2, <2>3 DEF ValidateKey
<1>5. ASSUME NEW token \in {None} \union Tokens, NEW header \in {None} \union Roles,
             NEW failed \in BOOLEAN, SetRole(r, token, header, failed)
      PROVE Inv'
  <2> DEFINE secrets == ActiveSecrets(failed)
             inForce == ActiveSecrets(FALSE)
             role == ResolveRole(token, header, secrets)
             c == [stage |-> "ready", key |-> None, token |-> token, header |-> header,
                   inForce |-> inForce, unread |-> failed, role |-> role]
  <2>1. /\ caller[r].stage # "handler" /\ UNCHANGED <<routerKeys, jwtSecrets>>
        /\ caller' = [caller EXCEPT ![r] = c] /\ admitted' = [admitted EXCEPT ![r] = FALSE]
    BY <1>5 DEF SetRole
  <2>2. /\ inForce \subseteq Secrets \union ({ConfigSecret} \ {None})
        /\ secrets = IF failed THEN {ConfigSecret} \ {None} ELSE inForce
    BY <1>5 DEF ActiveSecrets, Active, Inv, Typed, AccessTypeOK
  <2>3. role \in Roles BY <1>5, RoleIsRole
  <2>4. role # DefaultRole =>
          IF secrets = {} THEN role = header
          ELSE token # None /\ token.signer \in secrets
               /\ role \in {token.role} \union (token.allowed \intersect {header})
    <3> HIDE DEF secrets
    <3>q. QED BY DEF ResolveRole, Verifies
  <2> HIDE DEF secrets, inForce, role
  <2>5. /\ c \in Caller /\ c.stage = "ready" /\ c.role = role /\ c.inForce = inForce
        /\ c.token = token /\ c.header = header /\ c.unread = failed
    BY <1>5, <2>2, <2>3 DEF Caller
  <2> HIDE DEF c
  <2>6. EntitledRole(c)
    <3>1. c.role # DefaultRole => Trusted(c, secrets) BY <2>4, <2>5 DEF Trusted, Vouched
    <3>q. QED BY <1>5, <2>2, <2>5, <3>1 DEF EntitledRole
  <2>q. QED BY <1>2, <2>1, <2>3, <2>5, <2>6
<1>q. QED BY <1>3, <1>4, <1>5 DEF Enters

(* Every step keeps the invariant.                                         *)
LEMMA NextInv == Inv /\ [Next]_vars => Inv'
<1> SUFFICES ASSUME Inv, [Next]_vars PROVE Inv' OBVIOUS
<1>1. CASE UNCHANGED vars
  BY <1>1 DEF vars, accessVars, Inv, Typed, AccessTypeOK, GatewayTypeOK, Asked, Young,
              Executing, Fresh, Refuses, Remembered, WouldAdmit, Active, Entitled
<1>2. ASSUME NEW r \in Requests, Enters(r) PROVE Inv' BY <1>2, EntersInv
<1>3. ASSUME NEW r \in Requests,
             NEW config \in Configs, NEW batch \in BOOLEAN, NEW q \in Queries,
             ReadRequest(r, config, batch, q)
      PROVE Inv'
  BY <1>3, ReadRequestInv
<1>4. ASSUME NEW r \in Requests, NEW call \in Calls, MatchEndpoint(r, call) PROVE Inv'
  BY <1>4, MatchEndpointInv
<1>5. ASSUME NEW r \in Requests, Analyze(r) \/ Lookup(r) \/ Plan(r) \/ Succeed(r) PROVE Inv'
  BY <1>5, AnalyzeInv, LookupInv, PlanInv, SucceedInv
<1>6. ASSUME NEW r \in Requests,
             (\E call \in Calls : NoEndpoint(r, call)) \/ Introspect(r) \/ Fail(r) \/ Answer(r)
      PROVE Inv'
  <2>1. Leave(r) /\ UNCHANGED kept /\ UNCHANGED admitted /\ UNCHANGED cache
    BY <1>6 DEF NoEndpoint, Introspect, Fail, Answer, metadata, kept
  <2>q. QED BY <2>1, LeaveStep
<1>7. ASSUME NEW k \in Keys, CreateRouterKey(k) \/ DeactivateRouterKey(k) PROVE Inv'
  <2>1. Insert(routerKeys, k) \in [Keys -> Rows] /\ Deactivate(routerKeys, k) \in [Keys -> Rows]
    BY DEF Insert, Deactivate, Rows, Inv, Typed, AccessTypeOK
  <2>q. QED BY <1>7, <2>1, SetKeysInv DEF CreateRouterKey, DeactivateRouterKey
<1>8. ASSUME NEW s \in Secrets, AddJWTSecret(s) \/ DeactivateJWTSecret(s) PROVE Inv'
  <2>1. Insert(jwtSecrets, s) \in [Secrets -> Rows] /\ Deactivate(jwtSecrets, s) \in [Secrets -> Rows]
    BY DEF Insert, Deactivate, Rows, Inv, Typed, AccessTypeOK
  <2>q. QED BY <1>8, <2>1, SetSecretsInv DEF AddJWTSecret, DeactivateJWTSecret
<1>9. ASSUME NEW s \in Schemas, UpdateSchema(s) PROVE Inv' BY <1>9, UpdateSchemaInv
<1>10. ASSUME NEW k \in CacheKey, SetPermission(k) PROVE Inv' BY <1>10, SetPermissionInv
<1>11. ASSUME NEW i \in DOMAIN Endpoints, CreateRESTEndpoint(i) \/ DropRESTEndpoint(i) PROVE Inv'
  <2>1. saved \union {i} \in SUBSET DOMAIN Endpoints /\ saved \ {i} \in SUBSET DOMAIN Endpoints
    BY DEF Inv, Typed, GatewayTypeOK
  <2>q. QED BY <1>11, <2>1, SaveEndpointsInv DEF CreateRESTEndpoint, DropRESTEndpoint
<1>12. CASE FlushCache BY <1>12, FlushCacheInv
<1>13. CASE Tick BY <1>13, TickInv
<1>q. QED BY <1>1, <1>2, <1>3, <1>4, <1>5, <1>6, <1>7, <1>8, <1>9, <1>10, <1>11, <1>12, <1>13
      DEF Next

(* What the rest follows from.                                             *)
THEOREM Inductive == Spec => []Inv
BY InitInv, NextInv, PTL DEF Spec

(* Only who is entitled passes the gate.  His role is the default, or one  *)
(* the secrets in force at that moment entitle him to, or, if they could   *)
(* not be read, the configured one alone (resolveRole, activeSecrets,      *)
(* middleware.go).                                                         *)
THEOREM AlwaysEntitled == Spec => []Entitled
<1>1. Inv => Entitled BY DEF Inv
<1>q. QED BY <1>1, Inductive, PTL

-----------------------------------------------------------------------------
(* The size of the cache: a store makes room first, nothing else adds.     *)
Bounded == Cardinality(Entries) <= MaxEntries

(* With fewer entries, or the same, it stays within its size.              *)
LEMMA FewerEntries ==
  ASSUME Bounded, \A k \in CacheKey : cache'[k] # None => cache[k] # None
  PROVE  Bounded'
<1>1. Entries' \subseteq Entries BY DEF Entries
<1>2. IsFiniteSet(Entries)
  <2>1. IsFiniteSet(CacheKey) BY GatewayAssumption
  <2>2. Entries \subseteq CacheKey BY DEF Entries
  <2>q. QED BY <2>1, <2>2, FS_Subset
<1>3. /\ IsFiniteSet(Entries') /\ Cardinality(Entries') <= Cardinality(Entries)
      /\ Cardinality(Entries) \in Nat /\ Cardinality(Entries') \in Nat
  BY <1>1, <1>2, FS_Subset, FS_CardinalityType
<1>q. QED BY <1>3, GatewayAssumption DEF Bounded

(* A step touches the cache to store, to flush, or because time goes by.   *)
LEMMA BoundedStep == Inv /\ Bounded /\ [Next]_vars => Bounded'
<1> SUFFICES ASSUME Inv, Bounded, [Next]_vars PROVE Bounded' OBVIOUS
<1>1. CASE UNCHANGED cache BY <1>1, FewerEntries
<1>2. CASE FlushCache BY <1>2, FewerEntries DEF FlushCache
<1>3. CASE Tick BY <1>3, FewerEntries DEF Tick
<1>4. ASSUME NEW r \in Requests, Succeed(r) PROVE Bounded'
  <2>1. Set(Key(r)) \/ UNCHANGED cache BY <1>4 DEF Succeed
  <2>q. QED BY <1>1, <2>1 DEF Set, Bounded
<1>q. QED BY <1>1, <1>2, <1>3, <1>4
  DEF Next, vars, Enters, ReadRequest, MatchEndpoint, NoEndpoint, Analyze, Introspect, Lookup,
      Plan, Fail, Answer, CreateRouterKey, DeactivateRouterKey, AddJWTSecret,
      DeactivateJWTSecret, SetKeys, SetSecrets, UpdateSchema, SetPermission,
      CreateRESTEndpoint, DropRESTEndpoint, SaveEndpoints

(* Every variable stays within its type, and the cache within its size.    *)
THEOREM TypeCorrect == Spec => []TypeOK
<1>1. Init => Bounded
  <2>1. Init => Entries = {} BY DEF Init, Entries
  <2>2. Cardinality({}) = 0 BY FS_EmptySet
  <2>3. 0 <= MaxEntries BY GatewayAssumption
  <2>q. QED BY <2>1, <2>2, <2>3 DEF Bounded
<1>2. Inv /\ Bounded => TypeOK BY DEF Inv, Typed, Bounded, TypeOK
<1>q. QED BY <1>1, <1>2, BoundedStep, Inductive, PTL DEF Spec

-----------------------------------------------------------------------------
(* Only an entry found, or an execution that succeeded, becomes an answer. *)
LEMMA AnswersOnlyBy ==
  ASSUME Inv, [Next]_vars, NEW r \in Requests, Answers(r)
  PROVE  (Lookup(r) /\ cache[Key(r)] # None) \/ Succeed(r)
<1>0. /\ handling \in [Requests -> Handling]
      /\ handling[r].at # "answer" /\ handling'[r].at = "answer"
  BY DEF Answers, Inv, Typed, GatewayTypeOK
<1>1. ASSUME NEW s \in Requests, NEW h, handling' = [handling EXCEPT ![s] = h], h.at # "answer"
      PROVE FALSE
  BY <1>0, <1>1
<1>2. ~UNCHANGED handling BY <1>0
<1>3. ASSUME NEW s \in Requests, Leave(s) PROVE FALSE
  <2>1. Nothing.at # "answer" BY DEF Nothing
  <2>q. QED BY <1>1, <1>3, <2>1 DEF Leave
<1>4. ASSUME NEW s \in Requests, NEW config \in Configs, NEW batch \in BOOLEAN, NEW q \in Queries,
             ReadRequest(s, config, batch, q)
      PROVE FALSE
  <2> DEFINE h == [Nothing EXCEPT !.at = "analyze", !.query = q, !.config = config]
  <2>1. h.at # "answer" BY DEF Nothing
  <2>2. handling' = [handling EXCEPT ![s] = h] BY <1>3, <1>4 DEF ReadRequest, Enter
  <2> HIDE DEF h
  <2>q. QED BY <1>1, <2>1, <2>2
<1>5. ASSUME NEW s \in Requests, NEW call \in Calls, MatchEndpoint(s, call) PROVE FALSE
  <2> DEFINE h == [Nothing EXCEPT !.at = "plan", !.rest = TRUE,
                                  !.query = Endpoints[FirstEndpoint(call)].query]
  <2>1. h.at # "answer" BY DEF Nothing
  <2>2. handling' = [handling EXCEPT ![s] = h] BY <1>5 DEF MatchEndpoint, Enter
  <2> HIDE DEF h
  <2>q. QED BY <1>1, <2>1, <2>2
<1>6. ASSUME NEW s \in Requests, Analyze(s) \/ Plan(s) PROVE FALSE
  <2>1. PICK at \in {"lookup", "execute"} : handling' = [handling EXCEPT ![s] = [handling[s] EXCEPT !.at = at]]
    BY <1>3, <1>6 DEF Analyze, Plan, Step
  <2> DEFINE h == [handling[s] EXCEPT !.at = at]
  <2>2. h.at # "answer" BY <1>0 DEF Handling
  <2>3. handling' = [handling EXCEPT ![s] = h] BY <2>1
  <2> HIDE DEF h
  <2>q. QED BY <1>1, <2>2, <2>3
<1>7. ASSUME NEW s \in Requests, Lookup(s) PROVE Lookup(r) /\ cache[Key(r)] # None
  <2> DEFINE cached == ~Documents[handling[s].query].word
             found == cached /\ cache[Key(s)] # None
             h == [handling[s] EXCEPT !.cached = cached, !.at = IF found THEN "answer" ELSE "plan"]
  <2>1. handling' = [handling EXCEPT ![s] = h] BY <1>7 DEF Lookup, Step
  <2>2. h.at = IF found THEN "answer" ELSE "plan" BY <1>0 DEF Handling
  <2> HIDE DEF h
  <2>3. s = r /\ handling'[r] = h BY <1>0, <2>1
  <2>4. found BY <1>0, <2>2, <2>3
  <2>q. QED BY <1>7, <2>3, <2>4
<1>8. ASSUME NEW s \in Requests, Succeed(s) PROVE s = r
  <2>1. PICK h : handling' = [handling EXCEPT ![s] = h] BY <1>8 DEF Succeed, Step
  <2>q. QED BY <1>0, <2>1
<1>9. ASSUME NEW s \in Schemas, UpdateSchema(s) PROVE FALSE
  <2>1. PICK moved : handling'[r] = [handling[r] EXCEPT !.moved = moved]
    BY <1>9 DEF UpdateSchema
  <2>q. QED BY <1>0, <2>1 DEF Handling
<1>10. ASSUME Tick PROVE FALSE
  <2>1. CASE Executing(r)
    <3>1. PICK age : handling'[r] = [handling[r] EXCEPT !.age = age]
      BY <1>10, <2>1 DEF Tick, Executing
    <3>q. QED BY <1>0, <3>1 DEF Handling
  <2>2. CASE ~Executing(r)
    BY <1>0, <1>10, <2>2 DEF Tick, Executing
  <2>q. QED BY <2>1, <2>2
<1>q. QED BY <1>2, <1>3, <1>4, <1>5, <1>6, <1>7, <1>8, <1>9, <1>10
  DEF Next, vars, Enters, NoEndpoint, Introspect, Fail, Answer, CreateRouterKey, DeactivateRouterKey, AddJWTSecret,
      DeactivateJWTSecret, SetKeys, SetSecrets, SetPermission,
      CreateRESTEndpoint, DropRESTEndpoint, SaveEndpoints, FlushCache

(* What is refused is answered for no longer than TTL and MaxRun together. *)
THEOREM RevocationIsBounded == Spec => RevocationBites
<1>1. ASSUME Inv, [Next]_vars, NEW r \in Requests, Answers(r)
      PROVE  refused[<<handling[r].query, caller[r].role>>] <= TTL + MaxRun
  <2> DEFINE k == <<handling[r].query, caller[r].role>>
  <2>1. /\ handling[r] \in Handling /\ caller[r].stage = "handler" /\ caller[r].role \in Roles
        /\ (Lookup(r) /\ cache[k] # None) \/ Succeed(r)
    BY <1>1, AnswersOnlyBy
    DEF Lookup, Succeed, Key, QueryKey, Inv, Typed, GatewayTypeOK, AccessTypeOK
  <2>2. handling[r].query \in Queries /\ k \in CacheKey /\ refused[k] \in 0..Long
    <3>1. handling[r].at # "none" BY <2>1 DEF Lookup, Succeed
    <3>2. handling[r].query \in Queries BY <1>1, <3>1 DEF Inv, Asked
    <3>3. k \in CacheKey BY <2>1, <3>2 DEF CacheKey
    <3>q. QED BY <1>1, <3>2, <3>3 DEF Inv, Typed, GatewayTypeOK
  <2>3. CASE Succeed(r)
    <3>1. refused[k] <= handling[r].age /\ handling[r].age \in 0..MaxRun
      BY <1>1, <2>1, <2>3 DEF Succeed, Inv, Young, Executing, Handling
    <3>q. QED BY <2>2, <3>1, GatewayAssumption DEF Long
  <2>4. CASE cache[k] # None
    <3>1. refused[k] + cache[k] <= TTL + MaxRun /\ cache[k] \in 0..TTL
      BY <1>1, <2>2, <2>4 DEF Inv, Young, Typed, GatewayTypeOK
    <3>q. QED BY <2>2, <3>1, GatewayAssumption DEF Long
  <2>q. QED BY <2>1, <2>3, <2>4
<1>2. Inv /\ [Next]_vars =>
        [\A r \in Requests : Answers(r) =>
           refused[<<handling[r].query, caller[r].role>>] <= TTL + MaxRun]_vars
  BY <1>1
<1>q. QED BY <1>2, Inductive, PTL DEF Spec, RevocationBites

-----------------------------------------------------------------------------
(* A query under way is within the limits, or was unknown when it was      *)
(* measured; then, with the same schema, Plan refuses it.                  *)
Careful(h) ==
  h.at \in {"lookup", "plan", "execute"} /\ ~h.rest /\ ~h.moved =>
    \/ WithinLimits(h.query, h.config)
    \/ h.at # "execute" /\ (schema = None \/ h.query \notin schema)
Measured == \A r \in Requests : Careful(handling[r])

(* Every step keeps it so.                                                 *)
LEMMA MeasuredStep == Inv /\ Measured /\ [Next]_vars => Measured'
<1> SUFFICES ASSUME Inv, Measured, [Next]_vars PROVE Measured' OBVIOUS
<1>0. handling \in [Requests -> Handling] BY DEF Inv, Typed, GatewayTypeOK
<1>1. ASSUME NEW s \in Requests, NEW h, handling' = [handling EXCEPT ![s] = h],
             UNCHANGED schema, Careful(h)
      PROVE Measured'
  BY <1>0, <1>1 DEF Measured, Careful
<1>2. CASE UNCHANGED <<handling, schema>> BY <1>2 DEF Measured, Careful
<1>3. ASSUME NEW s \in Requests, Leave(s), UNCHANGED schema PROVE Measured'
  <2>1. Careful(Nothing) BY DEF Careful, Nothing
  <2>q. QED BY <1>1, <1>3, <2>1 DEF Leave
<1>4. ASSUME NEW s \in Requests, NEW config \in Configs, NEW batch \in BOOLEAN, NEW q \in Queries,
             ReadRequest(s, config, batch, q)
      PROVE Measured'
  <2> DEFINE h == [Nothing EXCEPT !.at = "analyze", !.query = q, !.config = config]
  <2>1. Careful(h) BY DEF Careful, Nothing
  <2>2. Leave(s) \/ handling' = [handling EXCEPT ![s] = h] BY <1>4 DEF ReadRequest, Enter
  <2> HIDE DEF h
  <2>q. QED BY <1>1, <1>3, <1>4, <2>1, <2>2 DEF ReadRequest, metadata
<1>5. ASSUME NEW s \in Requests, NEW call \in Calls, MatchEndpoint(s, call) PROVE Measured'
  <2> DEFINE h == [Nothing EXCEPT !.at = "plan", !.rest = TRUE,
                                  !.query = Endpoints[FirstEndpoint(call)].query]
  <2>1. Careful(h) BY DEF Careful, Nothing
  <2>2. handling' = [handling EXCEPT ![s] = h] /\ UNCHANGED schema
    BY <1>5 DEF MatchEndpoint, Enter, metadata
  <2> HIDE DEF h
  <2>q. QED BY <1>1, <2>1, <2>2
<1>6. ASSUME NEW s \in Requests, Analyze(s) PROVE Measured'
  <2> DEFINE h == [handling[s] EXCEPT !.at = "lookup"]
  <2>1. UNCHANGED schema BY <1>6 DEF Analyze, metadata
  <2>2. CASE Leave(s) BY <1>3, <2>1, <2>2
  <2>3. CASE ~Leave(s)
    <3>1. /\ handling' = [handling EXCEPT ![s] = h]
          /\ schema # None /\ handling[s].query \in schema =>
               WithinLimits(handling[s].query, handling[s].config)
      BY <1>6, <2>3 DEF Analyze, Step
    <3>2. /\ h.at = "lookup" /\ h.query = handling[s].query
          /\ h.config = handling[s].config
      BY <1>0 DEF Handling
    <3> HIDE DEF h
    <3>3. Careful(h) BY <3>1, <3>2 DEF Careful
    <3>q. QED BY <1>1, <2>1, <3>1, <3>3
  <2>q. QED BY <2>2, <2>3
<1>7. ASSUME NEW s \in Requests, Lookup(s) PROVE Measured'
  <2> DEFINE cached == ~Documents[handling[s].query].word
             found == cached /\ cache[Key(s)] # None
             h == [handling[s] EXCEPT !.cached = cached, !.at = IF found THEN "answer" ELSE "plan"]
  <2>1. handling' = [handling EXCEPT ![s] = h] BY <1>7 DEF Lookup, Step
  <2>2. /\ h.at \in {"answer", "plan"}
        /\ h.query = handling[s].query /\ h.config = handling[s].config
        /\ h.rest = handling[s].rest /\ h.moved = handling[s].moved
    <3> HIDE DEF found, cached
    <3>q. QED BY <1>0 DEF Handling
  <2>3. handling[s].at = "lookup" /\ UNCHANGED schema BY <1>7 DEF Lookup, metadata
  <2> HIDE DEF h
  <2>4. Careful(h) BY <2>2, <2>3 DEF Measured, Careful
  <2>q. QED BY <1>1, <2>1, <2>3, <2>4
<1>8. ASSUME NEW s \in Requests, Plan(s) PROVE Measured'
  <2> DEFINE h == [handling[s] EXCEPT !.at = "execute"]
  <2>1. handling[s].at = "plan" /\ UNCHANGED schema BY <1>8 DEF Plan, metadata
  <2>2. CASE Leave(s) BY <1>3, <2>1, <2>2
  <2>3. CASE ~Leave(s)
    <3>1. handling' = [handling EXCEPT ![s] = h] /\ schema # None /\ handling[s].query \in schema
      BY <1>8, <2>3 DEF Plan, Step, Refuses
    <3>2. /\ h.at = "execute" /\ h.query = handling[s].query /\ h.config = handling[s].config
          /\ h.rest = handling[s].rest /\ h.moved = handling[s].moved
      BY <1>0 DEF Handling
    <3> HIDE DEF h
    <3>3. Careful(h) BY <2>1, <3>1, <3>2 DEF Measured, Careful
    <3>q. QED BY <1>1, <2>1, <3>1, <3>3
  <2>q. QED BY <2>2, <2>3
<1>9. ASSUME NEW s \in Requests, Succeed(s) PROVE Measured'
  <2> DEFINE h == [handling[s] EXCEPT !.at = "answer", !.age = 0]
  <2>1. h.at = "answer" BY <1>0 DEF Handling
  <2>2. handling' = [handling EXCEPT ![s] = h] /\ UNCHANGED schema
    BY <1>9 DEF Succeed, Step, metadata
  <2> HIDE DEF h
  <2>3. Careful(h) BY <2>1 DEF Careful
  <2>q. QED BY <1>1, <2>2, <2>3
<1>10. ASSUME NEW s \in Schemas, UpdateSchema(s) PROVE Measured'
  <2>1. ASSUME NEW r \in Requests PROVE Careful(handling[r])'
    <3>1. PICK moved : /\ handling'[r] = [handling[r] EXCEPT !.moved = moved]
                       /\ moved = (handling[r].moved \/ (handling[r].at \in {"lookup", "plan"}
                                                        /\ ~handling[r].rest))
      BY <1>10 DEF UpdateSchema
    <3>2. /\ handling'[r].at = handling[r].at /\ handling'[r].query = handling[r].query
          /\ handling'[r].config = handling[r].config /\ handling'[r].rest = handling[r].rest
          /\ handling'[r].moved = moved
      BY <1>0, <3>1 DEF Handling
    <3>3. Careful(handling[r]) BY DEF Measured
    <3>q. QED BY <3>1, <3>2, <3>3 DEF Careful
  <2>q. QED BY <2>1 DEF Measured
<1>11. ASSUME Tick PROVE Measured'
  <2>1. ASSUME NEW r \in Requests PROVE Careful(handling[r])'
    <3>1. /\ handling'[r].at = handling[r].at /\ handling'[r].query = handling[r].query
          /\ handling'[r].config = handling[r].config /\ handling'[r].rest = handling[r].rest
          /\ handling'[r].moved = handling[r].moved
      <4>1. CASE Executing(r)
        <5>1. PICK age : handling'[r] = [handling[r] EXCEPT !.age = age]
          BY <1>11, <4>1 DEF Tick, Executing
        <5>q. QED BY <1>0, <5>1 DEF Handling
      <4>2. CASE ~Executing(r) BY <1>11, <4>2 DEF Tick, Executing
      <4>q. QED BY <4>1, <4>2
    <3>2. Careful(handling[r]) /\ UNCHANGED schema BY <1>11 DEF Measured, Tick
    <3>q. QED BY <3>1, <3>2 DEF Careful
  <2>q. QED BY <2>1 DEF Measured
<1>12. ASSUME NEW s \in Requests,
              (\E call \in Calls : NoEndpoint(s, call)) \/ Introspect(s) \/ Fail(s) \/ Answer(s)
       PROVE Measured'
  <2>1. Leave(s) /\ UNCHANGED schema BY <1>12 DEF NoEndpoint, Introspect, Fail, Answer, metadata
  <2>q. QED BY <1>3, <2>1
<1>q. QED BY <1>2, <1>4, <1>5, <1>6, <1>7, <1>8, <1>9, <1>10, <1>11, <1>12
  DEF Next, vars, Enters, CreateRouterKey, DeactivateRouterKey, AddJWTSecret,
      DeactivateJWTSecret, SetKeys, SetSecrets, SetPermission, CreateRESTEndpoint,
      DropRESTEndpoint, SaveEndpoints, FlushCache, metadata

(* No query over a limit is executed under the schema it was measured by.  *)
THEOREM LimitsAlwaysHold == Spec => []LimitsHold
<1>1. Init => Measured BY DEF Init, Measured, Careful, Nothing
<1>2. Measured => LimitsHold BY DEF Measured, Careful, LimitsHold, WithinLimits
<1>q. QED BY <1>1, <1>2, MeasuredStep, Inductive, PTL DEF Spec
=============================================================================
