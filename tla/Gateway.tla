------------------------------ MODULE Gateway ------------------------------
(***************************************************************************)
(* A request from the gate to its answer: the handlers of /graphql and of  *)
(* the saved REST endpoints (internal/router/graphql.go, rest.go), with    *)
(* the analysis of a query (internal/planner/analyze.go), while the schema *)
(* is replaced, permissions change, entries expire and an administrator    *)
(* flushes the cache.                                                      *)
(*                                                                         *)
(* A handler reads shared state in several steps: the configuration, the   *)
(* schema for the analysis, the cache, the schema again for the plan, and  *)
(* it stores after the execution.  What those parts do inside is the       *)
(* matter of QueryPlan, Executor, ResponseCache, SecurityManager and       *)
(* RateLimiter: here a configuration is any of Configs, the limiter may    *)
(* refuse any mutation, a plan exists if the schema has the query and the  *)
(* rules allow it to the role, an execution takes at most MaxRun and may   *)
(* fail, and a full cache drops some entry.  Time goes by in ticks, and    *)
(* only ages are kept.                                                     *)
(***************************************************************************)
EXTENDS Access, Sequences, FiniteSetsExt

CONSTANTS
  Queries,      (* the documents clients send                              *)
  Documents,    (* what each of them is                                    *)
  Schemas,      (* the schemas there may be: the queries valid under each  *)
  Configs,      (* the security configurations there may be                *)
  Endpoints,    (* endpoints there may be, by name: method, path, query    *)
  Calls,        (* the method and path of REST calls                       *)
  Public,       (* the role that may without a rule                        *)
  TTL, MaxEntries,
  MaxRun,       (* assumed: ticks from a plan to its answer at most.  The
                   query timeout (graphql.go:154) sees to it where one is
                   set; without, as by default, only the timeout of each
                   call, the retries and the steps of the plan do          *)
  MaxChanges    (* bound: changes of keys, secrets, schema and rules       *)

(* A document: its operation, its nodes wherever they are in the operation,
   the directives of the operation, and what its text mentions.  A node's
   path is the nodes it is below, itself last; the content of a named
   fragment is not in the operation.                                       *)
Node ==
  [kind : {"field", "inline", "spread"}, path : Seq(STRING), renamed : BOOLEAN,
   directives : Nat]
Document ==
  [operation : {"query", "mutation"}, nodes : SUBSET Node, directives : Nat,
   meta : BOOLEAN,   (* "__schema" or "__type" is in its text, `__typename` included *)
   word : BOOLEAN]   (* "mutation" is, in any case                          *)
Measures == {"depth", "complexity", "aliases", "directives"}
Config ==
  [batch : BOOLEAN, persistedOnly : BOOLEAN, limits : [Measures -> Nat], rateLimit : BOOLEAN]

CacheKey == Queries \X Roles

ASSUME GatewayAssumption ==
  /\ \A q \in Queries : Documents[q].operation = "mutation" => Documents[q].word
  /\ Schemas \subseteq SUBSET Queries
  /\ \A config \in Configs : config.limits \in [Measures -> Nat]
  /\ Public \in Roles /\ IsFiniteSet(CacheKey)
  /\ \A i \in DOMAIN Endpoints : Endpoints[i].query \in Queries
  /\ \A S \in SUBSET DOMAIN Endpoints : S # {} => \E i \in S : \A j \in S : i <= j
  /\ None \notin Nat /\ None \notin Queries
  /\ TTL \in Nat /\ MaxEntries \in Nat \ {0} /\ MaxRun \in Nat /\ MaxChanges \in Nat

VARIABLES
  schema,      (* Planner.merged: the queries valid under it, or None      *)
  allowed,     (* the permissions: which role may plan which query         *)
  refused,     (* history: for how many ticks a role's query has been one
                  Plan refuses, Long for longer than counts                *)
  saved,       (* rest_endpoints: the endpoints that have a row            *)
  cache,       (* ticks an entry still lives, None without one             *)
  handling,    (* what a handler holds of its request                      *)
  changes

vars == <<accessVars, schema, allowed, refused, saved, cache, handling, changes>>

Long == TTL + MaxRun + 1
-----------------------------------------------------------------------------
(* Analyze: the measures of a query the schema has.                        *)

FieldsOf(doc) == {n \in doc.nodes : n.kind = "field"}
FieldsTo(doc, n) ==
  {m \in FieldsOf(doc) : \E i \in DOMAIN n.path : m.path = SubSeq(n.path, 1, i)}

Depth(doc) == 1 + Max({0} \union {Cardinality(FieldsTo(doc, n)) : n \in doc.nodes})
Complexity(doc) == Cardinality(FieldsOf(doc))
Aliases(doc) == Cardinality({n \in FieldsOf(doc) : n.renamed})
Directives(doc) == doc.directives + MapThenSumSet(LAMBDA n : n.directives, doc.nodes)

Analysis(q) ==
  LET doc == Documents[q] IN
  [depth |-> Depth(doc), complexity |-> Complexity(doc),
   aliases |-> Aliases(doc), directives |-> Directives(doc)]

(* The limits of size only.                                                *)
WithinSize(q, config) ==
  \A m \in {"depth", "complexity"} :
    config.limits[m] > 0 => Analysis(q)[m] <= config.limits[m]

WithinLimits(q, config) ==
  \A m \in Measures : config.limits[m] > 0 => Analysis(q)[m] <= config.limits[m]

(* One entry for all roles.                                                *)
SharedKey(q, role) == <<q, DefaultRole>>

QueryKey(q, role) == <<q, role>>

Refuses(q, role) == schema = None \/ q \notin schema \/ <<q, role>> \notin allowed

(* matchPath and the loop over the endpoints: the first that matches.      *)
MatchPath(pattern, path) ==
  /\ Len(pattern) = Len(path)
  /\ \A i \in DOMAIN path : pattern[i] \in {":", path[i]}
Matched(call) ==
  {i \in saved :
     Endpoints[i].method = call.method /\ MatchPath(Endpoints[i].path, call.path)}
FirstEndpoint(call) == CHOOSE i \in Matched(call) : \A j \in Matched(call) : i <= j

-----------------------------------------------------------------------------
Nothing ==
  [at |-> "none", query |-> None, config |-> None, cached |-> FALSE,
   rest |-> FALSE, moved |-> FALSE, age |-> 0]

Handling ==
  [at : {"none", "analyze", "lookup", "plan", "execute", "answer"},
   query : {None} \union Queries, config : {None} \union Configs,
   cached : BOOLEAN, rest : BOOLEAN, moved : BOOLEAN, age : 0..MaxRun]

Entries == {k \in CacheKey : cache[k] # None}

GatewayTypeOK ==
  /\ schema \in {None} \union Schemas
  /\ allowed \subseteq CacheKey
  /\ refused \in [CacheKey -> 0..Long]
  /\ saved \subseteq DOMAIN Endpoints
  /\ cache \in [CacheKey -> {None} \union 0..TTL]
  /\ handling \in [Requests -> Handling]
  /\ changes \in 0..MaxChanges
  /\ \A r \in Requests : handling[r].at # "none" <=> caller[r].stage = "handler"
TypeOK == AccessTypeOK /\ GatewayTypeOK /\ Cardinality(Entries) <= MaxEntries

Init ==
  /\ AccessInit
  /\ schema = None
  /\ allowed = Queries \X {Public}
  /\ refused = [k \in CacheKey |-> Long]
  /\ saved = DOMAIN Endpoints
  /\ cache = [k \in CacheKey |-> None]
  /\ handling = [r \in Requests |-> Nothing]
  /\ changes = 0

-----------------------------------------------------------------------------
(* The steps of a handler.                                                 *)

Step(r, held) ==
  /\ handling' = [handling EXCEPT ![r] = held]
  /\ UNCHANGED caller

Leave(r) ==
  /\ handling' = [handling EXCEPT ![r] = Nothing]
  /\ caller' = [caller EXCEPT ![r] = Nobody]

Enter(r, held) ==
  /\ caller[r].stage = "ready"
  /\ handling' = [handling EXCEPT ![r] = held]
  /\ caller' = [caller EXCEPT ![r] =
       [Nobody EXCEPT !.stage = "handler", !.role = caller[r].role]]

metadata == <<routerKeys, jwtSecrets, schema, allowed, refused, saved, changes>>

(* graphqlHandler.ServeHTTP up to the analysis: one configuration for the  *)
(* whole request; of a batch only the first query is answered.             *)
ReadRequest(r, config, batch, q) ==
  /\ caller[r].stage = "ready"
  /\ IF (batch /\ ~config.batch) \/ config.persistedOnly
     THEN Leave(r)
     ELSE Enter(r, [Nothing EXCEPT !.at = "analyze", !.query = q, !.config = config])
  /\ UNCHANGED <<metadata, admitted, cache>>

(* The limits, and the limiter of mutations, for a query the schema has;   *)
(* any other goes on without.                                              *)
Analyze(r) ==
  /\ handling[r].at = "analyze"
  /\ LET h == handling[r]
         known == schema # None /\ h.query \in schema IN
     \/ /\ known => WithinLimits(h.query, h.config)
        /\ Step(r, [h EXCEPT !.at = "lookup"])
     \/ /\ known
        /\ \/ ~WithinLimits(h.query, h.config)
           \/ h.config.rateLimit /\ Documents[h.query].operation = "mutation"
        /\ Leave(r)
  /\ UNCHANGED <<metadata, admitted, cache>>

(* A text with an introspection field is answered from the schema as a     *)
(* whole, or refused if introspection is off or there is no schema.        *)
Introspect(r) ==
  /\ handling[r].at = "lookup" /\ Documents[handling[r].query].meta
  /\ Leave(r)
  /\ UNCHANGED <<metadata, admitted, cache>>

Key(r) == QueryKey(handling[r].query, caller[r].role)

(* A text that has the word mutation is neither looked up nor stored.      *)
Lookup(r) ==
  /\ handling[r].at = "lookup" /\ ~Documents[handling[r].query].meta
  /\ LET cached == ~Documents[handling[r].query].word IN
     Step(r, [handling[r] EXCEPT !.cached = cached,
       !.at = IF cached /\ cache[Key(r)] # None THEN "answer" ELSE "plan"])
  /\ UNCHANGED <<metadata, admitted, cache>>

(* ServeREST: the first endpoint that matches, planned for the role.       *)
MatchEndpoint(r, call) ==
  /\ Matched(call) # {}
  /\ Enter(r, [Nothing EXCEPT !.at = "plan", !.rest = TRUE,
                              !.query = Endpoints[FirstEndpoint(call)].query])
  /\ UNCHANGED <<metadata, admitted, cache>>

NoEndpoint(r, call) ==
  /\ caller[r].stage = "ready" /\ Matched(call) = {}
  /\ Leave(r)
  /\ UNCHANGED <<metadata, admitted, cache>>

(* Planner.Plan, with the schema and the rules of now.                     *)
Plan(r) ==
  /\ handling[r].at = "plan"
  /\ IF Refuses(handling[r].query, caller[r].role) THEN Leave(r)
     ELSE Step(r, [handling[r] EXCEPT !.at = "execute"])
  /\ UNCHANGED <<metadata, admitted, cache>>

(* No room made for it.                                                    *)
SetFull(key) == cache' = [cache EXCEPT ![key] = TTL]

(* Set: the entry lives TTL from now; a full cache drops another one.      *)
Set(key) ==
  \E drop \in {{}} \union {{k} : k \in CacheKey \ {key}} :
    /\ cache' = [k \in CacheKey |->
                   IF k = key THEN TTL ELSE IF k \in drop THEN None ELSE cache[k]]
    /\ Cardinality(Entries') <= MaxEntries

(* Execute returned a result without errors: stored, and answered.         *)
Succeed(r) ==
  /\ handling[r].at = "execute"
  /\ IF handling[r].cached THEN Set(Key(r)) ELSE UNCHANGED cache
  /\ Step(r, [handling[r] EXCEPT !.at = "answer", !.age = 0])
  /\ UNCHANGED <<metadata, admitted>>

(* It failed, or some of its steps did: answered, never stored.            *)
Fail(r) ==
  /\ handling[r].at = "execute"
  /\ Leave(r)
  /\ UNCHANGED <<metadata, admitted, cache>>

Answer(r) ==
  /\ handling[r].at = "answer"
  /\ Leave(r)
  /\ UNCHANGED <<metadata, admitted, cache>>

-----------------------------------------------------------------------------
(* What happens meanwhile.                                                 *)

Change ==
  /\ changes < MaxChanges
  /\ changes' = changes + 1

(* A gate under way learns what the new table would have said.             *)
SetKeys(keys) ==
  /\ Change /\ keys # routerKeys
  /\ routerKeys' = keys
  /\ admitted' = [r \in Requests |->
       admitted[r] \/ (caller[r].stage = "key" /\ WouldAdmit(keys, caller[r].key))]
  /\ UNCHANGED <<jwtSecrets, caller, schema, allowed, refused, saved, cache, handling>>

CreateRouterKey(k) == SetKeys(Insert(routerKeys, k))
DeactivateRouterKey(k) == SetKeys(Deactivate(routerKeys, k))

SetSecrets(secrets) ==
  /\ Change /\ secrets # jwtSecrets
  /\ jwtSecrets' = secrets
  /\ UNCHANGED <<routerKeys, caller, admitted, schema, allowed, refused, saved, cache, handling>>

AddJWTSecret(s) == SetSecrets(Insert(jwtSecrets, s))
DeactivateJWTSecret(s) == SetSecrets(Deactivate(jwtSecrets, s))

(* Nothing flushes the cache when the schema or the rules change.          *)
StillRefused == [k \in CacheKey |-> IF Refuses(k[1], k[2])' THEN refused[k] ELSE 0]

UpdateSchema(s) ==
  /\ Change /\ schema # s
  /\ schema' = s
  /\ handling' = [r \in Requests |->
       [handling[r] EXCEPT !.moved = @ \/ (handling[r].at \in {"lookup", "plan"}
                                           /\ ~handling[r].rest)]]
  /\ UNCHANGED allowed
  /\ refused' = StillRefused
  /\ UNCHANGED <<accessVars, saved, cache>>

SetPermission(k) ==
  /\ Change
  /\ allowed' = IF k \in allowed THEN allowed \ {k} ELSE allowed \union {k}
  /\ UNCHANGED schema
  /\ refused' = StillRefused
  /\ UNCHANGED <<accessVars, saved, cache, handling>>

SaveEndpoints(names) ==
  /\ Change /\ names # saved
  /\ saved' = names
  /\ UNCHANGED <<accessVars, schema, allowed, refused, cache, handling>>

CreateRESTEndpoint(i) == SaveEndpoints(saved \union {i})
DropRESTEndpoint(i) == SaveEndpoints(saved \ {i})

FlushCache ==
  /\ cache' = [k \in CacheKey |-> None]
  /\ UNCHANGED <<metadata, caller, admitted, handling>>

(* Entries expire; an execution under way comes to its timeout.            *)
Tick ==
  /\ \A r \in Requests : handling[r].at = "execute" => handling[r].age < MaxRun
  /\ cache' = [k \in CacheKey |-> IF cache[k] \in {None, 0} THEN None ELSE cache[k] - 1]
  /\ refused' = [k \in CacheKey |->
       IF Refuses(k[1], k[2]) /\ refused[k] < Long THEN refused[k] + 1 ELSE refused[k]]
  /\ handling' = [r \in Requests |->
       IF handling[r].at = "execute" THEN [handling[r] EXCEPT !.age = @ + 1] ELSE handling[r]]
  /\ UNCHANGED <<accessVars, schema, allowed, saved, changes>>

Enters(r) ==
  /\ \/ \E key \in {None} \union Keys : CheckKeys(r, key)
     \/ ValidateKey(r)
     \/ \E token \in {None} \union Tokens, header \in {None} \union Roles, failed \in BOOLEAN :
          SetRole(r, token, header, failed)
  /\ UNCHANGED <<schema, allowed, refused, saved, cache, handling, changes>>

Next ==
  \/ \E r \in Requests :
       \/ Enters(r)
       \/ \E config \in Configs, batch \in BOOLEAN, q \in Queries : ReadRequest(r, config, batch, q)
       \/ \E call \in Calls : MatchEndpoint(r, call) \/ NoEndpoint(r, call)
       \/ Analyze(r) \/ Introspect(r) \/ Lookup(r)
       \/ Plan(r) \/ Succeed(r) \/ Fail(r) \/ Answer(r)
  \/ \E k \in Keys : CreateRouterKey(k) \/ DeactivateRouterKey(k)
  \/ \E s \in Secrets : AddJWTSecret(s) \/ DeactivateJWTSecret(s)
  \/ \E s \in Schemas : UpdateSchema(s)
  \/ \E k \in CacheKey : SetPermission(k)
  \/ \E i \in DOMAIN Endpoints : CreateRESTEndpoint(i) \/ DropRESTEndpoint(i)
  \/ FlushCache \/ Tick

Spec == Init /\ [][Next]_vars

-----------------------------------------------------------------------------
(* Properties.                                                             *)

(* A request passes the gate only if at some one moment of the check the   *)
(* table would have let it: there was no active key, or its own was one.   *)
(* (A statement that fails lets it pass at once.)                          *)
(* The role it goes on with is the default, or one its token vouches for,  *)
(* signed by a secret in force: an active row of jwt_secrets, or where     *)
(* there is none the configured secret.  A role it merely names counts if  *)
(* no secret is in force.  When the read of the table failed, all this is  *)
(* judged as if the table had no active row, so a role that is merely      *)
(* named counts with active secrets in the table, if none is configured:   *)
(* middleware.go:44-45 trusts the header "only in dev mode (no secrets     *)
(* configured)".                                                           *)
Vouched(c, secrets) ==
  /\ c.token # None /\ c.token.signer \in secrets
  /\ c.role \in {c.token.role} \union (c.token.allowed \intersect {c.header})

Trusted(c, secrets) == IF secrets = {} THEN c.role = c.header ELSE Vouched(c, secrets)

EntitledRole(c) ==
  \/ c.role = DefaultRole
  \/ Trusted(c, c.inForce)
  \/ c.unread /\ Trusted(c, {ConfigSecret} \ {None})

Entitled ==
  \A r \in Requests :
    /\ caller[r].stage = "role" => admitted[r]
    /\ caller[r].stage = "ready" => EntitledRole(caller[r])

Answers(r) == handling[r].at # "answer" /\ handling'[r].at = "answer"

(* A query that Plan refuses to a role, as its permission was withdrawn or *)
(* the schema has it no longer, is answered to that role for no longer     *)
(* than the longest execution and the time to live together: the handler   *)
(* stores what it planned before the change, and nothing flushes it.  How  *)
(* long the longest execution is, the gateway bounds only where a query    *)
(* timeout is configured (see MaxRun).                                     *)
RevocationBites ==
  [][\A r \in Requests : Answers(r) =>
       refused[<<handling[r].query, caller[r].role>>] <= TTL + MaxRun]_vars

(* A query to /graphql that is over a limit is executed only if the schema *)
(* was replaced between its analysis and its plan.                         *)
LimitsHold ==
  \A r \in Requests :
    LET h == handling[r] IN
    h.at = "execute" /\ ~h.rest /\ ~h.moved =>
      \A m \in Measures : h.config.limits[m] > 0 => Analysis(h.query)[m] <= h.config.limits[m]

=============================================================================
