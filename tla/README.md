# kastql: a verification project

kastql is a GraphQL gateway. It keeps a set of upstream services, merges their
schemas into one, plans each query as calls to the services that own its
fields, executes the calls, and answers from a response cache where it can. A
health monitor keeps a circuit breaker per service, and a metadata API changes
the set of services while queries are served.

This directory models the parts of it that hold state several goroutines, or a
crash, can get at. Every module names the source files it is written from, and
`PROJECT.json` maps each definition to its lines.

## Inventory

| component | state | operations | talks to |
|---|---|---|---|
| health monitor, `health/monitor.go` | a circuit, failure count and opening time per service | loop of checks (`checkAll`, `checkOne`), `Allow`, `RecordSuccess`, `RecordFailure` | probes upstreams; asked and told by the executor; starts `Registry.Reload` |
| service registry, `registry/registry.go` | the loaded entries (registration and SDL) in memory | `Bootstrap`, `Add`, `Remove`, `Reload`, `ReloadAll`, `List` | introspects upstreams, writes the tables |
| metadata store, `metadata/*.go` | SQLite tables, one connection | one statement per function, `migrate` | registry, APIs, planner |
| metadata API, `metaapi/*.go` | none | requests that change services, relationships, permissions, REST endpoints; `refreshPlanner` | registry, store, planner |
| planner, `planner/planner.go` | the merged schema | `Update`, `Plan`, `ResolveSubscriptionURL` | reads the store's relationships and permissions |
| merger, `planner/merger.go` | none (a fold over the services) | `Merge` | planner |
| executor, `executor/*.go` | none across requests; the results of a request's steps | `Execute`, `callStep`, `callUpstream` | breaker, upstreams |
| response cache, `cache/cache.go` | a map and an LRU list of entries with an expiry | `Get`, `Set`, `SetTTL`, `Flush`, `Len` | GraphQL handler, admin API |
| GraphQL handler, `router/graphql.go` | none | one request: limits, cache, plan, execute, store | all of the above |
| subscriptions, `router/ws.go` | a map of cancel functions per connection | subscribe, complete, relay, disconnect | planner, upstream WebSockets |
| security manager, `security/manager.go`, `ratelimit.go` | the cached configuration, token buckets, WebSocket slots, a queue of blocked requests | `Config`, `InvalidateCache`, `RateLimiter`, `WSAcquire`, `WSRelease`, `LogBlocked` | every request; admin API invalidates |
| router key gate and roles, `auth/*.go` | none; two tables read on every request | `RouterKeyMiddleware`, `resolveRole`, `CanAccess` | every request; admin API changes the tables |
| REST endpoints, `router/rest.go` | none; a table of saved endpoints | `ServeREST` | planner, executor |
| admin API, `adminapi/handler.go` | none | changes of settings, keys, secrets; `FlushCache` | tables, security manager, cache |
| sessions, metrics, admin pages, configuration | none that matters across requests | | |

What makes them hard is that no lock is held across a network call or a
statement. A check of the monitor decides twice, before and after its probe; a
registration is made in four writes to three places; a cached response is
stored long after the lookup that missed; a refresh of the planner is a read
and a write; a request is measured under one schema and planned under another.
What should be correct of each: the breaker moves on the evidence it should and
always recovers; what the registry serves is what a restart would restore; the
planner's schema is the registry's, and the union of its services; a plan asks
for every place of a query outside its root-level fragments, of the service that
is to resolve it, and what its walk comes to only if the rules allow it; who is
answered was let in, and what is withdrawn is not answered for long; the cache
answers as a bounded store with a time to live. `PROJECT.json` lists the hazards at their lines, with the
properties that cover them.

## What is modelled

### CircuitBreaker: the health monitor

`checkOne` is split where the code unlocks: `SkipCheck`, `BeginFreshProbe` and
`BeginTrialProbe` are the first critical section (one for each way through its
switch), `ProbeFails` and `ProbeSucceeds` the second. What a check remembers
over the probe (`wasHalfOpen`) is the kind of probe it is: `fresh[s]` and
`trial[s]` count the probes of each kind under way, and checks of one service
overlap freely, as rounds do when `CheckTimeout` exceeds `CheckInterval`. The
executor takes part with `CallBegins` (after `Allow`), `CallSucceeds` and
`CallFails` (`RecordSuccess`, `RecordFailure`): the circuit moves between the
begin and the end of a call. Time is the flag `cooled`: the recovery cooldown
has passed. `shortProbes` chooses, for a whole behaviour, whether the configuration has
`CheckTimeout` below `RecoveryCooldown`. `owed` is a history variable: the circuit opened
and no Reload has started since.

### ServiceRegistry: registry, tables, metadata requests, refresh

A worker is a goroutine that serves a request; `job[w]` is its local state and
`at` its next step. Each step is one SQL statement, one fetch or one critical
section: `Add` is `UpsertService`, `FetchSucceeds`, `UpsertSchemaCache`, `Load`, then
`List` and `Update` of `refreshPlanner`; `Remove` is `Unload`, `DeleteSchemaCache`,
`DeleteService` and the refresh; `Reload` begins with `GetService`, `loadAll` with
`ListServices` and a loop. Every statement and fetch can fail, and `Crash` ends the
process between any two steps and boots again from the tables. The Reload the
health monitor starts (`Recovery`) runs beside any request and refreshes no planner:
nothing in the repository does after it. Three history variables say what the properties
leave out: `contested`, the services two jobs worked on at once; `failed`, those that could not be
introspected at the boot; and `behind`, those no refresh of the planner accounts for, which are reloaded by
a recovery or dropped by a failing Remove since the last one, changed between the List and the Update of
another request's refresh, kept by the planner though nothing is loaded, or merged in vain.

### ResponseCache and TTLStore: the cache and what it promises

`TTLStore` is the abstract store: an entry per key, an expiry, a capacity.
`ResponseCache` has the code's two structures (`items`, `lru`) and the requests
of the GraphQL handler around them: `GetHit`, `GetExpired` and `GetAbsent` are the ways
through `Get`, `SetExisting`, `SetNew` and `SetEvicting` those through `SetTTL`, at the end of an
execution that began with a miss. `Store` maps `items` to `stored`, and `ImplementsStore`
says that every step of the cache is a step of the store or changes nothing it shows.

### Executor and PlanExecution: one request's plan

`Executor` follows every step of a plan through `callStep` and `callUpstream`: the
question to the breaker (`Admitted`, `Refused`: circuits move freely, so either
answer is possible each time), the attempts (`Send`, `FailsForNow`, `BackoffEnds`), and
each way a call ends (`Answers`, `AnswersUnreadably`, `ClientError`, `TimesOut`, `Cancelled`,
`BackoffCancelled`). Data is abstracted to containers: the places of the result a
step is to fill. `filled`, `blamed` and `omitted` say what became of each. `Collect` is
`wg.Wait`, `BeginDep` and `SkipDep` the sequential loop over dependent steps. `PlanExecution`
is the promise without calls: which step may run when. `Plan` maps places to outcomes, and
`ImplementsPlan` says that every step of the executor keeps the promise. The order of
dependent steps is left open, which allows more than the plan does within one root.

### Subscriptions: a client's connection

The reader (`reader`), a forwarder (`fwd[o]`) and a relay (`relay[o]`) per operation share the map
`subs`. Each wait, each write to the client and each critical section on the map is a
step. Which write comes first is open; that two overlap is possible whenever two
are pending, and the library's panic is then one of the outcomes, for either writer. In a forwarder or a relay
nothing recovers it and the process ends (`Panic`). In the reader, which runs in `ServeHTTP`'s goroutine, the
router's `middleware.Recoverer` does (`router/server.go:55`): the process lives on, the loop that cancels the
map's entries is skipped, and only the deferred calls end the operations (`ReaderPanics`). `stopped` is
the set of operations whose context is done, their own or the connection's. `held`
is the client's view of the ids in use; with `PoliteClient` it reuses an id only when
it has seen, or sent, the end of its operation.

### SecurityManager and RateLimiter

`SecurityManager` splits `Config` where it locks: `Check` under the read lock, `Recheck` and the
load under the write lock, the load itself in its two reads (`ReadSettings`, `ReadLists`, the
two queries for lists taken as one) and `Publish`. An admin request is a statement (`Change`)
and an invalidation (`Invalidate`), with anything in between. Tables are version numbers,
and `Rpm` and `Limit` say what a version means. `due` is a history variable: the changes completed
when a client called `Config`. A connection takes a slot, is upgraded or not, and closes.

`RateLimiter` is the limiter a configuration goes with: `take` under a bucket's lock is one
step, `AllowRequest` is several (`TakeGlobal`, `Load`, `LoadOrStore`, `TakeOwn`). Floating point is
replaced by sixtieths of a token and whole seconds.

### SchemaMerge and QueryPlan: the merger and the planner

`SchemaMerge` goes through the services as `Merge` does, in any order, one definition at a time
(`MergeEntry`, `ProcessDefinition`), so that every order of stubs, extensions and definitions
happens; `Process` is `processDefinition` (root fields, keys, the first definition that owns
a type), `MergeFails` and `LoadFails` the ways out without a schema, `Publish` the write of
`Planner.merged`. An SDL is a sequence of definitions; arguments, enum values and union
members are left out. Updates come one at a time here, two at once are in ServiceRegistry.

`QueryPlan` adds what `Plan` reads (permissions, relationships) and `Plan` itself. A selection is the set of its
places: the ways down to each field and fragment, with every place the one above it is there. What the recursion of
`walkSelections` has on its stack is `visits`, the turns of its loop still to take. A turn to a field is two steps: the
permission (`Allow`, or the ways the walk ends there, `Deny` and `CheckFails`), and what becomes of the field (`KeepLeaf`, `Descend`,
`AskEntity`, `AskJoin`, `KeepUnkeyed`, `KeepUnlinked`); `checked` holds the turn between the two. A fragment
below a field is one: it is kept whole and nothing in it is checked (`KeepFragment`). A fragment at the root of an operation has no
turn, since `planOperation` skips it (`RootVisits`). The
permission and the relationship are two statements on tables nobody has locked, so both tables
change between any two steps, and the merger replaces the schema, which `Plan` read once. A lookup of a relationship that
fails is swallowed (`LookupFails`). What a root step asks is `asked`, the dependent steps are `steps`. Rows that contradict each other, and the
map iteration that chooses a key, are nondeterministic (`First`, `KeyChoices`). `inForce` and `unlinked` are history variables:
the tables there have been since the plan was begun, and the turns whose lookup failed. The
properties do not repeat the walk: they compare the plan with the query, place by place
(`Chains`, `Reached`, `Leaving`, `Verdicts`). Fields of one level may be walked in any order, which allows more than the code does.

The model keeps what the code does where one may not expect it: the keys and the fields only
the owner defines stay in the selection of the service that is left (the finding of `fed_local`);
root fields of a mutation are checked as fields of `Query`; `@key` without fields is no key.

### Access and Gateway: a request from the gate to its answer

`Access` is what every request passes first: the router key gate in its two statements (`CheckKeys`,
`ValidateKey`), either of which may fail, and the role (`SetRole`, `ResolveRole`), over the tables of keys and
secrets. A token is who signed it and what it claims. A failed read of the secrets looks like a table without active ones,
as in the code, whose loader returns no error. Three history variables say what a caller is judged by: `admitted`, at
some moment since the gate began its check the table would have let the request pass; `inForce`, the secrets
active when its role was resolved, whatever the read returned; `unread`, that read failed.

`Gateway` extends it with the handlers of `/graphql` and of saved REST endpoints. `handling[r]` is the
handler's local state, and each read of shared state is a step: the configuration
(`ReadRequest`), the schema for the measures (`Analyze`), the cache (`Lookup`), the schema and the rules for the plan
(`Plan`), the store after the execution (`Succeed`). Meanwhile keys, secrets, schema, rules and endpoints change, entries
expire and the cache is flushed. The parts the other modules model are reduced to
what a request sees of them: a configuration is any of `Configs`, the limiter may refuse any
mutation, a plan exists if the schema has the query and the rules allow it, an execution takes at most
`MaxRun` ticks and may fail, a full cache drops some entry. `MaxRun` is an assumption: the gateway bounds an execution by
itself only where a query timeout is configured (`graphql.go:154`; the default is none), and otherwise only by
the timeout of each call, times the retries and the steps of the plan. `refused` is a
history variable: for how many ticks `Plan` would have refused a role's query.

Kept as in the code: a request whose key is the last active one, and is retired between the two
statements, is refused; the content of named fragments is not measured; a text with `__typename`
is taken for an introspection; the cache's key ignores the headers that are forwarded.

## Runs

| run | instance | shows |
|---|---|---|
| breaker | 1 service, threshold 2, 3 checks and 2 calls at once | the circuit never gets stuck, moves on the evidence it should, recovers |
| registry | 2 services, 2 workers, 2 requests, 1 crash, 2 registrations (one disabled), 2 SDLs | every property of ServiceRegistry |
| cache | 3 keys, room for 2, 2 requests, 2 responses, time up to 4 with entries that live 1 | every property of ResponseCache, and that it implements TTLStore |
| executor | 2 roots, an entity step, a join; up to 2 containers; a retry for one root and the join | reports, errors and gaps add up, the request ends, and it implements PlanExecution |
| subs | 2 ids, 2 operations, a client that reuses ids at will | the map holds no dead entry, and a disconnect, or a panic of the reader's own write, ends the acknowledged operations |
| subs_reuse | 1 id, 2 operations, a polite client | an operation can become unreachable for its client's complete, against `ws.go:94` |
| security | 2 clients, 2 admins, 2 changes of each kind | every property of SecurityManager |
| limiter | 2 addresses, 2 requests at once, rates 2 and 1 a minute, 75 seconds | no bucket gives more than its burst and its rate |
| federation | 7 services in 5 deployments, 7 documents, 2 roles, 3 rules, 2 relationships; one merge and 2 changes of rows at any time, or two merges | the schema is the union of its services in whatever order they come; a plan loses of the query only its root-level fragments, asks the right services, with the keys, and is of one schema; what its walk comes to is allowed |
| fed_owner | the merger alone, three times | an extension with a field of its own becomes a type's owner, against `merger.go:235` |
| fed_local | as federation | a root step asks for fields its service does not define, against `planner.go:282` |
| gateway | 2 requests, 2 keys, a secret, 4 queries, 2 roles, 2 schemas, 2 configurations, 2 endpoints, room for 1 entry, 2 changes | who passes is entitled, by the secrets in force but for a failed read of them; limits hold; what is withdrawn is answered no longer than `TTL + MaxRun` |

Bounds. Circuits of different services share no state, so one is enough; three
checks let two trial probes and one from before the outage overlap, and two
calls let one fail late while another trips the threshold. `MaxFailures` saturates the
counter above the threshold, which is all the code compares it with. In the
registry two requests are the least that race, and a third adds no kind of
interleaving between two workers; one crash suffices for a boot from any
tables a crash can leave, since a boot itself can be what the crash hits. The cache has one key more
than room, and the clock runs long enough for a replacement of an expired entry
to expire. Its keys, data and requests are symmetric and it has no liveness property.

In the executor two containers make a join's call fail between or before others, and the
plan has each kind of step, with and without a retry. Two operations are enough for an id to be used again
while, or after, its first operation ends; the disconnect then meets a map that
has lost an entry. Two changes of each kind make "a later change" differ from
"any change"; the first changes a rate and the second only the number of connections. The limiter's
clock jumps by less than a token's time and by more, and runs long enough to fill an empty bucket. The
configurations of SecurityManager and RateLimiter are symmetric in their actors and have no liveness property.

The federation's documents have each case of the walk: a field that stays, an entity, a stub,
a stitched service, aliases, fragments, a mutation and two operations; the deployments each way two services
can define one type, an SDL that does not parse and a type nobody defines. Two changes of rows put a rule in force and
withdraw it, or contradict it, during one walk; two merges of one deployment can differ in the owner of `User`,
and the second can end at any turn of a walk. In the gateway two requests are what it takes for one to
store what another then finds; two changes retire one key while another is there, or withdraw
a rule and restore it; a time to live and an execution of one tick each make their sum differ from either.

Fairness. CircuitBreaker: the ticker ticks (`CheckAll`), a goroutine that was
started runs (`BeginCheck`), time passes (`CooldownPasses`), and the HTTP client's timeout
ends every probe (`ProbeEnds`). Nothing obliges a service to come back, a client to
call or the process to keep its loop. ServiceRegistry: a worker in the middle
of a job goes on, since SQLite and the introspection client answer or time
out. Executor: goroutines run and timers fire, the request's timeout among them, which exists even when none is configured;
no upstream has to answer. Subscriptions: a goroutine that can go on does; a write
to the client is only obliged to end once the connection is closed (`Return`), and a read
from an upstream once the forwarder has closed it.

The gateway and the federation have no liveness property.

The registry's, the executor's, the subscriptions' and the federation's configurations turn deadlock checking off: a server
without requests rests, a request or a connection ends, and the changes of the metadata are bounded.

## What is proved

`CircuitBreakerProofs` proves for any set of services and any threshold: the
type invariant, `ClosedBelowThreshold`, `HalfOpenIsProbed`, `OwedReloadIsComing`, and the
action properties `ClosesOnlyOnProbe`, `OpensOnEvidence` and `ReloadsWhenProbesAreShort`. None of
the invariants is inductive alone. The strengthening `IInv` adds the counting
facts the overlapping probes need, above all that with short probes no fresh
probe is under way once a circuit has cooled down or is half-open: that is why
whoever closes a half-open circuit then knew it was half-open and starts the
Reload. The proof has one step per action (`NextIInv`); the action
properties follow from the invariant and a case split over the action
that closes or opens (`ClosingStep`). The assumptions are those of
`BreakerAssumption`.

`ResponseCacheProofs` proves for any keys, responses, limit and time to live: the type
invariant, `Coherent`, `EvictsLeastRecentlyUsed` and the refinement `ImplementsStore`. The inductive
invariant is the type invariant, `Coherent` (map and list hold the same keys, once each) and
`Ordered`: the list runs in the order of the last uses, which the history of
the evictions needs. Its lemmas say what each list operation does to positions.
The refinement maps every action to a step of `TTLStore` or to a stutter; without `Coherent` a
store at the limit would not be known to drop exactly one key.

`GatewayProofs` proves for any requests, keys, queries, roles, documents, limits and times: the type
invariant with the size of the cache, `Entitled`, `LimitsHold` and `RevocationBites`. The bound on
revocation rests on `Young`: an entry of a refused query has already lived, and an execution of one
has already run, at least as long as the query has been refused (`refused + cache <= TTL + MaxRun`,
`refused <= age`), and on `Fresh`: what `Plan` accepts now counts as refused for no time, which is what
starts an execution off. `Entitled` judges a role by the secrets in force when it was resolved, and only after a failed read by
the configured one alone; its other half rests on `Remembered`: a gate between its
statements has seen every table that would admit it. `LimitsHold` needs `Measured`: whoever was
measured and is over a limit asks for a query the schema did not have. One lemma says what any step of one request's handler
may do (`HandlerStep`), and each action is shown to be such a step. The assumptions are
`AccessAssumption` and `GatewayAssumption`.

`ExecutorProofs` proves for any plan, retries and number of containers: the type invariant,
`ReportsBalance`, `GapsExplained` and the refinement `ImplementsPlan`. `GapsExplained` speaks of steps that have
ended; `Explained` is what makes it inductive: of a step that has begun every container is filled, blamed, omitted
*or still to do*, a root that failed has an error, and past `wg.Wait` every root is over, which is how a skipped
step knows that its parent has an error. One lemma (`EndOfCall`) covers the end of every call, whichever way
it comes to its end. For the refinement a call is a step that goes on or settles (`CallRefines`).

`SubscriptionsProofs` proves for any ids and operations the type invariant and `EntriesAreLive`; what makes it inductive
is that an operation not yet opened has not been cancelled.

`SecurityProofs` has both halves of the security manager. For any clients, admins, changes and rates it proves the
manager's type invariant, `InvalidationIsSeen`, `LimiterMatches` and `SlotsAccounted`. `Dues` says that a client is owed no change
that has not been invalidated, and `CacheCovers` that a good cache, and what a load under way has read so far, has every
change whose invalidation has returned: an invalidation waits for the lock, so none returns under a load. The slots are a
cardinality: taking and releasing one are lemmas about finite sets, and the clients are assumed finite because
the code's counter counts them. For any rates, addresses and requests, and any advance of the clock, it proves the
limiter's type invariant, `GlobalBound` and `PerIPBound`; the heart is one lemma about `take` (`TakeBound`), and that
a request takes only from a bucket that is there (`Held`).

`ServiceRegistryProofs` proves for any services, registrations, SDLs, workers, requests and crashes the type invariant,
`Backed`, `CacheMatches`, `BootRestoresEnabled` and `PlannerFollows`. The first two speak of services that are
not contested (no two jobs worked on them at once), and none is inductive: whether the entry of a service agrees with
its rows depends on how far its one job has come. `Ensures` says what a job has established for its
service at each of its steps (a row before the fetch, the cached SDL before the load, no entry left before the rows
are deleted), and `Overlaps` that the history misses no overlap. Each action then either leaves a service alone
(`QuietStep`) or belongs to its only job (`OwnStep`). `Boots` says how far `Bootstrap` has come: each enabled service is loaded
as its row has it, has failed, or is still to come; `Reboot` shows that any tables a crash leaves start
such a boot. `PlannerFollows` speaks of the moments between requests, however many jobs have overlapped before, and rests on
`Accounted`: a service that is not behind is in every list yet to be written to the planner as the registry holds it, and where
the planner differs from the registry some job still owes it a refresh (`Owes`). The Reloads of the health
monitor owe nothing and run beside all of this.

`FederationProofs` has the merger and the planner. For any services, definitions, deployments and orders it proves the type invariant of the merge,
`SchemaIsUnion` and `OwnersAnswer`. Both speak of the published schema, and say nothing of one half built. The inductive
invariant adds `MadeOf(building, Processed)`: the schema under construction has exactly the root fields
and the fields of the definitions processed so far, and each owner resolves what it owns; `Underway` says which
those are. One lemma about the operator `Process` (`ProcessMakes`) carries it over a definition; it rests on one about root
fields and one about types, and nothing in it depends on the order of the services. Three assumptions concern the
definitions: a definition names a field once, a root type is none of the types the merger skips,
and `None` is neither a field nor a type. The first is GraphQL's rule for the schemas of running services, the second
is a fact of the code's list of internal types.
The theorems are about `MergeSpec`, the merger by itself; `PlansLeaveMerge` shows that it goes on as it would alone beside the planner
and the changes of the metadata, so they hold of `QueryPlan` too.

For any documents of any depth, any rules, relationships and roles it then proves of the planner `TypeOK`, `OnlyRootFragmentsAreLost`,
`OneStepPerCrossing`, `KeysAreAsked` and `WalkIsAllowed`. Each of the last four speaks of a plan that is complete. The invariant (`PlanInv`) says of a plan being
made that it already is what it should be for every place that is not `Pending`, at or below the place of a turn still to take
(`CoveredSoFar`, `SteppedSoFar`, `AllowedSoFar`, `KeyedSoFar`). It holds at the start because every field is below its root's turn, and
says all at the end because no turn is left. That a turn preserves it needs to know where turns and steps are: a
turn is at a place whose fields above all stay with its service, with the type and the owner its root gives it (`VisitsFit`), no turn is at or
below another (`VisitsApart`), no turn is at or above the field of a step that is made (`StepsBehind`), and a field in the middle of its turn has been allowed (`CheckedFits`): without these a turn could
cover a field twice, or make a second step. One lemma says what any turn owes the places it takes off the list
(`TurnEnds`), and each way through the loop is shown to pay it: keeping a field whole, splitting it
into what stays and what a dependent step asks, or passing the debt on to the places right below (`DescendSound`). What a change of
the tables or a merge does to a walk under way is nothing but to lengthen the history it is judged by (`TablesChange`, `MergeStepInv`).

The type at a place is a recursive function over its length, and that every place above a place is in the selection is an
induction over it. The induction theorems of the library take an operator; `Induction` states it for a set instead, from the
well-foundedness of the order on the naturals, and that is how `PlacesAbove`, `TypingExists` and `TypingUnique` are proved.
The assumptions are `DocumentsAreTrees` (what is selected below a node is a place only if the node is), `PlanAssumption`, and those
of the merger.

The type invariants of the executor, the subscriptions, the limiter and the merger by itself are proved and not among the
properties of the runs. `PlanInv` was model-checked on the instance of the federation run before it was proved.

Only model-checked: liveness (`Recovers`, `ComesUp`, `Ends`, `DisconnectEnds`), which with fairness and `ENABLED` is out of the prover's
reach, and the two violations. Every invariant of a passing run is also proved.

## Divergences seen

The violation runs show three places where the code does not do what a comment says. Others came up on the way. No run
refutes the words below; the properties state what the code does, and each says so where it is defined.

| where | the words | the code | property |
|---|---|---|---|
| breaker | `monitor.go:184`: "Opens the circuit when consecutive failures exceed the threshold." | opens when they reach it (`monitor.go:194`, `>=`) | `ClosedBelowThreshold`, `OpensOnEvidence` |
| breaker | `monitor.go:56`: "Reloader is called when a service transitions from OPEN → CLOSED" | a circuit can close without a Reload when `CheckTimeout` exceeds `RecoveryCooldown` | `ReloadsWhenProbesAreShort` |
| registry | `registry.go:88`: "Remove deregisters a service." | a Reload under way can bring it back until the next boot | `Backed` |
| refresh | `planner.go:124`: the schema is "empty if no services loaded" | after the last service is removed the planner keeps its schema | `PlannerFollows` |
| subscriptions | `ws.go:167`: the forwarder relays "until ctx is cancelled or the upstream closes" | a cancelled one waits for an upstream that never acknowledges | `DisconnectEnds` |
| planner | `planner.go:214`: root-level fragments are "skip for now" | their content is asked of nobody, and a query of nothing else is answered without data and without an error | `OnlyRootFragmentsAreLost` |
| permissions | `web/src/admin/PermissionsTab.tsx:43`: with no permissions defined "All roles have full access." | every role but the public one is denied (`checker.go:25`, `:50`) | `WalkIsAllowed` |
| permissions | `planner.go:313`: "Permission check before we go any further." | fields in fragments (`planner.go:301-305`) and below a field whose type another service owns (`:352-438`) are sent unchecked | `WalkIsAllowed` |
| roles | `auth/middleware.go:44-45`: the role header is trusted only with no secrets configured | it is also trusted after a failed read of the secrets, if none is configured | `Entitled` |
| roles | `web/src/admin/SecurityTab.tsx:174`: without secrets, requests without a valid JWT "will use the default role." | they use the role they name in the header | `Entitled` |

## Not modelled

- Sessions and users (`auth/session.go`, `guard.go`, `user_repo.go`): a session is a signed cookie the
  server keeps nothing of.
- The middlewares for CORS, addresses and sizes: they read one configuration and decide.
- Metrics, logs, the queue of blocked requests: best effort, nothing reads them back.
- Migrations: a list of statements run once, alone, before the server starts. A crash between applying one and
  recording it applies it again; what then happens is the text of the migration.
- Configuration, embedded pages, the web application, the text of SDLs and of introspection
  answers, arguments and variables; `cmd/kastql`, which is not in the repository.
- Persisted queries and the mutation bucket of the limiter (one more global bucket); what a
  probe of an upstream looks at.
