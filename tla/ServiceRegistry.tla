-------------------------- MODULE ServiceRegistry --------------------------
(***************************************************************************)
(* The set of upstream services and the schema merged from them:           *)
(* internal/registry (Registry), the requests of internal/metaapi that     *)
(* change it, the services and schema_cache tables they write              *)
(* (internal/metadata) and the planner's merged schema they refresh.       *)
(*                                                                         *)
(* A request is a goroutine that does its work in several steps, each one  *)
(* SQL statement, one network fetch or one critical section, with no lock  *)
(* held between them.  Its local variables are its job.  The boot sequence *)
(* (Bootstrap) is the job of worker Main, before anything else is served.  *)
(*                                                                         *)
(* A registration (URL, type, headers, enabled) is one value of Regs, an   *)
(* SDL one value of Schemas.                                               *)
(***************************************************************************)
EXTENDS Naturals, FiniteSets

CONSTANTS
  Services,    (* service names                                            *)
  Regs,        (* registrations a service can be given                     *)
  Disabled,    (* the ones whose Enabled flag is off                       *)
  Schemas,     (* SDLs a service can answer with                           *)
  Configured,  (* the registration the config file gives a service or None *)
  Workers,     (* goroutines that serve requests                           *)
  Main,        (* the one that boots the process                           *)
  None,
  MaxRequests, (* bound: requests started                                  *)
  MaxCrashes   (* bound: crashes of the process                            *)

ASSUME RegistryAssumption ==
  /\ Disabled \subseteq Regs
  /\ Configured \in [Services -> Regs \union {None}]
  /\ Main \in Workers
  /\ None \notin Regs \union Schemas
  /\ MaxRequests \in Nat /\ MaxCrashes \in Nat

Entry == [reg : Regs, sdl : Schemas]

ASSUME NoneIsNoEntry == None \notin Entry

VARIABLES
  row,        (* services table: the registration of a name, or None       *)
  cache,      (* schema_cache table: the SDL of a name, or None            *)
  memory,     (* Registry.services: the loaded entry of a name, or None    *)
  merged,     (* Planner.merged: the entries it was merged from            *)
  job,        (* what each worker is doing                                 *)
  requests, crashes,   (* counters for the bounds                          *)
  contested,  (* history: services two jobs worked on at the same time     *)
  untouched,  (* history: no request since the boot                        *)
  failed,     (* history: services whose load by the boot failed           *)
  behind      (* history: services no refresh of the planner accounts for  *)

tables == <<row, cache>>
counters == <<requests, crashes, untouched>>
fixed == <<counters, behind>>
vars   == <<tables, memory, merged, job, fixed, contested, failed>>

Nothing == [s \in Services |-> None]
Loaded(m) == {s \in Services : m[s] # None}

-----------------------------------------------------------------------------
(* Jobs.                                                                   *)

Ops == {"add", "remove", "reload", "recovery", "reloadAll", "boot"}
Steps == {"idle", "seed", "upsert", "get", "scan", "next", "fetch", "cache", "load",
          "unload", "uncache", "unrow", "list", "update"}

(* op and at: the request and its next step; svc: the service it works on; *)
(* reg and sdl: what it has read or fetched for it; todo: registrations a  *)
(* loop has still to do; snap: the entries List returned.                  *)
Job == [op : Ops, at : Steps, svc : Services \union {None}, reg : Regs \union {None},
        sdl : Schemas \union {None}, todo : [Services -> Regs \union {None}],
        snap : [Services -> Entry \union {None}]]

Fresh(op, at) == [op |-> op, at |-> at, svc |-> None, reg |-> None, sdl |-> None,
                  todo |-> Nothing, snap |-> Nothing]

Resting == Fresh("boot", "idle")
(* A handler that is done with its service and calls refreshPlanner.       *)
Refreshing == Fresh("reload", "list")
Booting == [Fresh("boot", "seed") EXCEPT !.todo = Configured]

(* Jobs that read, write or hold the registration of s.                    *)
WorksOn(j, s) == j.at # "idle" /\ (j.svc = s \/ j.todo[s] # None)
Overlap(jobs, s) == \E v, w \in Workers : v # w /\ WorksOn(jobs[v], s) /\ WorksOn(jobs[w], s)

(* Worker w goes on to job j; the history of contested services is kept.   *)
Goes(w, j) ==
  /\ job' = [job EXCEPT ![w] = j]
  /\ contested' = contested \union {s \in Services : Overlap(job', s)}
Moves(w, at) == Goes(w, [job[w] EXCEPT !.at = at])
Returns(w) == Goes(w, Resting)

Loops(j) == j.op \in {"reloadAll", "boot"}

(* Where introspectAndCache returns to: the loop of loadAll goes on to its *)
(* next service, a handler refreshes the planner, and the Reload of the    *)
(* health monitor has nothing more to do.                                  *)
AfterLoad(j) ==
  IF Loops(j) THEN [j EXCEPT !.at = "next", !.svc = None, !.reg = None, !.sdl = None]
  ELSE IF j.op = "recovery" THEN Resting
  ELSE Refreshing

(* A loop that tries a service again until it answers.                     *)
AfterErrorRetries(j) == IF Loops(j) THEN [j EXCEPT !.at = "fetch"] ELSE Resting

(* Where it returns to with an error, which loadAll logs and skips.        *)
AfterError(j) == IF Loops(j) THEN AfterLoad(j) ELSE Resting

Serving == ~(job[Main].op = "boot" /\ job[Main].at # "idle")

-----------------------------------------------------------------------------
TypeOK ==
  /\ row \in [Services -> Regs \union {None}]
  /\ cache \in [Services -> Schemas \union {None}]
  /\ memory \in [Services -> Entry \union {None}]
  /\ merged \in [Services -> Entry \union {None}]
  /\ job \in [Workers -> Job]
  /\ requests \in 0..MaxRequests
  /\ crashes \in 0..MaxCrashes
  /\ contested \subseteq Services
  /\ untouched \in BOOLEAN
  /\ failed \subseteq Services
  /\ behind \subseteq Services

Init ==
  /\ row = Nothing /\ cache = Nothing
  /\ memory = Nothing /\ merged = Nothing
  /\ job = [w \in Workers |-> IF w = Main THEN Booting ELSE Resting]
  /\ requests = 0 /\ crashes = 0
  /\ contested = {}
  /\ untouched = TRUE
  /\ failed = {}
  /\ behind = {}

-----------------------------------------------------------------------------
(* Requests arrive.                                                        *)

Starts(w, j) ==
  /\ Serving /\ job[w].at = "idle"
  /\ requests < MaxRequests
  /\ requests' = requests + 1
  /\ untouched' = FALSE
  /\ Goes(w, j)
  /\ UNCHANGED <<tables, memory, merged, crashes, failed, behind>>

AddRemoteSchema(w, s, r) == Starts(w, [Fresh("add", "upsert") EXCEPT !.svc = s, !.reg = r])
RemoveRemoteSchema(w, s) == Starts(w, [Fresh("remove", "unload") EXCEPT !.svc = s])
ReloadRemoteSchema(w, s) == Starts(w, [Fresh("reload", "get") EXCEPT !.svc = s])
ReloadMetadata(w)        == Starts(w, Fresh("reloadAll", "scan"))

(* The health monitor starts a Reload for a service it has as a target, in *)
(* a goroutine of its own, whatever requests are under way.                *)
Recovery(w, s) ==
  /\ memory[s] # None /\ memory[s].reg \notin Disabled
  /\ Starts(w, [Fresh("recovery", "get") EXCEPT !.svc = s])

-----------------------------------------------------------------------------
(* Steps on the registration: Bootstrap, UpsertService, GetService,        *)
(* ListServices and the loop of loadAll.                                   *)

Seed(w) ==
  LET j == job[w] IN
  /\ j.at = "seed"
  /\ IF j.todo = Nothing
     THEN Moves(w, "scan") /\ UNCHANGED row
     ELSE \E s \in Loaded(j.todo) :
            /\ row' = [row EXCEPT ![s] = j.todo[s]]
            /\ Goes(w, [j EXCEPT !.todo[s] = None])
  /\ UNCHANGED <<cache, memory, merged, fixed, failed>>

UpsertService(w) ==
  /\ job[w].at = "upsert"
  /\ row' = [row EXCEPT ![job[w].svc] = job[w].reg]
  /\ Moves(w, "fetch")
  /\ UNCHANGED <<cache, memory, merged, fixed, failed>>

(* A Reload that goes on without the registration it did not find.         *)
GetServiceUnchecked(w) ==
  /\ job[w].at = "get"
  /\ Goes(w, [job[w] EXCEPT !.reg = row[job[w].svc], !.at = "fetch"])
  /\ UNCHANGED <<tables, memory, merged, fixed, failed>>

GetService(w) ==
  LET found == row[job[w].svc] IN
  /\ job[w].at = "get"
  /\ IF found = None THEN Returns(w)
     ELSE Goes(w, [job[w] EXCEPT !.reg = found, !.at = "fetch"])
  /\ UNCHANGED <<tables, memory, merged, fixed, failed>>

(* A scan that forgets the Enabled flag.                                   *)
ListAllServices(w) ==
  /\ job[w].at = "scan"
  /\ Goes(w, [job[w] EXCEPT !.at = "next", !.todo = row])
  /\ UNCHANGED <<tables, memory, merged, fixed, failed>>

ListServices(w) ==
  /\ job[w].at = "scan"
  /\ Goes(w, [job[w] EXCEPT !.at = "next",
                            !.todo = [s \in Services |->
                                        IF row[s] \in Disabled THEN None ELSE row[s]]])
  /\ UNCHANGED <<tables, memory, merged, fixed, failed>>

(* The loop goes through the rows in the order of their names; the rows    *)
(* are independent, so any order is allowed here.                          *)
NextService(w) ==
  LET j == job[w] IN
  /\ j.at = "next"
  /\ IF j.todo = Nothing
     THEN Goes(w, IF j.op = "boot" THEN [j EXCEPT !.at = "list"] ELSE Refreshing)
     ELSE \E s \in Loaded(j.todo) :
            Goes(w, [j EXCEPT !.at = "fetch", !.svc = s, !.reg = j.todo[s], !.todo[s] = None])
  /\ UNCHANGED <<tables, memory, merged, fixed, failed>>

-----------------------------------------------------------------------------
(* What the planner is told.  A refresh takes over what List returned, so  *)
(* it accounts for every change of the memory up to then.                  *)
Refreshes == \E w \in Workers : job[w].at = "update"

(* Job j changes the entry of its service: nobody refreshes the planner    *)
(* after the Reload of a recovery, and a refresh that has listed before    *)
(* may undo this one.                                                      *)
NoteChange(j) ==
  behind' = IF j.op = "recovery" \/ Refreshes THEN behind \union {j.svc} ELSE behind

(* What is listed is accounted for, unless another refresh is to come.     *)
NoteListed == behind' = IF Refreshes THEN behind ELSE {}

(* A list without a service is not taken over: what the planner has stays. *)
NoteNothingListed ==
  behind' = (IF Refreshes THEN behind ELSE {}) \union Loaded(merged)

-----------------------------------------------------------------------------
(* introspectAndCache: fetch, persist, then publish.                       *)

(* The upstream answers with whatever schema it has by now.                *)
FetchSucceeds(w) ==
  /\ job[w].at = "fetch"
  /\ \E v \in Schemas : Goes(w, [job[w] EXCEPT !.sdl = v, !.at = "cache"])
  /\ UNCHANGED <<tables, memory, merged, fixed, failed>>

(* What the boot could not load.                                           *)
NoteFailure(j) == failed' = IF j.op = "boot" THEN failed \union {j.svc} ELSE failed

(* Timeout, refused connection, GraphQL errors, an empty SDL.              *)
FetchFails(w) ==
  /\ job[w].at = "fetch"
  /\ Goes(w, AfterError(job[w]))
  /\ NoteFailure(job[w])
  /\ UNCHANGED <<tables, memory, merged, fixed>>

(* The SDL published first and persisted after, at the step "load".        *)
PublishFirst(w) ==
  /\ job[w].at = "cache"
  /\ memory' = [memory EXCEPT ![job[w].svc] = [reg |-> job[w].reg, sdl |-> job[w].sdl]]
  /\ Moves(w, "load")
  /\ UNCHANGED <<tables, merged, fixed, failed>>

UpsertSchemaCache(w) ==
  /\ job[w].at = "cache"
  /\ cache' = [cache EXCEPT ![job[w].svc] = job[w].sdl]
  /\ Moves(w, "load")
  /\ UNCHANGED <<row, memory, merged, fixed, failed>>

(* An entry published with a second introspection of the upstream.         *)
LoadLatest(w) ==
  LET j == job[w] IN
  /\ j.at = "load"
  /\ \E v \in Schemas : memory' = [memory EXCEPT ![j.svc] = [reg |-> j.reg, sdl |-> v]]
  /\ Goes(w, AfterLoad(j))
  /\ NoteChange(j)
  /\ UNCHANGED <<tables, merged, counters, failed>>

Load(w) ==
  LET j == job[w] IN
  /\ j.at = "load"
  /\ memory' = [memory EXCEPT ![j.svc] = [reg |-> j.reg, sdl |-> j.sdl]]
  /\ Goes(w, AfterLoad(j))
  /\ NoteChange(j)
  /\ UNCHANGED <<tables, merged, counters, failed>>

-----------------------------------------------------------------------------
(* Remove: memory first, then the cached SDL, then the registration.       *)

Unload(w) ==
  /\ job[w].at = "unload"
  /\ memory' = [memory EXCEPT ![job[w].svc] = None]
  /\ Moves(w, "uncache")
  /\ NoteChange(job[w])
  /\ UNCHANGED <<tables, merged, counters, failed>>

DeleteSchemaCache(w) ==
  /\ job[w].at = "uncache"
  /\ cache' = [cache EXCEPT ![job[w].svc] = None]
  /\ Moves(w, "unrow")
  /\ UNCHANGED <<row, memory, merged, fixed, failed>>

DeleteService(w) ==
  /\ job[w].at = "unrow"
  /\ row' = [row EXCEPT ![job[w].svc] = None]
  /\ Goes(w, Refreshing)
  /\ UNCHANGED <<cache, memory, merged, fixed, failed>>

(* A statement fails: the request returns its error, except that loadAll   *)
(* skips a service whose SDL it could not persist.  A Remove that fails    *)
(* has unloaded its service and does not refresh the planner.  A failure   *)
(* of the boot itself ends the process and is a Crash.                     *)
StoreFails(w) ==
  LET j == job[w] IN
  /\ \/ j.at = "cache" /\ Goes(w, AfterError(j)) /\ NoteFailure(j) /\ UNCHANGED behind
     \/ /\ j.at \in {"upsert", "get", "scan"} /\ j.op # "boot"
        /\ Returns(w) /\ UNCHANGED <<failed, behind>>
     \/ /\ j.at \in {"uncache", "unrow"}
        /\ Returns(w) /\ behind' = behind \union {j.svc} /\ UNCHANGED failed
  /\ UNCHANGED <<tables, memory, merged, counters>>

-----------------------------------------------------------------------------
(* refreshPlanner: List, then Planner.Update.  It returns early when no    *)
(* service is loaded.                                                      *)

List(w) ==
  /\ job[w].at = "list"
  /\ IF Loaded(memory) = {} THEN Returns(w) /\ NoteNothingListed
     ELSE Goes(w, [job[w] EXCEPT !.snap = memory, !.at = "update"]) /\ NoteListed
  /\ UNCHANGED <<tables, memory, merged, counters, failed>>

(* An update that merges new services into the schema it has.              *)
UpdateAddsOnly(w) ==
  /\ job[w].at = "update"
  /\ merged' = [s \in Services |-> IF job[w].snap[s] = None THEN merged[s] ELSE job[w].snap[s]]
  /\ Returns(w)
  /\ UNCHANGED <<tables, memory, fixed, failed>>

Update(w) ==
  /\ job[w].at = "update"
  /\ merged' = job[w].snap
  /\ Returns(w)
  /\ UNCHANGED <<tables, memory, fixed, failed>>

(* Merge rejects the SDLs: the planner keeps the schema it has.            *)
MergeFails(w) ==
  /\ job[w].at = "update"
  /\ Returns(w)
  /\ behind' = Services
  /\ UNCHANGED <<tables, memory, merged, counters, failed>>

-----------------------------------------------------------------------------
(* The process stops at any step and boots again.                          *)

Crash ==
  /\ crashes < MaxCrashes
  /\ crashes' = crashes + 1
  /\ job' = [w \in Workers |-> IF w = Main THEN Booting ELSE Resting]
  /\ memory' = Nothing /\ merged' = Nothing
  /\ contested' = {} /\ failed' = {} /\ behind' = {} /\ untouched' = TRUE
  /\ UNCHANGED <<tables, requests>>

Request(w) ==
  \/ ReloadMetadata(w)
  \/ \E s \in Services :
       \/ \E r \in Regs : AddRemoteSchema(w, s, r)
       \/ RemoveRemoteSchema(w, s) \/ ReloadRemoteSchema(w, s) \/ Recovery(w, s)

Step(w) ==
  \/ Seed(w) \/ UpsertService(w) \/ GetService(w) \/ ListServices(w) \/ NextService(w)
  \/ FetchSucceeds(w) \/ FetchFails(w) \/ UpsertSchemaCache(w) \/ Load(w)
  \/ Unload(w) \/ DeleteSchemaCache(w) \/ DeleteService(w) \/ StoreFails(w)
  \/ List(w) \/ Update(w) \/ MergeFails(w)

Next ==
  \/ \E w \in Workers : Request(w) \/ Step(w)
  \/ Crash

(* A goroutine keeps running: SQLite and the introspection client answer   *)
(* or time out.                                                            *)
Fairness == \A w \in Workers : WF_vars(Step(w))

Spec == Init /\ [][Next]_vars /\ Fairness

-----------------------------------------------------------------------------
(* Properties.                                                             *)

(* What is served from memory is always backed by the tables a restart     *)
(* reads, at every step of every request and whichever step fails, unless  *)
(* two requests worked on that service at once.                            *)
Backed ==
  \A s \in Services \ contested : memory[s] # None => row[s] # None /\ cache[s] # None

Publishing(s) == \E w \in Workers : job[w].at = "load" /\ job[w].svc = s

(* The SDL in memory is the one persisted for it, except between the two   *)
(* writes of introspectAndCache.                                           *)
CacheMatches ==
  \A s \in Services \ contested :
    (memory[s] # None /\ ~Publishing(s)) => cache[s] = memory[s].sdl

(* After a boot, wherever the crash before it struck, exactly the enabled  *)
(* registrations of the services table are loaded, except those that could *)
(* not be introspected: one bad upstream costs only itself.                *)
BootRestoresEnabled ==
  (Serving /\ untouched) =>
    \A s \in Services :
      IF row[s] = None \/ row[s] \in Disabled \/ s \in failed
      THEN memory[s] = None
      ELSE memory[s] # None /\ memory[s].reg = row[s]

(* Requests that end in a refresh of the planner, or fail.                 *)
Attends(w) == job[w].at # "idle" /\ job[w].op # "recovery"

(* Once all requests have ended, in whatever order their steps came and    *)
(* whichever of them failed, the planner has of every service what the     *)
(* registry has: nothing removed is still planned for, nothing added is    *)
(* missing, no older SDL is in use.  refreshPlanner cannot say so of the   *)
(* services in behind: those whose entry a recovery reloaded or a failing  *)
(* Remove dropped since the last refresh; those whose entry changed        *)
(* between the List and the Update of another request's refresh; those the *)
(* planner keeps when nothing is loaded any more; and all of them after a  *)
(* merge that failed.                                                      *)
PlannerFollows ==
  (\A w \in Workers : ~Attends(w)) =>
    \A s \in Services \ behind : merged[s] = memory[s]

(* The process always comes up and serves again: no service that does not  *)
(* answer holds up the boot.                                               *)
ComesUp == []<>Serving
=============================================================================
