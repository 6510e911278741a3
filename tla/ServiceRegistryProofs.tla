----------------------- MODULE ServiceRegistryProofs -----------------------
(***************************************************************************)
(* What holds of the service registry for any services, registrations,     *)
(* SDLs, workers, requests and crashes.  A service that only one job works *)
(* on is moved by that job alone, so what the job has done for it so far   *)
(* is what the tables and the memory say of it.                            *)
(***************************************************************************)
EXTENDS ServiceRegistry, TLAPS

(* Steps at which a job has a service, a registration for it, an SDL.      *)
HasService == {"upsert", "get", "fetch", "cache", "load", "unload", "uncache", "unrow"}
HasReg == {"upsert", "fetch", "cache", "load"}
HasSDL == {"cache", "load"}
InLoop == {"next", "fetch", "cache", "load"}
BootSteps == {"idle", "seed", "scan", "list", "update"} \union InLoop
RecoverySteps == {"get", "fetch", "cache", "load"}

(* What a job holds at its step; only Main boots.                          *)
Shape(w, j) ==
  /\ j.at \in HasService => j.svc \in Services
  /\ j.at \in HasReg => j.reg \in Regs
  /\ j.at \in HasSDL => j.sdl \in Schemas
  /\ j.at \in {"upsert", "get"} => j.todo = Nothing
  /\ j.at = "seed" => j.op = "boot"
  /\ j.op = "boot" => j.at \in BootSteps
  /\ j.op = "boot" /\ j.at # "idle" => w = Main
  /\ j.op = "recovery" => j.at \in RecoverySteps
Shapes == \A w \in Workers : Shape(w, job[w])

(* The history names every service that two jobs work on now.              *)
Overlaps == \A s \in Services : Overlap(job, s) => s \in contested

(* What job j has ensured for s: r and c are the rows of s, m its entry.   *)
Ensures(j, s, r, c, m) ==
  /\ j.at \in HasSDL \union {"fetch"} /\ j.svc = s => r # None
  /\ j.at \in InLoop /\ j.todo[s] # None => r # None
  /\ j.at = "load" /\ j.svc = s => c = j.sdl
  /\ j.at \in {"uncache", "unrow"} /\ j.svc = s => m = None

EntryBacked(s) == memory[s] # None => row[s] # None /\ cache[s] # None
EntryPersisted(s) == (memory[s] # None /\ ~Publishing(s)) => cache[s] = memory[s].sdl
Ensured(s) ==
  /\ EntryBacked(s) /\ EntryPersisted(s)
  /\ \A w \in Workers : Ensures(job[w], s, row[s], cache[s], memory[s])
Uncontested == \A s \in Services \ contested : Ensured(s)

(* What the boot has still to load, and what it has done with the rest.    *)
Restored(s) ==
  IF row[s] = None \/ row[s] \in Disabled \/ s \in failed
  THEN memory[s] = None
  ELSE memory[s] # None /\ memory[s].reg = row[s]
Due(s, r) ==
  r = row[s] /\ row[s] \notin Disabled /\ memory[s] = None /\ s \notin failed
Booted(s) ==
  LET j == job[Main] IN
  IF j.at \in InLoop /\ j.todo[s] # None THEN Due(s, j.todo[s]) /\ (j.at # "next" => j.svc # s)
  ELSE IF j.at \in InLoop \ {"next"} /\ j.svc = s THEN Due(s, j.reg)
  ELSE IF j.at \in {"seed", "scan"} THEN memory[s] = None /\ s \notin failed
  ELSE Restored(s)
Boots ==
  /\ untouched => /\ \A w \in Workers \ {Main} : job[w].at = "idle"
                  /\ job[Main].at # "idle" => job[Main].op = "boot"
                  /\ \A s \in Services : Booted(s)
  /\ ~Serving => untouched

(* Job j will refresh the planner after what changed of s, or fail to.     *)
Owes(j, s) ==
  \/ j.at \in {"list", "update"}
  \/ j.at \in {"uncache", "unrow"} /\ j.svc = s
  \/ j.at \in InLoop /\ Loops(j)

(* A service that is not behind is in every list that is yet to be taken   *)
(* over as it is in memory; it is so in the planner, or somebody owes it.  *)
Accounted ==
  \A s \in Services \ behind :
    /\ \A w \in Workers : job[w].at = "update" => job[w].snap[s] = memory[s]
    /\ merged[s] = memory[s] \/ \E w \in Workers : Owes(job[w], s)

Inv == TypeOK /\ Shapes /\ Overlaps /\ Uncontested /\ Boots /\ Accounted

-----------------------------------------------------------------------------
(* Jobs that begin or end.                                                 *)
LEMMA FreshJobs ==
  /\ \A op \in Ops, at \in Steps : Fresh(op, at) \in Job
  /\ Resting \in Job /\ Refreshing \in Job /\ Booting \in Job
<1>1. \A op \in Ops, at \in Steps : Fresh(op, at) \in Job
  BY DEF Fresh, Job, Nothing
<1>2. Resting \in Job /\ Refreshing \in Job BY <1>1 DEF Resting, Refreshing, Ops, Steps
<1>3. Booting \in Job
  BY RegistryAssumption DEF Booting, Fresh, Job, Ops, Steps, Nothing
<1>q. QED BY <1>1, <1>2, <1>3

(* A step of w changes the job of w and remembers who overlaps.            *)
LEMMA GoesOn ==
  ASSUME job \in [Workers -> Job], contested \subseteq Services,
         NEW w \in Workers, NEW j \in Job, Goes(w, j)
  PROVE  /\ job' \in [Workers -> Job]
         /\ job'[w] = j /\ \A v \in Workers \ {w} : job'[v] = job[v]
         /\ contested \subseteq contested' /\ contested' \subseteq Services
         /\ Overlaps'
BY DEF Goes, Overlaps

(* What type correctness takes of a step: a job in shape, tables in type.  *)
LEMMA InShape ==
  ASSUME TypeOK, Shapes, NEW w \in Workers, NEW j \in Job, Goes(w, j), Shape(w, j),
         row' \in [Services -> Regs \union {None}],
         cache' \in [Services -> Schemas \union {None}],
         memory' \in [Services -> Entry \union {None}],
         merged' \in [Services -> Entry \union {None}],
         failed' \subseteq Services, behind' \subseteq Services, crashes' = crashes,
         requests' \in 0..MaxRequests, untouched' \in BOOLEAN
  PROVE  TypeOK' /\ Shapes' /\ Overlaps'
<1>1. /\ job' \in [Workers -> Job]
      /\ job'[w] = j /\ \A v \in Workers \ {w} : job'[v] = job[v]
      /\ contested \subseteq contested' /\ contested' \subseteq Services
      /\ Overlaps'
  BY GoesOn DEF TypeOK
<1>2. TypeOK' BY <1>1 DEF TypeOK
<1>3. Shapes' BY <1>1 DEF Shapes
<1>q. QED BY <1>1, <1>2, <1>3

(* Where a load, an error and a loop return to is in shape.                *)
LEMMA AfterShape ==
  ASSUME NEW w \in Workers, NEW j \in Job, Shape(w, j), j.at # "idle"
  PROVE  /\ AfterLoad(j) \in Job /\ Shape(w, AfterLoad(j))
         /\ AfterError(j) \in Job /\ Shape(w, AfterError(j))
         /\ Shape(w, Resting) /\ Shape(w, Refreshing)
<1>1. Shape(w, Resting) /\ Shape(w, Refreshing)
  BY DEF Shape, Resting, Refreshing, Fresh, HasService, HasReg, HasSDL, BootSteps, RecoverySteps
<1>2. AfterLoad(j) \in Job /\ Shape(w, AfterLoad(j))
  <2>1. CASE Loops(j)
    <3> DEFINE k == [j EXCEPT !.at = "next", !.svc = None, !.reg = None, !.sdl = None]
    <3>1. AfterLoad(j) = k BY <2>1 DEF AfterLoad
    <3>2. k \in Job BY DEF Job, Steps
    <3>3. k.at = "next" /\ k.op = j.op BY DEF Job
    <3>4. Shape(w, k)
      BY <2>1, <3>3 DEF Shape, HasService, HasReg, HasSDL, BootSteps, InLoop, RecoverySteps, Loops
    <3>q. QED BY <3>1, <3>2, <3>4
  <2>2. CASE ~Loops(j)
    <3>1. AfterLoad(j) \in {Resting, Refreshing} BY <2>2 DEF AfterLoad
    <3>q. QED BY <1>1, <3>1, FreshJobs
  <2>q. QED BY <2>1, <2>2
<1>3. AfterError(j) \in Job /\ Shape(w, AfterError(j))
  BY <1>1, <1>2, FreshJobs DEF AfterError
<1>q. QED BY <1>1, <1>2, <1>3

(* Every step of a job keeps the types and the shape of jobs.              *)
LEMMA StepShape ==
  ASSUME TypeOK, Shapes, NEW w \in Workers, Step(w)
  PROVE  TypeOK' /\ Shapes' /\ Overlaps'
<1> DEFINE j == job[w]
<1>0. j \in Job /\ Shape(w, j) /\ row \in [Services -> Regs \union {None}]
      /\ cache \in [Services -> Schemas \union {None}]
      /\ memory \in [Services -> Entry \union {None}]
      /\ merged \in [Services -> Entry \union {None}]
      /\ failed \subseteq Services /\ behind \subseteq Services /\ requests \in 0..MaxRequests /\ untouched \in BOOLEAN
  BY DEF TypeOK, Shapes
<1>1. CASE Seed(w)
  <2>1. CASE j.todo = Nothing
    <3>1. [j EXCEPT !.at = "scan"] \in Job /\ Shape(w, [j EXCEPT !.at = "scan"])
      BY <1>0, <1>1 DEF Seed, Job, Shape, Steps, HasService, HasReg, HasSDL, BootSteps, RecoverySteps
    <3>q. QED BY <1>0, <1>1, <2>1, <3>1, InShape DEF Seed, Moves, tables, fixed, counters
  <2>2. CASE j.todo # Nothing
    <3>1. PICK s \in Loaded(j.todo) : /\ row' = [row EXCEPT ![s] = j.todo[s]]
                                     /\ Goes(w, [j EXCEPT !.todo[s] = None])
      BY <1>1, <2>2 DEF Seed
    <3>2. s \in Services /\ j.todo[s] \in Regs BY <1>0, <3>1 DEF Loaded, Job
    <3>3. [j EXCEPT !.todo[s] = None] \in Job /\ Shape(w, [j EXCEPT !.todo[s] = None])
      <4> DEFINE k == [j EXCEPT !.todo[s] = None]
      <4>1. k \in Job BY <1>0, <3>2 DEF Job
      <4>2. k.at = "seed" /\ k.op = j.op BY <1>0, <1>1 DEF Seed, Job
      <4>3. Shape(w, k)
        BY <1>0, <1>1, <4>2 DEF Seed, Shape, HasService, HasReg, HasSDL, BootSteps, RecoverySteps
      <4>q. QED BY <4>1, <4>3
    <3>4. row' \in [Services -> Regs \union {None}] BY <1>0, <3>1, <3>2
    <3>q. QED BY <1>0, <1>1, <3>1, <3>3, <3>4, InShape DEF Seed, tables, fixed, counters
  <2>q. QED BY <2>1, <2>2
<1>2. CASE UpsertService(w)
  <2>1. [j EXCEPT !.at = "fetch"] \in Job /\ Shape(w, [j EXCEPT !.at = "fetch"])
    BY <1>0, <1>2 DEF UpsertService, Job, Shape, Steps, HasService, HasReg, HasSDL, BootSteps, InLoop, RecoverySteps
  <2>2. row' \in [Services -> Regs \union {None}]
    BY <1>0, <1>2 DEF UpsertService, Shape, HasService, HasReg
  <2>q. QED BY <1>0, <1>2, <2>1, <2>2, InShape DEF UpsertService, Moves, tables, fixed, counters
<1>3. CASE GetService(w)
  <2>1. CASE row[j.svc] = None
    BY <1>0, <1>3, <2>1, InShape, FreshJobs, AfterShape DEF GetService, Returns, tables, fixed, counters
  <2>2. CASE row[j.svc] # None
    <3>1. j.svc \in Services /\ row[j.svc] \in Regs
      BY <1>0, <1>3, <2>2 DEF GetService, Shape, HasService
    <3>2. [j EXCEPT !.reg = row[j.svc], !.at = "fetch"] \in Job
          /\ Shape(w, [j EXCEPT !.reg = row[j.svc], !.at = "fetch"])
      BY <1>0, <1>3, <3>1 DEF GetService, Job, Shape, Steps, HasService, HasReg, HasSDL, BootSteps, InLoop, RecoverySteps
    <3>q. QED BY <1>0, <1>3, <2>2, <3>2, InShape DEF GetService, tables, fixed, counters
  <2>q. QED BY <2>1, <2>2
<1>4. CASE ListServices(w)
  <2> DEFINE rows == [s \in Services |-> IF row[s] \in Disabled THEN None ELSE row[s]]
  <2>1. [j EXCEPT !.at = "next", !.todo = rows] \in Job
        /\ Shape(w, [j EXCEPT !.at = "next", !.todo = rows])
    BY <1>0, <1>4 DEF ListServices, Job, Shape, Steps, HasService, HasReg, HasSDL, BootSteps, InLoop, RecoverySteps
  <2>q. QED BY <1>0, <1>4, <2>1, InShape DEF ListServices, tables, fixed, counters
<1>5. CASE NextService(w)
  <2>1. CASE j.todo = Nothing
    <3>1. [j EXCEPT !.at = "list"] \in Job /\ Shape(w, [j EXCEPT !.at = "list"])
      BY <1>0, <1>5 DEF NextService, Job, Shape, Steps, HasService, HasReg, HasSDL, BootSteps, RecoverySteps
    <3>q. QED BY <1>0, <1>5, <2>1, <3>1, InShape, FreshJobs, AfterShape DEF NextService, tables, fixed, counters
  <2>2. CASE j.todo # Nothing
    <3>1. PICK s \in Loaded(j.todo) :
            Goes(w, [j EXCEPT !.at = "fetch", !.svc = s, !.reg = j.todo[s], !.todo[s] = None])
      BY <1>5, <2>2 DEF NextService
    <3> DEFINE k == [j EXCEPT !.at = "fetch", !.svc = s, !.reg = j.todo[s], !.todo[s] = None]
    <3>2. s \in Services /\ j.todo[s] \in Regs BY <1>0, <3>1 DEF Loaded, Job
    <3>3. k \in Job /\ Shape(w, k)
      BY <1>0, <1>5, <3>2 DEF NextService, Job, Shape, Steps, HasService, HasReg, HasSDL, BootSteps, InLoop, RecoverySteps
    <3>q. QED BY <1>0, <1>5, <3>1, <3>3, InShape DEF NextService, tables, fixed, counters
  <2>q. QED BY <2>1, <2>2
<1>6. CASE FetchSucceeds(w)
  <2>1. PICK v \in Schemas : Goes(w, [j EXCEPT !.sdl = v, !.at = "cache"])
    BY <1>6 DEF FetchSucceeds
  <2>2. [j EXCEPT !.sdl = v, !.at = "cache"] \in Job /\ Shape(w, [j EXCEPT !.sdl = v, !.at = "cache"])
    BY <1>0, <1>6 DEF FetchSucceeds, Job, Shape, Steps, HasService, HasReg, HasSDL, BootSteps, InLoop, RecoverySteps
  <2>q. QED BY <1>0, <1>6, <2>1, <2>2, InShape DEF FetchSucceeds, tables, fixed, counters
<1>7. ASSUME j.at \in {"fetch", "cache"}, NoteFailure(j)
      PROVE  failed' \subseteq Services
  BY <1>0, <1>7 DEF NoteFailure, Shape, HasService
<1>8. CASE FetchFails(w)
  BY <1>0, <1>7, <1>8, InShape, AfterShape DEF FetchFails, tables, fixed, counters
<1>9. CASE UpsertSchemaCache(w)
  <2>1. [j EXCEPT !.at = "load"] \in Job /\ Shape(w, [j EXCEPT !.at = "load"])
    BY <1>0, <1>9 DEF UpsertSchemaCache, Job, Shape, Steps, HasService, HasReg, HasSDL, BootSteps, InLoop, RecoverySteps
  <2>2. cache' \in [Services -> Schemas \union {None}]
    BY <1>0, <1>9 DEF UpsertSchemaCache, Shape, HasService, HasSDL
  <2>q. QED BY <1>0, <1>9, <2>1, <2>2, InShape DEF UpsertSchemaCache, Moves, fixed, counters
<1>10. CASE Load(w)
  <2>1. memory' \in [Services -> Entry \union {None}]
    BY <1>0, <1>10 DEF Load, Shape, HasService, HasReg, HasSDL, Entry
  <2>2. behind' \subseteq Services
    BY <1>0, <1>10 DEF Load, NoteChange, Shape, HasService
  <2>q. QED BY <1>0, <1>10, <2>1, <2>2, InShape, AfterShape DEF Load, tables, counters
<1>11. CASE Unload(w)
  <2>1. [j EXCEPT !.at = "uncache"] \in Job /\ Shape(w, [j EXCEPT !.at = "uncache"])
    BY <1>0, <1>11 DEF Unload, Job, Shape, Steps, HasService, HasReg, HasSDL, BootSteps, InLoop, RecoverySteps
  <2>2. memory' \in [Services -> Entry \union {None}] BY <1>0, <1>11 DEF Unload
  <2>3. behind' \subseteq Services BY <1>0, <1>11 DEF Unload, NoteChange, Shape, HasService
  <2>q. QED BY <1>0, <1>11, <2>1, <2>2, <2>3, InShape DEF Unload, Moves, tables, counters
<1>12. CASE DeleteSchemaCache(w)
  <2>1. [j EXCEPT !.at = "unrow"] \in Job /\ Shape(w, [j EXCEPT !.at = "unrow"])
    BY <1>0, <1>12 DEF DeleteSchemaCache, Job, Shape, Steps, HasService, HasReg, HasSDL, BootSteps, InLoop, RecoverySteps
  <2>2. cache' \in [Services -> Schemas \union {None}] BY <1>0, <1>12 DEF DeleteSchemaCache
  <2>q. QED BY <1>0, <1>12, <2>1, <2>2, InShape DEF DeleteSchemaCache, Moves, fixed, counters
<1>13. CASE DeleteService(w)
  <2>1. row' \in [Services -> Regs \union {None}] BY <1>0, <1>13 DEF DeleteService
  <2>q. QED BY <1>0, <1>13, <2>1, InShape, FreshJobs, AfterShape DEF DeleteService, fixed, counters
<1>14. CASE StoreFails(w)
  <2>1. CASE j.at = "cache" /\ Goes(w, AfterError(j)) /\ NoteFailure(j) /\ UNCHANGED behind
    BY <1>0, <1>7, <1>14, <2>1, InShape, AfterShape DEF StoreFails, tables, counters
  <2>2. CASE j.at # "idle" /\ Returns(w) /\ behind' \subseteq Services /\ UNCHANGED failed
    BY <1>0, <1>14, <2>2, InShape, FreshJobs, AfterShape DEF StoreFails, Returns, tables, counters
  <2>3. j.at \in {"uncache", "unrow"} => j.svc \in Services BY <1>0 DEF Shape, HasService
  <2>q. QED BY <1>0, <1>14, <2>1, <2>2, <2>3 DEF StoreFails
<1>15. CASE List(w)
  <2>0. behind' \subseteq Services
    BY <1>0, <1>15 DEF List, NoteListed, NoteNothingListed, Loaded
  <2>1. CASE Returns(w)
    BY <1>0, <1>15, <2>0, <2>1, InShape, FreshJobs, AfterShape DEF List, Returns, tables, counters
  <2>2. CASE Goes(w, [j EXCEPT !.snap = memory, !.at = "update"])
    <3>1. [j EXCEPT !.snap = memory, !.at = "update"] \in Job
          /\ Shape(w, [j EXCEPT !.snap = memory, !.at = "update"])
      BY <1>0, <1>15 DEF List, Job, Shape, Steps, HasService, HasReg, HasSDL, BootSteps, InLoop, RecoverySteps
    <3>q. QED BY <1>0, <1>15, <2>0, <2>2, <3>1, InShape DEF List, tables, counters
  <2>q. QED BY <1>15, <2>1, <2>2 DEF List
<1>16. CASE Update(w)
  <2>1. merged' \in [Services -> Entry \union {None}] BY <1>0, <1>16 DEF Update, Job
  <2>q. QED BY <1>0, <1>16, <2>1, InShape, FreshJobs, AfterShape DEF Update, Returns, tables, fixed, counters
<1>17. CASE MergeFails(w)
  BY <1>0, <1>17, InShape, FreshJobs, AfterShape DEF MergeFails, Returns, tables, counters
<1>q. QED
  BY <1>1, <1>2, <1>3, <1>4, <1>5, <1>6, <1>8, <1>9, <1>10, <1>11, <1>12, <1>13, <1>14,
     <1>15, <1>16, <1>17 DEF Step

(* A request begins in shape.                                              *)
LEMMA RequestShape ==
  ASSUME TypeOK, Shapes, NEW w \in Workers, NEW j \in Job, Shape(w, j), Starts(w, j)
  PROVE  TypeOK' /\ Shapes' /\ Overlaps'
<1>1. requests' \in 0..MaxRequests BY RegistryAssumption DEF TypeOK, Starts
<1>q. QED BY <1>1, InShape DEF TypeOK, Starts, tables

(* What a request starts with: it is no boot and has nothing to do yet.    *)
LEMMA RequestJob ==
  ASSUME NEW w \in Workers, Request(w)
  PROVE  \E j \in Job : /\ Starts(w, j) /\ Shape(w, j) /\ j.op # "boot"
                        /\ j.at \in {"upsert", "unload", "get", "scan"}
                        /\ j.todo = Nothing
<1>1. CASE ReloadMetadata(w)
  <2>1. Fresh("reloadAll", "scan") \in Job BY FreshJobs DEF Ops, Steps
  <2>q. QED BY <1>1, <2>1 DEF ReloadMetadata, Fresh, Shape, HasService, HasReg, HasSDL
<1>2. ASSUME NEW s \in Services, NEW r \in Regs, AddRemoteSchema(w, s, r)
      PROVE  \E j \in Job : /\ Starts(w, j) /\ Shape(w, j) /\ j.op # "boot"
                            /\ j.at \in {"upsert", "unload", "get", "scan"}
                            /\ j.todo = Nothing
  <2> DEFINE j == [Fresh("add", "upsert") EXCEPT !.svc = s, !.reg = r]
  <2>1. j \in Job
    <3>1. Fresh("add", "upsert") \in Job BY FreshJobs DEF Ops, Steps
    <3>q. QED BY <3>1 DEF Job
  <2>2. j.at = "upsert" /\ j.op = "add" /\ j.svc = s /\ j.reg = r /\ j.todo = Nothing
    BY DEF Fresh
  <2>3. Shape(w, j) BY <2>2 DEF Shape, HasService, HasReg, HasSDL
  <2>4. Starts(w, j) BY <1>2 DEF AddRemoteSchema
  <2> HIDE DEF j
  <2>q. QED BY <2>1, <2>2, <2>3, <2>4
<1>3. ASSUME NEW s \in Services, NEW op \in {"remove", "reload", "recovery"},
             NEW at \in {"unload", "get"}, op = "recovery" => at = "get",
             Starts(w, [Fresh(op, at) EXCEPT !.svc = s])
      PROVE  \E j \in Job : /\ Starts(w, j) /\ Shape(w, j) /\ j.op # "boot"
                            /\ j.at \in {"upsert", "unload", "get", "scan"}
                            /\ j.todo = Nothing
  <2> DEFINE j == [Fresh(op, at) EXCEPT !.svc = s]
  <2>1. j \in Job
    <3>1. Fresh(op, at) \in Job BY FreshJobs DEF Ops, Steps
    <3>q. QED BY <3>1 DEF Job
  <2>2. j.at = at /\ j.op = op /\ j.svc = s /\ j.todo = Nothing BY DEF Fresh
  <2>3. Shape(w, j) BY <1>3, <2>2 DEF Shape, HasService, HasReg, HasSDL, RecoverySteps
  <2>4. Starts(w, j) BY <1>3
  <2> HIDE DEF j
  <2>q. QED BY <2>1, <2>2, <2>3, <2>4
<1>q. QED
  BY <1>1, <1>2, <1>3 DEF Request, RemoveRemoteSchema, ReloadRemoteSchema, Recovery

-----------------------------------------------------------------------------
(* A job that does not work on a service has ensured nothing for it.       *)
LEMMA IdleEnsures ==
  ASSUME NEW s \in Services, NEW j \in Job, ~WorksOn(j, s), NEW r, NEW c, NEW m
  PROVE  Ensures(j, s, r, c, m)
BY DEF WorksOn, Ensures, InLoop, HasSDL

(* On an uncontested service a job works alone.                            *)
LEMMA WorksAlone ==
  ASSUME Overlaps, NEW s \in Services \ contested, NEW w \in Workers, WorksOn(job[w], s),
         NEW v \in Workers \ {w}
  PROVE  ~WorksOn(job[v], s)
BY DEF Overlaps, Overlap

(* A step that leaves tables and memory alone, unless it publishes.        *)
LEMMA QuietStep ==
  ASSUME TypeOK, Uncontested, NEW w \in Workers, NEW j \in Job, Goes(w, j),
         UNCHANGED <<row, cache, memory>>, job[w].at # "load",
         \A s \in Services \ contested : Ensures(j, s, row[s], cache[s], memory[s])
  PROVE  Uncontested'
<1>1. /\ job'[w] = j /\ \A v \in Workers \ {w} : job'[v] = job[v]
      /\ contested \subseteq contested'
  BY GoesOn DEF TypeOK
<1>2. ASSUME NEW s \in Services \ contested' PROVE Ensured(s)'
  <2>1. s \in Services \ contested /\ Ensured(s) BY <1>1, <1>2 DEF Uncontested
  <2>2. EntryBacked(s)' BY <2>1 DEF Ensured, EntryBacked
  <2>3. Publishing(s) => Publishing(s)' BY <1>1 DEF Publishing
  <2>4. EntryPersisted(s)' BY <2>1, <2>3 DEF Ensured, EntryPersisted
  <2>5. ASSUME NEW v \in Workers PROVE Ensures(job'[v], s, row[s], cache[s], memory[s])
    BY <1>1, <2>1 DEF Ensured
  <2>q. QED BY <2>2, <2>4, <2>5 DEF Ensured
<1>q. QED BY <1>2 DEF Uncontested

(* A step on one service, which the job works on.                          *)
LEMMA OwnStep ==
  ASSUME TypeOK, Overlaps, Uncontested, NEW w \in Workers, NEW j \in Job, Goes(w, j),
         NEW x \in Services, WorksOn(job[w], x), job[w].at = "load" => job[w].svc = x,
         \A s \in Services \ {x} :
           row'[s] = row[s] /\ cache'[s] = cache[s] /\ memory'[s] = memory[s],
         \A s \in Services \ (contested \union {x}) :
           Ensures(j, s, row[s], cache[s], memory[s]),
         x \notin contested =>
           /\ memory'[x] # None => row'[x] # None /\ cache'[x] # None
           /\ (memory'[x] # None /\ ~(j.at = "load" /\ j.svc = x)) => cache'[x] = memory'[x].sdl
           /\ Ensures(j, x, row'[x], cache'[x], memory'[x])
  PROVE  Uncontested'
<1>1. /\ job'[w] = j /\ \A v \in Workers \ {w} : job'[v] = job[v]
      /\ contested \subseteq contested'
  BY GoesOn DEF TypeOK
<1>2. ASSUME NEW s \in Services \ contested' PROVE Ensured(s)'
  <2>1. s \in Services \ contested /\ Ensured(s) BY <1>1, <1>2 DEF Uncontested
  <2>2. CASE s = x
    <3>1. EntryBacked(s)' BY <2>1, <2>2 DEF EntryBacked
    <3>2. j.at = "load" /\ j.svc = x => Publishing(s)' BY <1>1, <2>2 DEF Publishing
    <3>3. EntryPersisted(s)' BY <2>1, <2>2, <3>2 DEF EntryPersisted
    <3>4. ASSUME NEW v \in Workers PROVE Ensures(job'[v], s, row'[s], cache'[s], memory'[s])
      <4>1. CASE v = w BY <1>1, <2>1, <2>2, <4>1
      <4>2. CASE v # w
        <5>1. ~WorksOn(job[v], s) BY <2>1, <2>2, <4>2, WorksAlone
        <5>2. job'[v] = job[v] /\ job[v] \in Job BY <1>1, <4>2 DEF TypeOK
        <5>q. QED BY <5>1, <5>2, IdleEnsures
      <4>q. QED BY <4>1, <4>2
    <3>q. QED BY <3>1, <3>3, <3>4 DEF Ensured
  <2>3. CASE s # x
    <3>0. row'[s] = row[s] /\ cache'[s] = cache[s] /\ memory'[s] = memory[s] BY <2>3
    <3>1. EntryBacked(s)' BY <2>1, <3>0 DEF Ensured, EntryBacked
    <3>2. Publishing(s) => Publishing(s)' BY <1>1, <2>3 DEF Publishing
    <3>3. EntryPersisted(s)' BY <2>1, <3>0, <3>2 DEF Ensured, EntryPersisted
    <3>4. ASSUME NEW v \in Workers PROVE Ensures(job'[v], s, row'[s], cache'[s], memory'[s])
      BY <1>1, <2>1, <2>3, <3>0 DEF Ensured
    <3>q. QED BY <3>1, <3>3, <3>4 DEF Ensured
  <2>q. QED BY <2>2, <2>3
<1>q. QED BY <1>2 DEF Uncontested

(* Only the job that works on an uncontested service publishes it.         *)
LEMMA PublishesAlone ==
  ASSUME Overlaps, NEW x \in Services \ contested, NEW w \in Workers, WorksOn(job[w], x),
         Publishing(x)
  PROVE  job[w].at = "load" /\ job[w].svc = x
<1>1. PICK v \in Workers : job[v].at = "load" /\ job[v].svc = x BY DEF Publishing
<1>2. WorksOn(job[v], x) BY <1>1 DEF WorksOn
<1>q. QED BY <1>1, <1>2, WorksAlone

(* What is ensured when a load ends and when a job is over.                *)
LEMMA AfterEnsures ==
  ASSUME NEW s \in Services, NEW j \in Job, j.at \in HasSDL \union {"fetch"},
         NEW r, NEW c, NEW m, Ensures(j, s, r, c, m), NEW n
  PROVE  Ensures(AfterLoad(j), s, r, c, n) /\ Ensures(AfterError(j), s, r, c, n)
<1>1. Ensures(Resting, s, r, c, n) /\ Ensures(Refreshing, s, r, c, n)
  BY DEF Resting, Refreshing, Fresh, Ensures, InLoop, HasSDL
<1>2. Ensures(AfterLoad(j), s, r, c, n)
  <2>1. CASE Loops(j)
    <3> DEFINE k == [j EXCEPT !.at = "next", !.svc = None, !.reg = None, !.sdl = None]
    <3>1. AfterLoad(j) = k BY <2>1 DEF AfterLoad
    <3>2. k.at = "next" /\ k.todo = j.todo BY DEF Job
    <3>3. j.todo[s] # None => r # None BY DEF Ensures, InLoop, HasSDL
    <3> HIDE DEF k
    <3>4. Ensures(k, s, r, c, n) BY <3>2, <3>3 DEF Ensures, HasSDL
    <3>q. QED BY <3>1, <3>4
  <2>2. CASE ~Loops(j)
    <3>1. AfterLoad(j) \in {Resting, Refreshing} BY <2>2 DEF AfterLoad
    <3>q. QED BY <1>1, <3>1
  <2>q. QED BY <2>1, <2>2
<1>3. AfterError(j) \in {AfterLoad(j), Resting} BY DEF AfterError
<1>q. QED BY <1>1, <1>2, <1>3

(* A job that is over, or about to refresh the planner, ensures nothing.   *)
LEMMA OverEnsures ==
  ASSUME NEW s, NEW r, NEW c, NEW m
  PROVE  Ensures(Resting, s, r, c, m) /\ Ensures(Refreshing, s, r, c, m)
BY DEF Resting, Refreshing, Fresh, Ensures, InLoop, HasSDL

(* The steps of a job on the tables and the memory: each leaves what the   *)
(* next ones rely on.                                                      *)
LEMMA StepEnsures ==
  ASSUME TypeOK, Shapes, Overlaps, Uncontested, NEW w \in Workers, Step(w)
  PROVE  Uncontested'
<1> DEFINE j == job[w]
<1>0. /\ j \in Job /\ Shape(w, j) /\ row \in [Services -> Regs \union {None}]
      /\ cache \in [Services -> Schemas \union {None}]
      /\ memory \in [Services -> Entry \union {None}]
  BY DEF TypeOK, Shapes
<1>e. \A s \in Services \ contested :
        /\ Ensures(j, s, row[s], cache[s], memory[s])
        /\ memory[s] # None => row[s] # None /\ cache[s] # None
        /\ (memory[s] # None /\ ~Publishing(s)) => cache[s] = memory[s].sdl
  BY DEF Uncontested, Ensured, EntryBacked, EntryPersisted
<1>a. \A x \in Services : j.at \in HasService /\ j.svc = x => WorksOn(j, x)
  BY DEF WorksOn, HasService
<1>p. ASSUME NEW x \in Services \ contested, WorksOn(j, x), j.at # "load", memory[x] # None
      PROVE  cache[x] = memory[x].sdl /\ row[x] # None /\ cache[x] # None
  BY <1>e, <1>p, PublishesAlone
<1>1. CASE Seed(w)
  <2>0. j.at = "seed" /\ UNCHANGED <<cache, memory>> BY <1>1 DEF Seed
  <2>1. CASE j.todo = Nothing
    <3>1. Goes(w, [j EXCEPT !.at = "scan"]) /\ row' = row BY <1>1, <2>1 DEF Seed, Moves
    <3>2. [j EXCEPT !.at = "scan"] \in Job BY <1>0 DEF Job, Steps
    <3>3. \A s \in Services : Ensures([j EXCEPT !.at = "scan"], s, row[s], cache[s], memory[s])
      BY <1>0 DEF Ensures, Job, InLoop, HasSDL
    <3>q. QED BY <2>0, <3>1, <3>2, <3>3, QuietStep
  <2>2. CASE j.todo # Nothing
    <3>1. PICK s \in Loaded(j.todo) : /\ row' = [row EXCEPT ![s] = j.todo[s]]
                                     /\ Goes(w, [j EXCEPT !.todo[s] = None])
      BY <1>1, <2>2 DEF Seed
    <3> DEFINE k == [j EXCEPT !.todo[s] = None]
    <3>2. s \in Services /\ j.todo[s] \in Regs /\ j.todo[s] # None /\ WorksOn(j, s)
      BY <1>0, <2>0, <3>1 DEF Loaded, Job, WorksOn
    <3>3. k \in Job /\ k.at = "seed" BY <1>0, <2>0, <3>2 DEF Job
    <3>4. \A x \in Services : \A r, c, m : Ensures(k, x, r, c, m)
      BY <3>3 DEF Ensures, InLoop, HasSDL
    <3>5. row'[s] # None /\ \A x \in Services \ {s} : row'[x] = row[x]
      BY <1>0, <3>1, <3>2
    <3>6. s \notin contested /\ memory'[s] # None => cache'[s] # None /\ cache'[s] = memory'[s].sdl
      BY <1>p, <2>0, <3>2
    <3> HIDE DEF k
    <3>7. Goes(w, k) BY <3>1 DEF k
    <3>q. QED BY <2>0, <3>2, <3>3, <3>4, <3>5, <3>6, <3>7, OwnStep
  <2>q. QED BY <2>1, <2>2
<1>2. CASE UpsertService(w)
  <2> DEFINE x == j.svc
             k == [j EXCEPT !.at = "fetch"]
  <2>0. /\ j.at = "upsert" /\ UNCHANGED <<cache, memory>> /\ Goes(w, k)
        /\ row' = [row EXCEPT ![x] = j.reg]
    BY <1>2 DEF UpsertService, Moves
  <2>1. x \in Services /\ j.reg # None /\ WorksOn(j, x) /\ j.todo = Nothing
    BY <1>0, <1>a, <2>0, RegistryAssumption DEF Shape, HasService, HasReg
  <2>2. k \in Job /\ k.at = "fetch" /\ k.svc = x /\ k.todo = Nothing
    BY <1>0, <2>1 DEF Job, Steps
  <2>3. row'[x] # None /\ \A s \in Services \ {x} : row'[s] = row[s] BY <1>0, <2>0, <2>1
  <2>4. x \notin contested /\ memory'[x] # None => cache'[x] # None /\ cache'[x] = memory'[x].sdl
    BY <1>p, <2>0, <2>1
  <2>5. \A s \in Services \ {x} : \A r, c, m : Ensures(k, s, r, c, m)
    BY <2>2 DEF Ensures, InLoop, HasSDL, Nothing
  <2>6. \A c, m : Ensures(k, x, row'[x], c, m) BY <2>2, <2>3 DEF Ensures, InLoop, HasSDL
  <2> HIDE DEF k, x
  <2>q. QED BY <2>0, <2>1, <2>2, <2>3, <2>4, <2>5, <2>6, OwnStep
<1>3. CASE GetService(w)
  <2>0. j.at = "get" /\ UNCHANGED <<row, cache, memory>> BY <1>3 DEF GetService, tables
  <2>1. CASE row[j.svc] = None
    BY <1>3, <2>0, <2>1, QuietStep, FreshJobs, OverEnsures DEF GetService, Returns
  <2>2. CASE row[j.svc] # None
    <3> DEFINE k == [j EXCEPT !.reg = row[j.svc], !.at = "fetch"]
    <3>1. j.svc \in Services /\ row[j.svc] \in Regs /\ j.todo = Nothing
      BY <1>0, <2>0, <2>2 DEF Shape, HasService
    <3>2. k \in Job /\ k.at = "fetch" /\ k.svc = j.svc /\ k.todo = Nothing
      BY <1>0, <3>1 DEF Job, Steps
    <3>3. Goes(w, k) BY <1>3, <2>2 DEF GetService
    <3> HIDE DEF k
    <3>4. \A s \in Services : Ensures(k, s, row[s], cache[s], memory[s])
      BY <2>2, <3>1, <3>2 DEF Ensures, InLoop, HasSDL, Nothing
    <3>q. QED BY <2>0, <3>2, <3>3, <3>4, QuietStep
  <2>q. QED BY <2>1, <2>2
<1>4. CASE ListServices(w)
  <2> DEFINE rows == [s \in Services |-> IF row[s] \in Disabled THEN None ELSE row[s]]
             k == [j EXCEPT !.at = "next", !.todo = rows]
  <2>0. j.at = "scan" /\ UNCHANGED <<row, cache, memory>> /\ Goes(w, k)
    BY <1>4 DEF ListServices, tables
  <2>1. k \in Job /\ k.at = "next" /\ k.todo = rows BY <1>0 DEF Job, Steps
  <2>2. \A s \in Services : rows[s] # None => row[s] # None OBVIOUS
  <2> HIDE DEF k, rows
  <2>3. \A s \in Services : Ensures(k, s, row[s], cache[s], memory[s])
    BY <2>1, <2>2 DEF Ensures, InLoop, HasSDL
  <2>q. QED BY <2>0, <2>1, <2>3, QuietStep
<1>5. CASE NextService(w)
  <2>0. j.at = "next" /\ UNCHANGED <<row, cache, memory>> BY <1>5 DEF NextService, tables
  <2>1. CASE j.todo = Nothing
    <3> DEFINE k == [j EXCEPT !.at = "list"]
    <3>1. k \in Job /\ k.at = "list" BY <1>0 DEF Job, Steps
    <3>2. Goes(w, k) \/ Goes(w, Refreshing) BY <1>5, <2>1 DEF NextService
    <3> HIDE DEF k
    <3>3. \A s \in Services : Ensures(k, s, row[s], cache[s], memory[s])
      BY <3>1 DEF Ensures, InLoop, HasSDL
    <3>4. CASE Goes(w, k) BY <2>0, <3>1, <3>3, <3>4, QuietStep
    <3>5. CASE Goes(w, Refreshing) BY <2>0, <3>5, QuietStep, FreshJobs, OverEnsures
    <3>q. QED BY <3>2, <3>4, <3>5
  <2>2. CASE j.todo # Nothing
    <3>1. PICK s \in Loaded(j.todo) :
            Goes(w, [j EXCEPT !.at = "fetch", !.svc = s, !.reg = j.todo[s], !.todo[s] = None])
      BY <1>5, <2>2 DEF NextService
    <3> DEFINE k == [j EXCEPT !.at = "fetch", !.svc = s, !.reg = j.todo[s], !.todo[s] = None]
    <3>2. s \in Services /\ j.todo[s] # None /\ j.todo[s] \in Regs BY <1>0, <3>1 DEF Loaded, Job
    <3>3. k \in Job /\ k.at = "fetch" /\ k.svc = s
          /\ \A x \in Services : k.todo[x] # None => j.todo[x] # None
      BY <1>0, <3>2 DEF Job, Steps
    <3>4. Goes(w, k) BY <3>1
    <3> HIDE DEF k
    <3>5. \A x \in Services \ contested : Ensures(k, x, row[x], cache[x], memory[x])
      BY <1>e, <2>0, <3>2, <3>3 DEF Ensures, InLoop, HasSDL
    <3>q. QED BY <2>0, <3>3, <3>4, <3>5, QuietStep
  <2>q. QED BY <2>1, <2>2
<1>6. CASE FetchSucceeds(w)
  <2>1. PICK v \in Schemas : Goes(w, [j EXCEPT !.sdl = v, !.at = "cache"])
    BY <1>6 DEF FetchSucceeds
  <2> DEFINE k == [j EXCEPT !.sdl = v, !.at = "cache"]
  <2>2. j.at = "fetch" /\ UNCHANGED <<row, cache, memory>> BY <1>6 DEF FetchSucceeds, tables
  <2>3. k \in Job /\ k.at = "cache" /\ k.svc = j.svc /\ k.todo = j.todo
    BY <1>0 DEF Job, Steps
  <2>4. Goes(w, k) BY <2>1
  <2> HIDE DEF k
  <2>5. \A x \in Services \ contested : Ensures(k, x, row[x], cache[x], memory[x])
    BY <1>e, <2>2, <2>3 DEF Ensures, InLoop, HasSDL
  <2>q. QED BY <2>2, <2>3, <2>4, <2>5, QuietStep
<1>7. ASSUME j.at \in {"fetch", "cache"}, Goes(w, AfterError(j)), UNCHANGED <<row, cache, memory>>
      PROVE  Uncontested'
  <2>1. AfterError(j) \in Job BY <1>0, <1>7, AfterShape
  <2>2. \A x \in Services \ contested :
          Ensures(AfterError(j), x, row[x], cache[x], memory[x])
    BY <1>0, <1>e, <1>7, AfterEnsures DEF HasSDL
  <2>q. QED BY <1>7, <2>1, <2>2, QuietStep
<1>8. CASE FetchFails(w) BY <1>7, <1>8 DEF FetchFails, tables
<1>9. CASE UpsertSchemaCache(w)
  <2> DEFINE x == j.svc
             k == [j EXCEPT !.at = "load"]
  <2>0. /\ j.at = "cache" /\ UNCHANGED <<row, memory>> /\ Goes(w, k)
        /\ cache' = [cache EXCEPT ![x] = j.sdl]
    BY <1>9 DEF UpsertSchemaCache, Moves
  <2>1. x \in Services /\ j.sdl # None /\ WorksOn(j, x)
    BY <1>0, <1>a, <2>0, RegistryAssumption DEF Shape, HasService, HasSDL
  <2>2. k \in Job /\ k.at = "load" /\ k.svc = x /\ k.todo = j.todo /\ k.sdl = j.sdl
    BY <1>0 DEF Job, Steps
  <2>3. cache'[x] = j.sdl /\ \A s \in Services \ {x} : cache'[s] = cache[s] BY <1>0, <2>0, <2>1
  <2>4. x \notin contested => row'[x] # None
    BY <1>e, <2>0, <2>1 DEF Ensures, HasSDL
  <2> HIDE DEF k
  <2>5. \A s \in Services \ (contested \union {x}) : Ensures(k, s, row[s], cache[s], memory[s])
    BY <1>e, <2>0, <2>2 DEF Ensures, InLoop, HasSDL
  <2>6. x \notin contested => Ensures(k, x, row'[x], cache'[x], memory'[x])
    BY <2>2, <2>3, <2>4 DEF Ensures, InLoop, HasSDL
  <2> HIDE DEF x
  <2>q. QED BY <2>0, <2>1, <2>2, <2>3, <2>4, <2>5, <2>6, OwnStep
<1>10. CASE Load(w)
  <2> DEFINE x == j.svc
             k == AfterLoad(j)
  <2>0. /\ j.at = "load" /\ UNCHANGED <<row, cache>> /\ Goes(w, k)
        /\ memory' = [memory EXCEPT ![x] = [reg |-> j.reg, sdl |-> j.sdl]]
    BY <1>10 DEF Load, tables
  <2>1. x \in Services /\ j.sdl # None /\ WorksOn(j, x)
    BY <1>0, <1>a, <2>0, RegistryAssumption DEF Shape, HasService, HasSDL
  <2>2. k \in Job BY <1>0, <2>0, AfterShape
  <2>3. memory'[x].sdl = j.sdl /\ \A s \in Services \ {x} : memory'[s] = memory[s]
    BY <1>0, <2>0, <2>1
  <2>4. x \notin contested => row'[x] # None /\ cache'[x] = j.sdl
    BY <1>e, <2>0, <2>1 DEF Ensures, HasSDL
  <2>5. \A s \in Services \ contested : Ensures(k, s, row[s], cache[s], memory'[s])
    BY <1>0, <1>e, <2>0, AfterEnsures DEF HasSDL
  <2> HIDE DEF k, x
  <2>6. j.svc = x BY DEF x
  <2>7. \A s \in Services \ (contested \union {x}) : Ensures(k, s, row[s], cache[s], memory[s])
    BY <2>3, <2>5
  <2>8. x \notin contested => Ensures(k, x, row'[x], cache'[x], memory'[x])
    BY <2>0, <2>1, <2>5
  <2>q. QED BY <2>0, <2>1, <2>2, <2>3, <2>4, <2>6, <2>7, <2>8, OwnStep
<1>11. CASE Unload(w)
  <2> DEFINE x == j.svc
             k == [j EXCEPT !.at = "uncache"]
  <2>0. /\ j.at = "unload" /\ UNCHANGED <<row, cache>> /\ Goes(w, k)
        /\ memory' = [memory EXCEPT ![x] = None]
    BY <1>11 DEF Unload, Moves, tables
  <2>1. x \in Services /\ WorksOn(j, x) BY <1>0, <1>a, <2>0 DEF Shape, HasService
  <2>2. k \in Job /\ k.at = "uncache" /\ k.svc = x BY <1>0 DEF Job, Steps
  <2>3. memory'[x] = None /\ \A s \in Services \ {x} : memory'[s] = memory[s]
    BY <1>0, <2>0, <2>1
  <2> HIDE DEF k, x
  <2>4. \A s \in Services \ {x} : \A r, c, m : Ensures(k, s, r, c, m)
    BY <2>2 DEF Ensures, InLoop, HasSDL
  <2>5. \A r, c : Ensures(k, x, r, c, None) BY <2>2 DEF Ensures, InLoop, HasSDL
  <2>q. QED BY <2>0, <2>1, <2>2, <2>3, <2>4, <2>5, OwnStep
<1>12. CASE DeleteSchemaCache(w)
  <2> DEFINE x == j.svc
             k == [j EXCEPT !.at = "unrow"]
  <2>0. /\ j.at = "uncache" /\ UNCHANGED <<row, memory>> /\ Goes(w, k)
        /\ cache' = [cache EXCEPT ![x] = None]
    BY <1>12 DEF DeleteSchemaCache, Moves
  <2>1. x \in Services /\ WorksOn(j, x) BY <1>0, <1>a, <2>0 DEF Shape, HasService
  <2>2. k \in Job /\ k.at = "unrow" /\ k.svc = x BY <1>0 DEF Job, Steps
  <2>3. \A s \in Services \ {x} : cache'[s] = cache[s] BY <1>0, <2>0, <2>1
  <2>6. x \notin contested => memory[x] = None BY <1>e, <2>0, <2>1 DEF Ensures
  <2> HIDE DEF k, x
  <2>4. \A s \in Services \ {x} : \A r, c, m : Ensures(k, s, r, c, m)
    BY <2>2 DEF Ensures, InLoop, HasSDL
  <2>5. \A r, c : Ensures(k, x, r, c, None) BY <2>2 DEF Ensures, InLoop, HasSDL
  <2>q. QED BY <2>0, <2>1, <2>2, <2>3, <2>4, <2>5, <2>6, OwnStep
<1>13. CASE DeleteService(w)
  <2> DEFINE x == j.svc
  <2>0. /\ j.at = "unrow" /\ UNCHANGED <<cache, memory>> /\ Goes(w, Refreshing)
        /\ row' = [row EXCEPT ![x] = None]
    BY <1>13 DEF DeleteService
  <2>1. x \in Services /\ WorksOn(j, x) BY <1>0, <1>a, <2>0 DEF Shape, HasService
  <2>3. \A s \in Services \ {x} : row'[s] = row[s] BY <1>0, <2>0, <2>1
  <2>6. x \notin contested => memory[x] = None BY <1>e, <2>0, <2>1 DEF Ensures
  <2> HIDE DEF x
  <2>q. QED BY <2>0, <2>1, <2>3, <2>6, FreshJobs, OverEnsures, OwnStep
<1>14. CASE StoreFails(w)
  <2>0. UNCHANGED <<row, cache, memory>> BY <1>14 DEF StoreFails, tables
  <2>1. CASE j.at = "cache" /\ Goes(w, AfterError(j)) BY <1>7, <2>0, <2>1
  <2>2. CASE j.at \in {"upsert", "get", "scan", "uncache", "unrow"} /\ Returns(w)
    BY <2>0, <2>2, QuietStep, FreshJobs, OverEnsures DEF Returns
  <2>q. QED BY <1>14, <2>1, <2>2 DEF StoreFails
<1>15. CASE List(w)
  <2>0. j.at = "list" /\ UNCHANGED <<row, cache, memory>> BY <1>15 DEF List, tables
  <2>1. CASE Returns(w) BY <2>0, <2>1, QuietStep, FreshJobs, OverEnsures DEF Returns
  <2>2. CASE Goes(w, [j EXCEPT !.snap = memory, !.at = "update"])
    <3> DEFINE k == [j EXCEPT !.snap = memory, !.at = "update"]
    <3>1. k \in Job /\ k.at = "update" BY <1>0 DEF Job, Steps
    <3>2. Goes(w, k) BY <2>2
    <3> HIDE DEF k
    <3>3. \A s \in Services : Ensures(k, s, row[s], cache[s], memory[s])
      BY <3>1 DEF Ensures, InLoop, HasSDL
    <3>q. QED BY <2>0, <3>1, <3>2, <3>3, QuietStep
  <2>q. QED BY <1>15, <2>1, <2>2 DEF List
<1>16. CASE Update(w) \/ MergeFails(w)
  <2>0. j.at = "update" /\ UNCHANGED <<row, cache, memory>> /\ Returns(w)
    BY <1>16 DEF Update, MergeFails, tables
  <2>q. QED BY <2>0, QuietStep, FreshJobs, OverEnsures DEF Returns
<1>q. QED
  BY <1>1, <1>2, <1>3, <1>4, <1>5, <1>6, <1>8, <1>9, <1>10, <1>11, <1>12, <1>13, <1>14,
     <1>15, <1>16 DEF Step

(* A request that begins has ensured nothing yet.                          *)
LEMMA RequestEnsures ==
  ASSUME TypeOK, Uncontested, NEW w \in Workers, NEW j \in Job, Starts(w, j),
         j.at \in {"upsert", "unload", "get", "scan"}
  PROVE  Uncontested'
<1>1. \A s \in Services : Ensures(j, s, row[s], cache[s], memory[s])
  BY DEF Ensures, InLoop, HasSDL
<1>q. QED BY <1>1, QuietStep DEF Starts, tables

-----------------------------------------------------------------------------
(* What every step of a job has in common: it is that job's alone, and     *)
(* stays the same request or ends it.                                      *)
LEMMA StepJob ==
  ASSUME TypeOK, Shapes, NEW w \in Workers, Step(w)
  PROVE  /\ \A v \in Workers \ {w} : job'[v] = job[v]
         /\ job[w].at # "idle"
         /\ \/ job'[w].op = job[w].op \/ job'[w].at = "idle"
            \/ (job'[w].op = "reload" /\ job[w].op # "boot")
         /\ UNCHANGED counters
<1> DEFINE j == job[w]
           Common == /\ \A v \in Workers \ {w} : job'[v] = job[v]
                     /\ j.at # "idle"
                     /\ \/ job'[w].op = j.op \/ job'[w].at = "idle"
                        \/ (job'[w].op = "reload" /\ j.op # "boot")
                                 /\ UNCHANGED counters
<1>0. j \in Job /\ job \in [Workers -> Job] BY DEF TypeOK
<1>1. ASSUME NEW k, k.op = j.op \/ k.at = "idle" \/ (k.op = "reload" /\ j.op # "boot"),
             Goes(w, k), j.at # "idle", UNCHANGED counters
      PROVE  Common
  BY <1>0, <1>1 DEF Goes
<1>r. Resting.at = "idle" /\ Refreshing.op = "reload" /\ Refreshing.at = "list"
  BY DEF Resting, Refreshing, Fresh
<1>a. ASSUME j.at \in {"fetch", "cache", "load"}, UNCHANGED counters,
             Goes(w, AfterLoad(j)) \/ Goes(w, AfterError(j))
      PROVE  Common
  <2> DEFINE k == [j EXCEPT !.at = "next", !.svc = None, !.reg = None, !.sdl = None]
  <2>1. /\ AfterLoad(j) \in {k, Resting} \/ (AfterLoad(j) = Refreshing /\ j.op # "boot")
        /\ AfterError(j) \in {k, Resting}
    BY DEF AfterLoad, AfterError, Loops
  <2>2. k.op = j.op /\ k.at = "next" BY <1>0 DEF Job
  <2> HIDE DEF k
  <2>3. CASE Goes(w, k) BY <1>1, <1>a, <2>2, <2>3
  <2>4. CASE Goes(w, Resting) BY <1>1, <1>a, <1>r, <2>4
  <2>5. CASE Goes(w, Refreshing) /\ j.op # "boot" BY <1>1, <1>a, <1>r, <2>5
  <2>q. QED BY <1>a, <2>1, <2>3, <2>4, <2>5
<1>m. ASSUME NEW at \in Steps, Moves(w, at), j.at # "idle", UNCHANGED counters
      PROVE  Common
  <2>1. [j EXCEPT !.at = at].op = j.op /\ [j EXCEPT !.at = at].at = at BY <1>0 DEF Job
  <2>q. QED BY <1>1, <1>m, <2>1 DEF Moves
<1>2. CASE Seed(w)
  <2>1. CASE j.todo = Nothing BY <1>2, <1>m, <2>1 DEF Seed, Steps, fixed
  <2>2. CASE j.todo # Nothing
    <3>1. PICK s \in Loaded(j.todo) : Goes(w, [j EXCEPT !.todo[s] = None])
      BY <1>2, <2>2 DEF Seed
    <3>2. /\ [j EXCEPT !.todo[s] = None].op = j.op
          /\ [j EXCEPT !.todo[s] = None].at = j.at /\ j.at = "seed"
      BY <1>0, <1>2 DEF Job, Seed
    <3>q. QED BY <1>1, <1>2, <3>1, <3>2 DEF Seed, fixed
  <2>q. QED BY <2>1, <2>2
<1>3. CASE UpsertService(w) \/ UpsertSchemaCache(w) \/ Unload(w) \/ DeleteSchemaCache(w)
  BY <1>3, <1>m DEF UpsertService, UpsertSchemaCache, Unload, DeleteSchemaCache, Steps, fixed
<1>4. CASE GetService(w)
  <2>1. CASE Returns(w) BY <1>1, <1>4, <1>r, <2>1 DEF GetService, Returns, fixed
  <2>2. CASE Goes(w, [j EXCEPT !.reg = row[j.svc], !.at = "fetch"])
    <3> DEFINE k == [j EXCEPT !.reg = row[j.svc], !.at = "fetch"]
    <3>1. k.op = j.op /\ k.at = "fetch" BY <1>0 DEF Job
    <3>q. QED BY <1>1, <1>4, <2>2, <3>1 DEF GetService, fixed
  <2>q. QED BY <1>4, <2>1, <2>2 DEF GetService
<1>5. CASE ListServices(w)
  <2>1. PICK rows : Goes(w, [j EXCEPT !.at = "next", !.todo = rows]) BY <1>5 DEF ListServices
  <2> DEFINE k == [j EXCEPT !.at = "next", !.todo = rows]
  <2>2. k.op = j.op /\ k.at = "next" BY <1>0 DEF Job
  <2>q. QED BY <1>1, <1>5, <2>1, <2>2 DEF ListServices, fixed
<1>6. CASE NextService(w)
  <2>1. CASE j.todo = Nothing
    <3>1. [j EXCEPT !.at = "list"].op = j.op /\ [j EXCEPT !.at = "list"].at = "list"
      BY <1>0 DEF Job
    <3>2. Goes(w, [j EXCEPT !.at = "list"]) \/ (Goes(w, Refreshing) /\ j.op # "boot")
      BY <1>6, <2>1 DEF NextService, fixed
    <3>q. QED BY <1>1, <1>6, <1>r, <3>1, <3>2 DEF NextService, fixed
  <2>2. CASE j.todo # Nothing
    <3>1. PICK s \in Loaded(j.todo) :
            Goes(w, [j EXCEPT !.at = "fetch", !.svc = s, !.reg = j.todo[s], !.todo[s] = None])
      BY <1>6, <2>2 DEF NextService, fixed
    <3> DEFINE k == [j EXCEPT !.at = "fetch", !.svc = s, !.reg = j.todo[s], !.todo[s] = None]
    <3>2. k.op = j.op /\ k.at = "fetch" BY <1>0 DEF Job
    <3>q. QED BY <1>1, <1>6, <3>1, <3>2 DEF NextService, fixed
  <2>q. QED BY <2>1, <2>2
<1>7. CASE FetchSucceeds(w)
  <2>1. PICK v \in Schemas : Goes(w, [j EXCEPT !.sdl = v, !.at = "cache"])
    BY <1>7 DEF FetchSucceeds
  <2> DEFINE k == [j EXCEPT !.sdl = v, !.at = "cache"]
  <2>2. k.op = j.op /\ k.at = "cache" BY <1>0 DEF Job
  <2>q. QED BY <1>1, <1>7, <2>1, <2>2 DEF FetchSucceeds, fixed
<1>8. CASE FetchFails(w) \/ Load(w) BY <1>8, <1>a DEF FetchFails, Load, fixed
<1>9. CASE DeleteService(w)
  <2>1. j.at = "unrow" /\ j.op # "boot"
    BY <1>9 DEF DeleteService, Shapes, Shape, BootSteps, InLoop
  <2>q. QED BY <1>1, <1>9, <1>r, <2>1 DEF DeleteService, fixed
<1>10. CASE StoreFails(w)
  <2>1. CASE j.at = "cache" /\ Goes(w, AfterError(j)) BY <1>10, <1>a, <2>1 DEF StoreFails
  <2>2. CASE j.at # "idle" /\ Returns(w) BY <1>1, <1>10, <1>r, <2>2 DEF StoreFails, Returns
  <2>q. QED BY <1>10, <2>1, <2>2 DEF StoreFails
<1>11. CASE List(w)
  <2>0. j.at = "list" /\ UNCHANGED counters BY <1>11 DEF List
  <2>1. CASE Returns(w) BY <1>1, <1>r, <2>0, <2>1 DEF Returns
  <2>2. CASE Goes(w, [j EXCEPT !.snap = memory, !.at = "update"])
    <3> DEFINE k == [j EXCEPT !.snap = memory, !.at = "update"]
    <3>1. k.op = j.op BY <1>0 DEF Job
    <3>q. QED BY <1>1, <2>0, <2>2, <3>1
  <2>q. QED BY <1>11, <2>1, <2>2 DEF List
<1>12. CASE Update(w) \/ MergeFails(w)
  BY <1>1, <1>12, <1>r DEF Update, MergeFails, Returns, fixed
<1>q. QED
  BY <1>2, <1>3, <1>4, <1>5, <1>6, <1>7, <1>8, <1>9, <1>10, <1>11, <1>12 DEF Step

(* A step does not begin a boot.                                           *)
LEMMA StillServing ==
  ASSUME TypeOK, Shapes, NEW w \in Workers, Step(w)
  PROVE  Serving => Serving'
<1>1. CASE w = Main BY <1>1, StepJob DEF Serving
<1>2. CASE w # Main
  <2>1. job'[Main] = job[Main] BY <1>2, StepJob, RegistryAssumption
  <2>q. QED BY <2>1 DEF Serving
<1>q. QED BY <1>1, <1>2

(* While the boot runs, and after it until the first request, the steps    *)
(* are those of Main: what is due to be loaded gets loaded or noted as     *)
(* failed, and the rest stays as it is.                                    *)
LEMMA BootMoves ==
  ASSUME TypeOK, Shapes, Boots, untouched, NEW w \in Workers, Step(w), NEW s \in Services
  PROVE  Booted(s)'
<1> DEFINE j == job[Main]
<1>0. /\ w = Main /\ j.op = "boot" /\ Booted(s) /\ j \in Job /\ Shape(Main, j)
      /\ j.at \in BootSteps /\ job \in [Workers -> Job] /\ failed \subseteq Services
      /\ row \in [Services -> Regs \union {None}]
      /\ memory \in [Services -> Entry \union {None}]
  BY StepJob, RegistryAssumption DEF Boots, TypeOK, Shapes, Shape
<1>r. Resting.at = "idle" BY DEF Resting, Fresh
<1>g. ASSUME NEW k, Goes(Main, k) PROVE job'[Main] = k
  BY <1>0, <1>g, RegistryAssumption DEF Goes
<1>1. CASE Seed(Main)
  <2>1. j.at = "seed" /\ memory[s] = None /\ s \notin failed BY <1>0, <1>1 DEF Seed, Booted, InLoop
  <2>2. job'[Main].at \in {"seed", "scan"}
    <3>1. CASE j.todo = Nothing
      <4>1. job'[Main] = [j EXCEPT !.at = "scan"] BY <1>1, <1>g, <3>1 DEF Seed, Moves
      <4>q. QED BY <1>0, <4>1 DEF Job
    <3>2. CASE j.todo # Nothing
      <4>1. PICK x \in Loaded(j.todo) : job'[Main] = [j EXCEPT !.todo[x] = None]
        BY <1>1, <1>g, <3>2 DEF Seed
      <4>q. QED BY <1>0, <2>1, <4>1 DEF Job
    <3>q. QED BY <3>1, <3>2
  <2>3. UNCHANGED <<memory, failed>> BY <1>1 DEF Seed
  <2>q. QED BY <2>1, <2>2, <2>3 DEF Booted, InLoop
<1>2. CASE ListServices(Main)
  <2> DEFINE rows == [x \in Services |-> IF row[x] \in Disabled THEN None ELSE row[x]]
  <2>1. memory[s] = None /\ s \notin failed /\ UNCHANGED <<row, memory, failed>>
    BY <1>0, <1>2 DEF ListServices, Booted, InLoop, tables
  <2>2. job'[Main] = [j EXCEPT !.at = "next", !.todo = rows] BY <1>2, <1>g DEF ListServices
  <2>3. job'[Main].at = "next" /\ job'[Main].todo[s] = IF row[s] \in Disabled THEN None ELSE row[s]
    BY <1>0, <2>2 DEF Job
  <2>4. None \notin Disabled BY RegistryAssumption
  <2>q. QED BY <2>1, <2>3, <2>4 DEF Booted, InLoop, Due, Restored
<1>3. CASE NextService(Main)
  <2>0. j.at = "next" /\ UNCHANGED <<row, memory, failed>> BY <1>3 DEF NextService, tables
  <2>1. CASE j.todo = Nothing
    <3>1. job'[Main] = [j EXCEPT !.at = "list"] BY <1>0, <1>3, <1>g, <2>1 DEF NextService
    <3>2. job'[Main].at = "list" BY <1>0, <3>1 DEF Job
    <3>3. Restored(s) BY <1>0, <2>0, <2>1 DEF Booted, InLoop, Nothing
    <3>q. QED BY <2>0, <3>2, <3>3 DEF Booted, InLoop, Restored
  <2>2. CASE j.todo # Nothing
    <3>1. PICK x \in Loaded(j.todo) :
            job'[Main] = [j EXCEPT !.at = "fetch", !.svc = x, !.reg = j.todo[x], !.todo[x] = None]
      BY <1>3, <1>g, <2>2 DEF NextService
    <3>2. x \in Services /\ j.todo[x] # None BY <3>1 DEF Loaded
    <3>3. /\ job'[Main].at = "fetch" /\ job'[Main].svc = x /\ job'[Main].reg = j.todo[x]
          /\ job'[Main].todo[x] = None
          /\ s # x => job'[Main].todo[s] = j.todo[s]
      BY <1>0, <3>1, <3>2 DEF Job
    <3>q. QED BY <1>0, <2>0, <3>2, <3>3 DEF Booted, InLoop, Due, Restored
  <2>q. QED BY <2>1, <2>2
<1>4. CASE FetchSucceeds(Main)
  <2>0. j.at = "fetch" /\ UNCHANGED <<row, memory, failed>> BY <1>4 DEF FetchSucceeds, tables
  <2>1. PICK v \in Schemas : job'[Main] = [j EXCEPT !.sdl = v, !.at = "cache"]
    BY <1>4, <1>g DEF FetchSucceeds
  <2>2. /\ job'[Main].at = "cache" /\ job'[Main].svc = j.svc /\ job'[Main].reg = j.reg
        /\ job'[Main].todo = j.todo
    BY <1>0, <2>1 DEF Job
  <2>q. QED BY <1>0, <2>0, <2>2 DEF Booted, InLoop, Due, Restored
<1>5. ASSUME j.at \in {"fetch", "cache", "load"},
             Goes(Main, AfterLoad(j)) \/ Goes(Main, AfterError(j))
      PROVE  job'[Main].at = "next" /\ job'[Main].todo = j.todo
  <2>1. Loops(j) BY <1>0 DEF Loops
  <2>2. job'[Main] = [j EXCEPT !.at = "next", !.svc = None, !.reg = None, !.sdl = None]
    BY <1>5, <1>g, <2>1 DEF AfterError, AfterLoad
  <2>q. QED BY <1>0, <2>2 DEF Job
<1>6. ASSUME j.at \in {"fetch", "cache"}, Goes(Main, AfterError(j)), NoteFailure(j),
             UNCHANGED <<row, memory>>
      PROVE  Booted(s)'
  <2>1. failed' = failed \union {j.svc} BY <1>0, <1>6 DEF NoteFailure
  <2>2. job'[Main].at = "next" /\ job'[Main].todo = j.todo BY <1>5, <1>6
  <2>q. QED BY <1>0, <1>6, <2>1, <2>2 DEF Booted, InLoop, Due, Restored
<1>7. CASE FetchFails(Main) BY <1>6, <1>7 DEF FetchFails, tables
<1>8. CASE UpsertSchemaCache(Main)
  <2>0. j.at = "cache" /\ UNCHANGED <<row, memory, failed>> BY <1>8 DEF UpsertSchemaCache
  <2>1. job'[Main] = [j EXCEPT !.at = "load"] BY <1>8, <1>g DEF UpsertSchemaCache, Moves
  <2>2. /\ job'[Main].at = "load" /\ job'[Main].svc = j.svc /\ job'[Main].reg = j.reg
        /\ job'[Main].todo = j.todo
    BY <1>0, <2>1 DEF Job
  <2>q. QED BY <1>0, <2>0, <2>2 DEF Booted, InLoop, Due, Restored
<1>9. CASE Load(Main)
  <2>0. /\ j.at = "load" /\ UNCHANGED <<row, failed>>
        /\ memory' = [memory EXCEPT ![j.svc] = [reg |-> j.reg, sdl |-> j.sdl]]
    BY <1>9 DEF Load, tables
  <2>1. job'[Main].at = "next" /\ job'[Main].todo = j.todo BY <1>5, <1>9, <2>0 DEF Load
  <2>2. j.svc \in Services /\ j.reg \in Regs /\ j.sdl \in Schemas
    BY <1>0, <2>0 DEF Shape, HasService, HasReg, HasSDL
  <2>3. CASE s = j.svc
    <3>1. memory'[s] = [reg |-> j.reg, sdl |-> j.sdl] BY <1>0, <2>0, <2>2, <2>3
    <3>2. memory'[s] # None /\ memory'[s].reg = j.reg
      BY <2>2, <3>1, NoneIsNoEntry DEF Entry
    <3>3. j.todo[s] = None /\ Due(s, j.reg) BY <1>0, <2>0, <2>3 DEF Booted, InLoop
    <3>4. row[s] # None /\ row[s] \notin Disabled /\ s \notin failed /\ j.reg = row[s]
      BY <2>2, <3>3, RegistryAssumption DEF Due
    <3>5. Restored(s)' BY <2>0, <3>2, <3>4 DEF Restored
    <3>q. QED BY <2>1, <3>3, <3>5 DEF Booted, InLoop
  <2>4. CASE s # j.svc
    <3>1. memory'[s] = memory[s] BY <1>0, <2>0, <2>4
    <3>q. QED BY <1>0, <2>0, <2>1, <2>4, <3>1 DEF Booted, InLoop, Due, Restored
  <2>q. QED BY <2>3, <2>4
<1>10. CASE StoreFails(Main)
  BY <1>0, <1>6, <1>10 DEF StoreFails, tables, BootSteps, InLoop
<1>11. CASE List(Main)
  <2>0. j.at = "list" /\ UNCHANGED <<row, memory, failed>> BY <1>11 DEF List, tables
  <2>1. job'[Main] \in {Resting, [j EXCEPT !.snap = memory, !.at = "update"]}
    BY <1>11, <1>g DEF List, Returns
  <2>2. job'[Main].at \in {"idle", "update"} BY <1>0, <1>r, <2>1 DEF Job
  <2>q. QED BY <1>0, <2>0, <2>2 DEF Booted, InLoop, Restored
<1>12. CASE Update(Main) \/ MergeFails(Main)
  <2>0. j.at = "update" /\ UNCHANGED <<row, memory, failed>>
    BY <1>12 DEF Update, MergeFails, tables
  <2>1. job'[Main] = Resting BY <1>12, <1>g DEF Update, MergeFails, Returns
  <2>q. QED BY <1>0, <1>r, <2>0, <2>1 DEF Booted, InLoop, Restored
<1>13. ~(UpsertService(Main) \/ GetService(Main) \/ Unload(Main) \/ DeleteSchemaCache(Main)
         \/ DeleteService(Main))
  BY <1>0 DEF UpsertService, GetService, Unload, DeleteSchemaCache, DeleteService, BootSteps, InLoop
<1>q. QED
  BY <1>0, <1>1, <1>2, <1>3, <1>4, <1>7, <1>8, <1>9, <1>10, <1>11, <1>12, <1>13 DEF Step

(* So the boot goes on as it must.                                         *)
LEMMA StepBoots ==
  ASSUME TypeOK, Shapes, Boots, NEW w \in Workers, Step(w)
  PROVE  Boots'
<1>1. untouched' = untouched BY StepJob DEF counters
<1>2. ~Serving' => untouched' BY <1>1, StillServing DEF Boots
<1>3. ASSUME untouched
      PROVE  /\ \A v \in Workers \ {Main} : job'[v].at = "idle"
             /\ job'[Main].at # "idle" => job'[Main].op = "boot"
             /\ \A s \in Services : Booted(s)'
  <2>1. w = Main /\ job[w].op = "boot" BY <1>3, StepJob DEF Boots
  <2>2. \A v \in Workers \ {Main} : job'[v].at = "idle" BY <1>3, <2>1, StepJob DEF Boots
  <2>3. job'[Main].at # "idle" => job'[Main].op = "boot" BY <2>1, StepJob
  <2>4. \A s \in Services : Booted(s)' BY <1>3, BootMoves
  <2>q. QED BY <2>2, <2>3, <2>4
<1>q. QED BY <1>1, <1>2, <1>3 DEF Boots

(* A request ends the time nothing has touched since the boot.             *)
LEMMA RequestBoots ==
  ASSUME TypeOK, Boots, NEW w \in Workers, NEW j \in Job, Starts(w, j),
         j.op # "boot", j.at \in {"upsert", "unload", "get", "scan"}
  PROVE  Boots'
<1>1. job'[w] = j /\ \A v \in Workers \ {w} : job'[v] = job[v]
  BY GoesOn DEF TypeOK, Starts
<1>2. Serving'
  <2>1. CASE w = Main BY <1>1, <2>1 DEF Serving
  <2>2. CASE w # Main
    <3>1. job'[Main] = job[Main] BY <1>1, <2>2, RegistryAssumption
    <3>q. QED BY <3>1 DEF Starts, Serving
  <2>q. QED BY <2>1, <2>2
<1>3. untouched' = FALSE BY DEF Starts
<1>q. QED BY <1>2, <1>3 DEF Boots

-----------------------------------------------------------------------------
(* What the refreshes of the planner account for.                          *)

(* A step that leaves memory and planner alone and goes on owing what it   *)
(* owed.                                                                   *)
LEMMA KeepsAccount ==
  ASSUME TypeOK, Accounted, NEW w \in Workers, NEW k, Goes(w, k), k.at # "update",
         UNCHANGED <<memory, merged>>, behind \subseteq behind',
         \A s \in Services \ behind' : Owes(job[w], s) => Owes(k, s)
  PROVE  Accounted'
<1>1. job'[w] = k /\ \A v \in Workers \ {w} : job'[v] = job[v] BY DEF TypeOK, Goes
<1>2. ASSUME NEW s \in Services \ behind'
      PROVE  /\ \A v \in Workers : job'[v].at = "update" => job'[v].snap[s] = memory'[s]
             /\ merged'[s] = memory'[s] \/ \E v \in Workers : Owes(job'[v], s)
  <2>1. s \in Services \ behind BY <1>2
  <2>2. ASSUME NEW v \in Workers, job'[v].at = "update" PROVE job'[v].snap[s] = memory'[s]
    BY <1>1, <2>1, <2>2 DEF Accounted
  <2>3. ASSUME NEW v \in Workers, Owes(job[v], s) PROVE Owes(job'[v], s)
    BY <1>1, <1>2, <2>3
  <2>q. QED BY <2>1, <2>2, <2>3 DEF Accounted
<1>q. QED BY <1>2 DEF Accounted

(* A step that changes the entry of its service: it owes a refresh, or the *)
(* service falls behind.                                                   *)
LEMMA ChangeAccounted ==
  ASSUME TypeOK, Accounted, NEW w \in Workers, NEW k, Goes(w, k), k.at # "update",
         NoteChange(job[w]), merged' = merged,
         \A s \in Services \ {job[w].svc} : memory'[s] = memory[s],
         \A s \in Services \ {job[w].svc} : Owes(job[w], s) => Owes(k, s),
         job[w].op # "recovery" => Owes(k, job[w].svc)
  PROVE  Accounted'
<1>1. job'[w] = k /\ \A v \in Workers \ {w} : job'[v] = job[v] BY DEF TypeOK, Goes
<1>2. behind \subseteq behind' BY DEF NoteChange
<1>3. ASSUME NEW s \in Services \ behind'
      PROVE  /\ \A v \in Workers : job'[v].at = "update" => job'[v].snap[s] = memory'[s]
             /\ merged'[s] = memory'[s] \/ \E v \in Workers : Owes(job'[v], s)
  <2>1. s \in Services \ behind BY <1>2, <1>3
  <2>2. CASE s = job[w].svc
    <3>1. job[w].op # "recovery" /\ ~Refreshes BY <1>3, <2>2 DEF NoteChange
    <3>2. Owes(job'[w], s) BY <1>1, <2>2, <3>1
    <3>3. \A v \in Workers : job'[v].at # "update" BY <1>1, <3>1 DEF Refreshes
    <3>q. QED BY <3>2, <3>3
  <2>3. CASE s # job[w].svc
    <3>1. ASSUME NEW v \in Workers, job'[v].at = "update" PROVE job'[v].snap[s] = memory'[s]
      BY <1>1, <2>1, <2>3, <3>1 DEF Accounted
    <3>2. ASSUME NEW v \in Workers, Owes(job[v], s) PROVE Owes(job'[v], s)
      BY <1>1, <2>3, <3>2
    <3>q. QED BY <2>1, <2>3, <3>1, <3>2 DEF Accounted
  <2>q. QED BY <2>2, <2>3
<1>q. QED BY <1>3 DEF Accounted

(* Every step of a job.                                                    *)
LEMMA StepAccounted ==
  ASSUME TypeOK, Shapes, Accounted, NEW w \in Workers, Step(w)
  PROVE  Accounted'
<1> DEFINE j == job[w]
<1>0. /\ j \in Job /\ Shape(w, j) /\ job \in [Workers -> Job]
      /\ memory \in [Services -> Entry \union {None}] /\ behind \subseteq Services
      /\ merged \in [Services -> Entry \union {None}]
  BY DEF TypeOK, Shapes
<1>r. Resting.at = "idle" /\ Refreshing.at = "list" BY DEF Resting, Refreshing, Fresh
<1>a. ASSUME j.at \in {"fetch", "cache", "load"}
      PROVE  /\ AfterLoad(j).at # "update" /\ AfterError(j).at # "update"
             /\ \A s : Owes(j, s) => Owes(AfterLoad(j), s) /\ Owes(AfterError(j), s)
             /\ j.op # "recovery" => \A s : Owes(AfterLoad(j), s)
  <2> DEFINE k == [j EXCEPT !.at = "next", !.svc = None, !.reg = None, !.sdl = None]
  <2>1. k.at = "next" /\ k.op = j.op BY <1>0 DEF Job
  <2>2. CASE Loops(j)
    <3>1. AfterLoad(j) = k /\ AfterError(j) = k BY <2>2 DEF AfterLoad, AfterError
    <3> HIDE DEF k
    <3>2. \A s : Owes(k, s) BY <2>1, <2>2 DEF Owes, Loops, InLoop
    <3>q. QED BY <2>1, <3>1, <3>2
  <2>3. CASE ~Loops(j)
    <3>1. \A s : ~Owes(j, s) BY <1>a, <2>3 DEF Owes, InLoop
    <3>2. AfterLoad(j) \in {Resting, Refreshing} /\ AfterError(j) = Resting
          /\ (j.op # "recovery" => AfterLoad(j) = Refreshing)
      BY <2>3 DEF AfterLoad, AfterError
    <3>3. \A s : Owes(Refreshing, s) BY <1>r DEF Owes
    <3>q. QED BY <1>r, <3>1, <3>2, <3>3
  <2>q. QED BY <2>2, <2>3
<1>m. ASSUME NEW k, Goes(w, k), UNCHANGED <<memory, merged, behind>>, k.at # "update",
             \A s \in Services : Owes(j, s) => Owes(k, s)
      PROVE  Accounted'
  BY <1>m, KeepsAccount
<1>1. CASE Seed(w) \/ UpsertService(w) \/ GetService(w) \/ ListServices(w) \/ FetchSucceeds(w)
           \/ UpsertSchemaCache(w)
  <2>1. /\ UNCHANGED <<memory, merged, behind>>
        /\ j.at \in {"seed", "upsert", "get", "scan", "fetch", "cache"}
    BY <1>1 DEF Seed, UpsertService, GetService, ListServices, FetchSucceeds,
       UpsertSchemaCache, fixed
  <2>2. PICK k : /\ Goes(w, k)
                 /\ \/ k = Resting /\ j.at = "get"
                    \/ /\ k.op = j.op /\ k.at \in Steps \ {"update"}
                       /\ j.at \in {"fetch", "cache"} => k.at \in {"cache", "load"}
    <3>1. CASE Seed(w)
      <4>1. CASE j.todo = Nothing
        <5>1. [j EXCEPT !.at = "scan"].op = j.op /\ [j EXCEPT !.at = "scan"].at = "scan"
              /\ j.at = "seed"
          BY <1>0, <3>1 DEF Job, Seed
        <5>q. QED BY <3>1, <4>1, <5>1 DEF Seed, Moves, Steps
      <4>2. CASE j.todo # Nothing
        <5>1. PICK s \in Loaded(j.todo) : Goes(w, [j EXCEPT !.todo[s] = None])
          BY <3>1, <4>2 DEF Seed
        <5>2. /\ [j EXCEPT !.todo[s] = None].op = j.op
              /\ [j EXCEPT !.todo[s] = None].at = j.at /\ j.at = "seed"
          BY <1>0, <3>1 DEF Job, Seed
        <5>q. QED BY <5>1, <5>2 DEF Steps
      <4>q. QED BY <4>1, <4>2
    <3>2. CASE UpsertService(w)
      <4>1. [j EXCEPT !.at = "fetch"].op = j.op /\ [j EXCEPT !.at = "fetch"].at = "fetch"
            /\ j.at = "upsert"
        BY <1>0, <3>2 DEF Job, UpsertService
      <4>q. QED BY <3>2, <4>1 DEF UpsertService, Moves, Steps
    <3>3. CASE GetService(w)
      <4>1. CASE Returns(w) BY <3>3, <4>1 DEF GetService, Returns
      <4>2. CASE Goes(w, [j EXCEPT !.reg = row[j.svc], !.at = "fetch"])
        <5> DEFINE k == [j EXCEPT !.reg = row[j.svc], !.at = "fetch"]
        <5>1. k.op = j.op /\ k.at = "fetch" /\ j.at = "get" BY <1>0, <3>3 DEF Job, GetService
        <5>q. QED BY <4>2, <5>1 DEF Steps
      <4>q. QED BY <3>3, <4>1, <4>2 DEF GetService
    <3>4. CASE ListServices(w)
      <4>1. PICK rows : Goes(w, [j EXCEPT !.at = "next", !.todo = rows])
        BY <3>4 DEF ListServices
      <4> DEFINE k == [j EXCEPT !.at = "next", !.todo = rows]
      <4>2. k.op = j.op /\ k.at = "next" /\ j.at = "scan" BY <1>0, <3>4 DEF Job, ListServices
      <4>q. QED BY <4>1, <4>2 DEF Steps
    <3>5. CASE FetchSucceeds(w)
      <4>1. PICK v \in Schemas : Goes(w, [j EXCEPT !.sdl = v, !.at = "cache"])
        BY <3>5 DEF FetchSucceeds
      <4> DEFINE k == [j EXCEPT !.sdl = v, !.at = "cache"]
      <4>2. k.op = j.op /\ k.at = "cache" BY <1>0 DEF Job
      <4>q. QED BY <4>1, <4>2 DEF Steps
    <3>6. CASE UpsertSchemaCache(w)
      <4>1. [j EXCEPT !.at = "load"].op = j.op /\ [j EXCEPT !.at = "load"].at = "load"
        BY <1>0 DEF Job
      <4>q. QED BY <3>6, <4>1 DEF UpsertSchemaCache, Moves, Steps
    <3>q. QED BY <1>1, <3>1, <3>2, <3>3, <3>4, <3>5, <3>6
  <2>3. k.at # "update" BY <1>r, <2>2
  <2>4. \A s : Owes(j, s) => Owes(k, s) BY <2>1, <2>2 DEF Owes, InLoop, Loops
  <2>q. QED BY <1>m, <2>1, <2>2, <2>3, <2>4
<1>2. CASE NextService(w)
  <2>0. UNCHANGED <<memory, merged, behind>> /\ j.at = "next" BY <1>2 DEF NextService, fixed
  <2>1. CASE j.todo = Nothing
    <3> DEFINE k == [j EXCEPT !.at = "list"]
    <3>1. k.at = "list" BY <1>0 DEF Job
    <3>2. Goes(w, k) \/ Goes(w, Refreshing) BY <1>2, <2>1 DEF NextService
    <3> HIDE DEF k
    <3>3. \A s : Owes(k, s) /\ Owes(Refreshing, s) BY <1>r, <3>1 DEF Owes
    <3>q. QED BY <1>m, <1>r, <2>0, <3>1, <3>2, <3>3
  <2>2. CASE j.todo # Nothing
    <3>1. PICK s \in Loaded(j.todo) :
            Goes(w, [j EXCEPT !.at = "fetch", !.svc = s, !.reg = j.todo[s], !.todo[s] = None])
      BY <1>2, <2>2 DEF NextService
    <3> DEFINE k == [j EXCEPT !.at = "fetch", !.svc = s, !.reg = j.todo[s], !.todo[s] = None]
    <3>2. k.op = j.op /\ k.at = "fetch" BY <1>0 DEF Job
    <3>3. Goes(w, k) BY <3>1
    <3> HIDE DEF k
    <3>4. \A x : Owes(j, x) => Owes(k, x) BY <2>0, <3>2 DEF Owes, InLoop, Loops
    <3>q. QED BY <1>m, <2>0, <3>2, <3>3, <3>4
  <2>q. QED BY <2>1, <2>2
<1>3. CASE FetchFails(w)
  BY <1>3, <1>a, <1>m DEF FetchFails, fixed
<1>4. CASE Load(w)
  <2>1. /\ j.at = "load" /\ Goes(w, AfterLoad(j)) /\ NoteChange(j) /\ merged' = merged
        /\ memory' = [memory EXCEPT ![j.svc] = [reg |-> j.reg, sdl |-> j.sdl]]
    BY <1>4 DEF Load
  <2>2. \A s \in Services \ {j.svc} : memory'[s] = memory[s] BY <1>0, <2>1
  <2>q. QED BY <1>a, <2>1, <2>2, ChangeAccounted
<1>5. CASE Unload(w)
  <2> DEFINE k == [j EXCEPT !.at = "uncache"]
  <2>1. /\ j.at = "unload" /\ Goes(w, k) /\ NoteChange(j) /\ merged' = merged
        /\ memory' = [memory EXCEPT ![j.svc] = None]
    BY <1>5 DEF Unload, Moves
  <2>2. \A s \in Services \ {j.svc} : memory'[s] = memory[s] BY <1>0, <2>1
  <2>3. k.at = "uncache" /\ k.svc = j.svc BY <1>0 DEF Job
  <2> HIDE DEF k
  <2>4. Owes(k, j.svc) /\ \A s : ~Owes(j, s) BY <2>1, <2>3 DEF Owes, InLoop
  <2>q. QED BY <2>1, <2>2, <2>3, <2>4, ChangeAccounted
<1>6. CASE DeleteSchemaCache(w)
  <2> DEFINE k == [j EXCEPT !.at = "unrow"]
  <2>1. j.at = "uncache" /\ Goes(w, k) /\ UNCHANGED <<memory, merged, behind>>
    BY <1>6 DEF DeleteSchemaCache, Moves, fixed
  <2>2. k.at = "unrow" /\ k.svc = j.svc BY <1>0 DEF Job
  <2> HIDE DEF k
  <2>3. \A s : Owes(j, s) => Owes(k, s) BY <2>1, <2>2 DEF Owes, InLoop
  <2>q. QED BY <1>m, <2>1, <2>2, <2>3
<1>7. CASE DeleteService(w)
  <2>1. \A s : Owes(Refreshing, s) BY <1>r DEF Owes
  <2>q. QED BY <1>7, <1>m, <1>r, <2>1 DEF DeleteService, fixed
<1>8. CASE StoreFails(w)
  <2>0. UNCHANGED <<memory, merged>> BY <1>8 DEF StoreFails
  <2>1. CASE j.at = "cache" /\ Goes(w, AfterError(j)) /\ UNCHANGED behind
    BY <1>a, <1>m, <2>0, <2>1
  <2>2. CASE j.at \in {"upsert", "get", "scan"} /\ Returns(w) /\ UNCHANGED behind
    <3>1. \A s : ~Owes(j, s) BY <2>2 DEF Owes, InLoop
    <3>q. QED BY <1>m, <1>r, <2>0, <2>2, <3>1 DEF Returns
  <2>3. CASE /\ j.at \in {"uncache", "unrow"} /\ Returns(w)
             /\ behind' = behind \union {j.svc}
    <3>1. \A s \in Services \ behind' : ~Owes(j, s) BY <2>3 DEF Owes, InLoop
    <3>2. Goes(w, Resting) /\ Resting.at # "update" /\ behind \subseteq behind'
      BY <1>r, <2>3 DEF Returns
    <3>q. QED BY <2>0, <3>1, <3>2, KeepsAccount
  <2>q. QED BY <1>8, <2>1, <2>2, <2>3 DEF StoreFails
<1>9. CASE List(w)
  <2>0. UNCHANGED <<memory, merged>> /\ j.at = "list" BY <1>9 DEF List
  <2>1. CASE Loaded(memory) = {}
    <3>1. Goes(w, Resting) /\ NoteNothingListed BY <1>9, <2>1 DEF List, Returns
    <3>2. job'[w] = Resting /\ \A v \in Workers \ {w} : job'[v] = job[v]
      BY <1>0, <3>1 DEF Goes
    <3>3. ASSUME NEW s \in Services \ behind'
          PROVE  /\ \A v \in Workers : job'[v].at = "update" => job'[v].snap[s] = memory'[s]
                 /\ merged'[s] = memory'[s]
      <4>1. memory[s] = None /\ merged[s] = None
        BY <2>1, <3>1, <3>3 DEF Loaded, NoteNothingListed
      <4>2. ASSUME NEW v \in Workers, job'[v].at = "update" PROVE job'[v].snap[s] = memory'[s]
        <5>1. job'[v] = job[v] /\ job[v].at = "update" BY <1>r, <3>2, <4>2
        <5>2. s \notin behind BY <3>1, <3>3, <5>1 DEF NoteNothingListed, Refreshes
        <5>q. QED BY <2>0, <3>3, <5>1, <5>2 DEF Accounted
      <4>q. QED BY <2>0, <4>1, <4>2
    <3>q. QED BY <3>3 DEF Accounted
  <2>2. CASE Loaded(memory) # {}
    <3> DEFINE k == [j EXCEPT !.snap = memory, !.at = "update"]
    <3>1. Goes(w, k) /\ NoteListed BY <1>9, <2>2 DEF List
    <3>2. job'[w] = k /\ \A v \in Workers \ {w} : job'[v] = job[v]
      BY <1>0, <3>1 DEF Goes
    <3>3. k.at = "update" /\ k.snap = memory BY <1>0 DEF Job
    <3> HIDE DEF k
    <3>4. \A s : Owes(job'[w], s) BY <3>2, <3>3 DEF Owes
    <3>5. ASSUME NEW s \in Services \ behind', NEW v \in Workers, job'[v].at = "update"
          PROVE  job'[v].snap[s] = memory'[s]
      <4>1. CASE v = w BY <2>0, <3>2, <3>3, <4>1
      <4>2. CASE v # w
        <5>1. job'[v] = job[v] /\ job[v].at = "update" BY <3>2, <3>5, <4>2
        <5>2. s \notin behind BY <3>1, <3>5, <5>1 DEF NoteListed, Refreshes
        <5>q. QED BY <2>0, <3>5, <5>1, <5>2 DEF Accounted
      <4>q. QED BY <4>1, <4>2
    <3>q. QED BY <3>4, <3>5 DEF Accounted
  <2>q. QED BY <2>1, <2>2
<1>10. CASE Update(w)
  <2>1. j.at = "update" /\ Goes(w, Resting) /\ merged' = j.snap /\ UNCHANGED <<memory, behind>>
    BY <1>10 DEF Update, Returns, fixed
  <2>2. job'[w] = Resting /\ \A v \in Workers \ {w} : job'[v] = job[v]
    BY <1>0, <2>1 DEF Goes
  <2>3. ASSUME NEW s \in Services \ behind'
        PROVE  /\ \A v \in Workers : job'[v].at = "update" => job'[v].snap[s] = memory'[s]
               /\ merged'[s] = memory'[s]
    BY <1>r, <2>1, <2>2, <2>3 DEF Accounted
  <2>q. QED BY <2>3 DEF Accounted
<1>11. CASE MergeFails(w)
  <2>1. Services \ behind' = {} BY <1>11 DEF MergeFails
  <2>q. QED BY <2>1 DEF Accounted
<1>q. QED
  BY <1>1, <1>2, <1>3, <1>4, <1>5, <1>6, <1>7, <1>8, <1>9, <1>10, <1>11 DEF Step

(* A boot, of a first process or after a crash, begins alone and with      *)
(* nothing in memory.                                                      *)
BootBegins ==
  /\ job = [w \in Workers |-> IF w = Main THEN Booting ELSE Resting]
  /\ memory = Nothing /\ merged = Nothing
  /\ contested = {} /\ failed = {} /\ untouched = TRUE
Sound == Shapes /\ Overlaps /\ Uncontested /\ Boots /\ Accounted
LEMMA Reboot == BootBegins => Sound
<1> SUFFICES ASSUME BootBegins PROVE Sound OBVIOUS
<1>0. /\ job = [w \in Workers |-> IF w = Main THEN Booting ELSE Resting]
      /\ memory = Nothing /\ merged = Nothing
      /\ contested = {} /\ failed = {} /\ untouched = TRUE
  BY DEF BootBegins
<1>1. /\ Booting.op = "boot" /\ Booting.at = "seed" /\ Resting.op = "boot" /\ Resting.at = "idle"
  BY DEF Booting, Resting, Fresh
<1>2. job[Main] = Booting /\ \A w \in Workers \ {Main} : job[w] = Resting
  BY <1>0, RegistryAssumption
<1>3. Shapes
  BY <1>1, <1>2 DEF Shapes, Shape, HasService, HasReg, HasSDL, BootSteps
<1>4. Overlaps
  <2>1. \A w \in Workers \ {Main}, s \in Services : ~WorksOn(job[w], s)
    BY <1>1, <1>2 DEF WorksOn
  <2>q. QED BY <2>1 DEF Overlaps, Overlap
<1>5. \A s \in Services : memory[s] = None BY <1>0 DEF Nothing
<1>6. Uncontested
  <2>1. \A w \in Workers : job[w].at \in {"seed", "idle"} BY <1>1, <1>2
  <2>2. ASSUME NEW s \in Services PROVE Ensured(s)
    <3>1. EntryBacked(s) /\ EntryPersisted(s) BY <1>5 DEF EntryBacked, EntryPersisted
    <3>2. ASSUME NEW w \in Workers PROVE Ensures(job[w], s, row[s], cache[s], memory[s])
      BY <2>1 DEF Ensures, InLoop, HasSDL
    <3>q. QED BY <3>1, <3>2 DEF Ensured
  <2>q. QED BY <2>2 DEF Uncontested
<1>7. Boots BY <1>0, <1>1, <1>2, <1>5 DEF Boots, Booted, InLoop
<1>8. Accounted BY <1>0, <1>1, <1>2 DEF Accounted
<1>q. QED BY <1>3, <1>4, <1>6, <1>7, <1>8 DEF Sound

(* The first process boots.                                                *)
LEMMA InitInv == Init => Inv
<1> SUFFICES ASSUME Init PROVE Inv OBVIOUS
<1>1. TypeOK
  BY FreshJobs, RegistryAssumption DEF Init, TypeOK, Nothing
<1>2. Sound BY Reboot DEF Init, BootBegins
<1>q. QED BY <1>1, <1>2 DEF Inv, Sound

(* A crash leaves the tables, wherever it strikes, and boots again.        *)
LEMMA CrashInv ==
  ASSUME TypeOK, Crash
  PROVE  Inv'
<1>1. TypeOK'
  BY FreshJobs, RegistryAssumption DEF Crash, TypeOK, Nothing, tables
<1>2. BootBegins' BY DEF Crash, BootBegins
<1>3. (BootBegins => Sound)' BY Reboot, PTL
<1>q. QED BY <1>1, <1>2, <1>3 DEF Inv, Sound

(* No step breaks the invariant.                                           *)
LEMMA NextInv == Inv /\ [Next]_vars => Inv'
<1> SUFFICES ASSUME Inv, [Next]_vars PROVE Inv' OBVIOUS
<1>0. TypeOK /\ Shapes /\ Overlaps /\ Uncontested /\ Boots /\ Accounted BY DEF Inv
<1>1. ASSUME NEW w \in Workers, Request(w) PROVE Inv'
  <2>1. PICK j \in Job : /\ Starts(w, j) /\ Shape(w, j) /\ j.op # "boot"
                        /\ j.at \in {"upsert", "unload", "get", "scan"}
    BY <1>1, RequestJob
  <2>2. TypeOK' /\ Shapes' /\ Overlaps' BY <1>0, <2>1, RequestShape
  <2>3. Uncontested' BY <1>0, <2>1, RequestEnsures
  <2>4. Boots' BY <1>0, <2>1, RequestBoots
  <2>5. Accounted'
    <3>1. \A s : ~Owes(job[w], s) BY <2>1 DEF Starts, Owes, InLoop
    <3>q. QED BY <1>0, <2>1, <3>1, KeepsAccount DEF Starts
  <2>q. QED BY <2>2, <2>3, <2>4, <2>5 DEF Inv
<1>2. ASSUME NEW w \in Workers, Step(w) PROVE Inv'
  BY <1>0, <1>2, StepShape, StepEnsures, StepBoots, StepAccounted DEF Inv
<1>3. CASE Crash BY <1>0, <1>3, CrashInv
<1>4. CASE UNCHANGED vars
  BY <1>0, <1>4 DEF vars, tables, fixed, counters, Inv, TypeOK, Shapes, Overlaps, Uncontested,
     Ensured, EntryBacked, EntryPersisted, Publishing, Boots, Booted, Due, Restored, Serving,
     Accounted
<1>q. QED BY <1>1, <1>2, <1>3, <1>4 DEF Next

-----------------------------------------------------------------------------
(* The invariant holds in every state of every run, for any number of      *)
(* workers, services, requests and crashes.                                *)
THEOREM Inductive == Spec => []Inv
<1>q. QED BY InitInv, NextInv, PTL DEF Spec

(* Every variable keeps its type: a load never goes on without the         *)
(* registration it is for (Reload, registry.go).                           *)
THEOREM TypeCorrect == Spec => []TypeOK
<1>1. Inv => TypeOK BY DEF Inv
<1>q. QED BY Inductive, <1>1, PTL

(* What is served from memory is backed by both tables at every step of    *)
(* every Add, Reload and Remove, whichever step fails or crashes           *)
(* (introspectAndCache, Remove).                                           *)
THEOREM AlwaysBacked == Spec => []Backed
<1>1. Inv => Backed BY DEF Inv, Uncontested, Ensured, EntryBacked, Backed
<1>q. QED BY Inductive, <1>1, PTL

(* The SDL in memory is the persisted one, except between the two writes   *)
(* of introspectAndCache.                                                  *)
THEOREM CacheAlwaysMatches == Spec => []CacheMatches
<1>1. Inv => CacheMatches BY DEF Inv, Uncontested, Ensured, EntryPersisted, CacheMatches
<1>q. QED BY Inductive, <1>1, PTL

(* A boot loads exactly the enabled registrations of the services table    *)
(* but those that could not be introspected, wherever the crash before it  *)
(* struck (Bootstrap, loadAll).                                            *)
THEOREM BootAlwaysRestores == Spec => []BootRestoresEnabled
<1>1. Inv => BootRestoresEnabled
  <2> SUFFICES ASSUME Inv, Serving, untouched, NEW s \in Services PROVE Restored(s)
    BY DEF BootRestoresEnabled, Restored
  <2>1. job[Main].at = "idle" BY DEF Inv, Boots, Serving
  <2>2. Booted(s) BY DEF Inv, Boots
  <2>q. QED BY <2>1, <2>2 DEF Booted, InLoop
<1>q. QED BY Inductive, <1>1, PTL

(* Once the requests have ended the planner has of every service what the  *)
(* registry has, in whatever order their steps came, but of those no       *)
(* refresh accounts for (refreshPlanner, handler.go).                      *)
THEOREM PlannerAlwaysFollows == Spec => []PlannerFollows
<1>1. Inv => PlannerFollows
  <2> SUFFICES ASSUME Inv, \A w \in Workers : ~Attends(w), NEW s \in Services \ behind
               PROVE  merged[s] = memory[s]
    BY DEF PlannerFollows
  <2>1. ASSUME NEW w \in Workers PROVE ~Owes(job[w], s)
    <3>1. CASE job[w].at = "idle" BY <3>1 DEF Owes, InLoop
    <3>2. CASE job[w].op = "recovery"
      <4>1. job[w].at \in RecoverySteps BY <3>2 DEF Inv, Shapes, Shape
      <4>q. QED BY <3>2, <4>1 DEF Owes, InLoop, Loops, RecoverySteps
    <3>q. QED BY <3>1, <3>2 DEF Attends
  <2>q. QED BY <2>1 DEF Inv, Accounted
<1>q. QED BY Inductive, <1>1, PTL
============================================================================
