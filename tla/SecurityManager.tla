--------------------------- MODULE SecurityManager ---------------------------
(***************************************************************************)
(* The cached security configuration, its invalidation by the admin API,   *)
(* the rate limiter that goes with it, and the WebSocket slots             *)
(* (internal/security/manager.go, internal/adminapi/handler.go,            *)
(* internal/router/ws.go).                                                 *)
(*                                                                         *)
(* The tables are two numbers: how often the settings, and the lists of    *)
(* CORS origins and IP rules, have been changed.  What a version of the    *)
(* settings says about rates and connections is given by Rpm and Limit.    *)
(***************************************************************************)
EXTENDS Integers, FiniteSets

CONSTANTS
    Clients,     \* requests and WebSocket connections, one at a time each
    Admins,      \* requests of the admin API
    MaxChanges,  \* bound: changes of each kind
    Rpm,         \* rate limits by version of the settings; Default has no limits
    Limit,       \* WSMaxConnections by version; 0 is no limit
    None         \* nobody; no configuration; no rate limiter

Versions == 0..MaxChanges
Default == -1   \* the configuration used when the first load fails
Unread == -1    \* lists that could not be read: empty

ASSUME SecurityAssumption ==
    /\ IsFiniteSet(Clients)
    /\ MaxChanges \in Nat
    /\ Rpm \in [Versions \cup {Default} -> Nat]
    /\ Limit \in [Versions \cup {Default} -> Nat]
    /\ None \notin Clients
    /\ None \notin Nat

VARIABLES
    db,        \* the version of each kind in the tables
    admin,     \* the kind each admin has changed and not yet invalidated
    done,      \* versions of each kind whose change was invalidated
    cfg,       \* the cached configuration
    fresh,     \* it was loaded, and not invalidated, within the TTL
    rl,        \* the rates the rate limiter was made for
    lock,      \* who holds mu for writing
    loading,   \* what the holder has read
    at,        \* where each client is: see Places
    got,       \* the configuration each client's Config returned
    due,       \* history: done when the client called Config
    wsConns    \* the counter of connections

cacheVars == <<cfg, fresh, rl, lock, loading>>
vars == <<db, admin, done, cfg, fresh, rl, lock, loading, at, got, due, wsConns>>

Kinds == {"settings", "lists"}
Config == [settings : Versions \cup {Default}, lists : Versions \cup {Unread}]
DefaultConfig == [settings |-> Default, lists |-> Unread]

ASSUME NoneIsNoConfig == None \notin Config

Places == {"idle",
           "check",       \* in Config, before the read lock
           "wait",        \* in reload, before the write lock
           "settings",    \* about to read the settings
           "lists",       \* about to read the lists
           "publish",     \* about to store the configuration
           "configured",  \* Config has returned
           "failed",      \* the same, but the settings could not be read
           "acquired",    \* WSAcquire has succeeded
           "open"}        \* the connection was upgraded

Init ==
    /\ db = [k \in Kinds |-> 0]
    /\ admin = [a \in Admins |-> None]
    /\ done = db
    /\ cfg = None
    /\ fresh = FALSE
    /\ rl = None
    /\ lock = None
    /\ loading = DefaultConfig
    /\ at = [c \in Clients |-> "idle"]
    /\ got = [c \in Clients |-> DefaultConfig]
    /\ due = [c \in Clients |-> db]
    /\ wsConns = 0

Goto(c, place) == at' = [at EXCEPT ![c] = place]

-----------------------------------------------------------------------------
(***************************************************************************)
(* The admin API: a statement, then InvalidateCache.                       *)
(***************************************************************************)

Change(a, k) ==
    /\ admin[a] = None
    /\ db[k] < MaxChanges
    /\ db' = [db EXCEPT ![k] = @ + 1]
    /\ admin' = [admin EXCEPT ![a] = k]
    /\ UNCHANGED <<done, at, got, due, wsConns>>
    /\ UNCHANGED cacheVars

\* loadedAt is cleared without waiting for a reload under way.
InvalidateUnlocked(a) ==
    /\ admin[a] # None
    /\ fresh' = FALSE
    /\ done' = [done EXCEPT ![admin[a]] = db[admin[a]]]
    /\ admin' = [admin EXCEPT ![a] = None]
    /\ UNCHANGED <<db, cfg, rl, lock, loading, at, got, due, wsConns>>

\* It takes mu: not while anyone reloads.
Invalidate(a) ==
    /\ admin[a] # None
    /\ lock = None
    /\ fresh' = FALSE
    /\ done' = [done EXCEPT ![admin[a]] = db[admin[a]]]
    /\ admin' = [admin EXCEPT ![a] = None]
    /\ UNCHANGED <<db, cfg, rl, lock, loading, at, got, due, wsConns>>

\* The TTL runs out.
Expire ==
    /\ fresh
    /\ fresh' = FALSE
    /\ UNCHANGED <<db, admin, done, cfg, rl, lock, loading, at, got, due, wsConns>>

-----------------------------------------------------------------------------
(***************************************************************************)
(* Config and reload.                                                      *)
(***************************************************************************)

CallConfig(c) ==
    /\ at[c] = "idle"
    /\ Goto(c, "check")
    /\ due' = [due EXCEPT ![c] = done]
    /\ UNCHANGED <<db, admin, done, got, wsConns>>
    /\ UNCHANGED cacheVars

Returns(c, config, place) ==
    /\ got' = [got EXCEPT ![c] = config]
    /\ Goto(c, place)

CachedIsGood == cfg # None /\ fresh

\* Under the read lock.
Check(c) ==
    /\ at[c] = "check"
    /\ lock = None
    /\ IF CachedIsGood
       THEN Returns(c, cfg, "configured")
       ELSE Goto(c, "wait") /\ UNCHANGED got
    /\ UNCHANGED <<db, admin, done, due, wsConns>>
    /\ UNCHANGED cacheVars

\* Under the write lock: someone else may have loaded meanwhile.
Recheck(c) ==
    /\ at[c] = "wait"
    /\ lock = None
    /\ IF CachedIsGood
       THEN Returns(c, cfg, "configured") /\ UNCHANGED lock
       ELSE lock' = c /\ Goto(c, "settings") /\ UNCHANGED got
    /\ UNCHANGED <<db, admin, done, cfg, fresh, rl, loading, due, wsConns>>

ReadSettings(c) ==
    /\ at[c] = "settings"
    /\ loading' = [loading EXCEPT !.settings = db["settings"]]
    /\ Goto(c, "lists")
    /\ UNCHANGED <<db, admin, done, cfg, fresh, rl, lock, got, due, wsConns>>

\* An early return that forgets the lock.
ReadSettingsFailsLocked(c) ==
    /\ at[c] = "settings"
    /\ IF cfg # None
       THEN Returns(c, cfg, "failed") /\ UNCHANGED <<lock, loading>>
       ELSE loading' = DefaultConfig /\ Goto(c, "publish") /\ UNCHANGED <<lock, got>>
    /\ UNCHANGED <<db, admin, done, cfg, fresh, rl, due, wsConns>>

\* A cached configuration is kept; without one the default is stored.
ReadSettingsFails(c) ==
    /\ at[c] = "settings"
    /\ IF cfg # None
       THEN Returns(c, cfg, "failed") /\ lock' = None /\ UNCHANGED loading
       ELSE loading' = DefaultConfig /\ Goto(c, "publish") /\ UNCHANGED <<lock, got>>
    /\ UNCHANGED <<db, admin, done, cfg, fresh, rl, due, wsConns>>

\* The errors of these reads are ignored.
ReadLists(c) ==
    /\ at[c] = "lists"
    /\ \E l \in {db["lists"], Unread} : loading' = [loading EXCEPT !.lists = l]
    /\ Goto(c, "publish")
    /\ UNCHANGED <<db, admin, done, cfg, fresh, rl, lock, got, due, wsConns>>

\* The limiter is made once.
LimiterOnce == IF rl = None THEN Rpm[loading.settings] ELSE rl

\* The limiter is made again when the rates have changed.
Limiter ==
    IF rl = None \/ cfg = None THEN Rpm[loading.settings]
    ELSE IF Rpm[cfg.settings] # Rpm[loading.settings] THEN Rpm[loading.settings]
    ELSE rl

Publish(c) ==
    /\ at[c] = "publish"
    /\ rl' = Limiter
    /\ cfg' = loading
    /\ fresh' = TRUE
    /\ lock' = None
    /\ loading' = DefaultConfig
    /\ Returns(c, loading, "configured")
    /\ UNCHANGED <<db, admin, done, due, wsConns>>

-----------------------------------------------------------------------------
(***************************************************************************)
(* What a client does with the configuration.                              *)
(***************************************************************************)

Configured(c) == at[c] \in {"configured", "failed"}

\* The configuration is used no more.
Forget(c) ==
    /\ got' = [got EXCEPT ![c] = DefaultConfig]
    /\ due' = [due EXCEPT ![c] = [k \in Kinds |-> 0]]

\* An HTTP request is let through or refused; a connection is refused.
\* The limit is the one Config returned, the counter that of the moment.
Done(c) ==
    /\ Configured(c)
    /\ Goto(c, "idle")
    /\ Forget(c)
    /\ UNCHANGED <<db, admin, done, wsConns>>
    /\ UNCHANGED cacheVars

WSAcquire(c) ==
    /\ Configured(c)
    /\ LET max == Limit[got[c].settings] IN ~(max > 0 /\ wsConns >= max)
    /\ wsConns' = wsConns + 1
    /\ Goto(c, "acquired")
    /\ Forget(c)
    /\ UNCHANGED <<db, admin, done>>
    /\ UNCHANGED cacheVars

WSRelease(c) ==
    /\ wsConns' = IF wsConns > 0 THEN wsConns - 1 ELSE wsConns
    /\ Goto(c, "idle")
    /\ UNCHANGED <<db, admin, done, got, due>>
    /\ UNCHANGED cacheVars

Upgrade(c) ==
    /\ at[c] = "acquired"
    /\ Goto(c, "open")
    /\ UNCHANGED <<db, admin, done, got, due, wsConns>>
    /\ UNCHANGED cacheVars

\* The slot is kept.
UpgradeFailsSilently(c) ==
    /\ at[c] = "acquired"
    /\ Goto(c, "idle")
    /\ UNCHANGED <<db, admin, done, got, due, wsConns>>
    /\ UNCHANGED cacheVars

UpgradeFails(c) ==
    /\ at[c] = "acquired"
    /\ WSRelease(c)

\* handleConn returns.
Close(c) ==
    /\ at[c] = "open"
    /\ WSRelease(c)

-----------------------------------------------------------------------------

Client(c) ==
    \/ CallConfig(c) \/ Check(c) \/ Recheck(c)
    \/ ReadSettings(c) \/ ReadSettingsFails(c) \/ ReadLists(c) \/ Publish(c)
    \/ Done(c) \/ WSAcquire(c) \/ Upgrade(c) \/ UpgradeFails(c) \/ Close(c)

Admin(a) ==
    \/ \E k \in Kinds : Change(a, k)
    \/ Invalidate(a)

Next ==
    \/ \E c \in Clients : Client(c)
    \/ \E a \in Admins : Admin(a)
    \/ Expire

Spec == Init /\ [][Next]_vars

-----------------------------------------------------------------------------
(***************************************************************************)
(* Properties.                                                             *)
(***************************************************************************)

\* Types of the variables; the lock is held exactly by the client that loads.
TypeOK ==
    /\ db \in [Kinds -> Versions]
    /\ admin \in [Admins -> Kinds \cup {None}]
    /\ done \in [Kinds -> Versions]
    /\ cfg \in Config \cup {None}
    /\ fresh \in BOOLEAN
    /\ rl \in Nat \cup {None}
    /\ lock \in Clients \cup {None}
    /\ loading \in Config
    /\ at \in [Clients -> Places]
    /\ got \in [Clients -> Config]
    /\ due \in [Clients -> [Kinds -> Versions]]
    /\ wsConns \in Nat
    /\ \A c \in Clients : at[c] \in {"settings", "lists", "publish"} <=> lock = c

\* A part of a configuration is at least as new as a version of the tables,
\* or stands for a table that could not be read.
Covers(config, versions) ==
    /\ config.settings = Default \/ config.settings >= versions["settings"]
    /\ config.lists = Unread \/ config.lists >= versions["lists"]

\* "InvalidateCache forces the next Config() call to reload from the DB"
\* (manager.go:150): a call of Config that begins after a change was made and
\* invalidated returns a configuration with that change, whatever reload was
\* under way then - unless its own read of the settings fails, or a failed
\* read was cached (Config, reload).
InvalidationIsSeen ==
    \A c \in Clients : at[c] = "configured" => Covers(got[c], due[c])

\* The limiter "matches the loaded config" (manager.go:158): whoever takes mu
\* finds the two in agreement, after any number of reloads and failed loads.
LimiterMatches ==
    IF cfg = None THEN rl = None ELSE rl = Rpm[cfg.settings]

\* The counter is the number of connections that hold a slot, whichever way
\* each of them ends: no slot leaks and none is given back twice (WSAcquire,
\* WSRelease, ServeHTTP in ws.go).
SlotsAccounted ==
    wsConns = Cardinality({c \in Clients : at[c] \in {"acquired", "open"}})
=============================================================================
