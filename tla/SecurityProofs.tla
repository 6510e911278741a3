--------------------------- MODULE SecurityProofs ---------------------------
(***************************************************************************)
(* What holds of internal/security for any clients, admins, limits and     *)
(* number of changes (SecurityManager), and of the token buckets for any   *)
(* rates, addresses and requests, and a clock that advances by any amounts *)
(* (RateLimiter).                                                          *)
(***************************************************************************)
EXTENDS SecurityManager, RateLimiter, FiniteSetTheorems, TLAPS

Loading(c) == at[c] \in {"settings", "lists", "publish"}
Holders == {c \in Clients : at[c] \in {"acquired", "open"}}

(* Changes are invalidated after they are made, and a client is owed no    *)
(* more than those invalidated.                                            *)
Dues ==
  \A k \in Kinds : done[k] <= db[k] /\ \A c \in Clients : due[c][k] <= done[k]

(* The cached configuration, while it is good, has every invalidated       *)
(* change, and so has what the holder of mu has read so far: Invalidate    *)
(* waits for mu, and done cannot move under a reload.                      *)
CacheCovers ==
  /\ CachedIsGood => Covers(cfg, done)
  /\ \A c \in Clients :
       /\ at[c] = "lists" => loading.settings >= done["settings"]
       /\ at[c] = "publish" => Covers(loading, done)

ManagerInv ==
  TypeOK /\ Dues /\ CacheCovers /\ InvalidationIsSeen /\ LimiterMatches /\ SlotsAccounted

-----------------------------------------------------------------------------
(* Versions are integers, and so is what stands for none.                  *)
LEMMA VersionTypes ==
  /\ Versions \subseteq Nat /\ Versions \cup {Default} \subseteq Int
  /\ Versions \cup {Unread} \subseteq Int /\ DefaultConfig \in Config
  /\ "settings" \in Kinds /\ "lists" \in Kinds /\ 0 \in Versions
BY SecurityAssumption DEF Versions, Default, Unread, DefaultConfig, Config, Kinds

(* What covers some versions covers older ones.                            *)
LEMMA CoversOlder ==
  ASSUME NEW config \in Config, NEW new \in [Kinds -> Versions], NEW old \in [Kinds -> Versions],
         Covers(config, new), \A k \in Kinds : old[k] <= new[k]
  PROVE  Covers(config, old)
<1>1. /\ config.settings \in Int /\ config.lists \in Int
      /\ \A k \in Kinds : new[k] \in Int /\ old[k] \in Int
  BY VersionTypes DEF Config
<1>q. QED BY <1>1, VersionTypes DEF Covers

(* At the start nothing is cached, held or owed.                           *)
LEMMA ManagerInit == Init => ManagerInv
<1> SUFFICES ASSUME Init PROVE ManagerInv OBVIOUS
<1>1. TypeOK BY SecurityAssumption, VersionTypes DEF Init, TypeOK, Places
<1>2. Dues BY SecurityAssumption DEF Init, Dues
<1>3. CacheCovers /\ InvalidationIsSeen
  BY DEF Init, CacheCovers, CachedIsGood, InvalidationIsSeen
<1>4. LimiterMatches BY DEF Init, LimiterMatches
<1>5. SlotsAccounted
  <2>1. {c \in Clients : at[c] \in {"acquired", "open"}} = {} BY DEF Init
  <2>q. QED BY <2>1, FS_EmptySet DEF Init, SlotsAccounted
<1>q. QED BY <1>1, <1>2, <1>3, <1>4, <1>5 DEF ManagerInv

(* Nobody but the holder of mu loads.                                      *)
LEMMA OneLoads ==
  ASSUME TypeOK, NEW c \in Clients, NEW d \in Clients, Loading(c), Loading(d)
  PROVE  c = d /\ lock = c
BY DEF TypeOK, Loading

(* A client that takes or gives back no slot leaves the count right.       *)
LEMMA SlotsKept ==
  ASSUME SlotsAccounted, TypeOK, NEW c \in Clients, NEW place \in Places,
         at' = [at EXCEPT ![c] = place],
         at[c] \in {"acquired", "open"} <=> place \in {"acquired", "open"}, wsConns' = wsConns
  PROVE  SlotsAccounted'
<1>1. \A d \in Clients :
        at'[d] \in {"acquired", "open"} <=> at[d] \in {"acquired", "open"}
  BY DEF TypeOK
<1>q. QED BY <1>1 DEF SlotsAccounted

(* One that takes a slot is counted.                                       *)
LEMMA SlotTaken ==
  ASSUME SlotsAccounted, TypeOK, NEW c \in Clients, at[c] \notin {"acquired", "open"},
         at' = [at EXCEPT ![c] = "acquired"], wsConns' = wsConns + 1
  PROVE  SlotsAccounted'
<1>1. Holders' = Holders \cup {c} /\ c \notin Holders BY DEF Holders, TypeOK
<1>2. IsFiniteSet(Holders) BY SecurityAssumption, FS_Subset DEF Holders
<1>3. Cardinality(Holders \cup {c}) = Cardinality(Holders) + 1 BY <1>1, <1>2, FS_AddElement
<1>q. QED BY <1>1, <1>3 DEF SlotsAccounted, Holders

(* One that gives it back is counted no more; the counter is not zero.     *)
LEMMA SlotReleased ==
  ASSUME SlotsAccounted, TypeOK, NEW c \in Clients, at[c] \in {"acquired", "open"}, WSRelease(c)
  PROVE  SlotsAccounted' /\ wsConns' \in Nat
<1>1. Holders' = Holders \ {c} /\ c \in Holders BY DEF Holders, TypeOK, WSRelease, Goto
<1>2. IsFiniteSet(Holders) BY SecurityAssumption, FS_Subset DEF Holders
<1>3. Cardinality(Holders \ {c}) = Cardinality(Holders) - 1 BY <1>1, <1>2, FS_RemoveElement
<1>4. Cardinality(Holders) \in Nat /\ Cardinality(Holders) # 0
  BY <1>1, <1>2, FS_CardinalityType, FS_EmptySet
<1>5. wsConns = Cardinality(Holders) BY DEF SlotsAccounted, Holders
<1>6. wsConns' = wsConns - 1 BY <1>4, <1>5 DEF WSRelease
<1>q. QED BY <1>1, <1>3, <1>4, <1>5, <1>6 DEF SlotsAccounted, Holders

-----------------------------------------------------------------------------
(* The admin API.  A change makes db newer than what anyone is owed.       *)
LEMMA AdminInv ==
  ASSUME ManagerInv, NEW a \in Admins, Admin(a)
  PROVE  ManagerInv'
<1>0. TypeOK /\ Dues /\ CacheCovers /\ InvalidationIsSeen /\ LimiterMatches /\ SlotsAccounted
  BY DEF ManagerInv
<1>1. ASSUME NEW k \in Kinds, Change(a, k) PROVE ManagerInv'
  <2>0. UNCHANGED <<done, at, got, due, wsConns, cfg, fresh, rl, lock, loading>>
    BY <1>1 DEF Change, cacheVars
  <2>1. TypeOK' /\ \A x \in Kinds : db'[x] \in Nat /\ db[x] \in Nat /\ db[x] <= db'[x]
    <3>1. \A x \in Kinds : db[x] \in 0..MaxChanges BY <1>0 DEF TypeOK, Versions
    <3>2. \A x \in Kinds : db'[x] = IF x = k THEN db[x] + 1 ELSE db[x]
      BY <1>0, <1>1 DEF Change, TypeOK
    <3>3. \A x \in Kinds : db'[x] \in 0..MaxChanges /\ db[x] <= db'[x]
      BY <1>1, <3>1, <3>2, SecurityAssumption DEF Change
    <3>4. db' \in [Kinds -> Versions] BY <1>0, <1>1, <3>3 DEF Change, TypeOK, Versions
    <3>5. admin' \in [Admins -> Kinds \cup {None}] BY <1>0, <1>1 DEF Change, TypeOK
    <3>q. QED BY <1>0, <2>0, <3>1, <3>3, <3>4, <3>5, SecurityAssumption DEF TypeOK
  <2>2. Dues'
    <3>1. \A x \in Kinds : done[x] \in Nat BY <1>0, VersionTypes DEF TypeOK
    <3>q. QED BY <1>0, <2>0, <2>1, <3>1 DEF Dues
  <2>3. CacheCovers' /\ InvalidationIsSeen' /\ LimiterMatches' /\ SlotsAccounted'
    BY <1>0, <2>0
    DEF CacheCovers, CachedIsGood, Covers, InvalidationIsSeen, LimiterMatches, SlotsAccounted
  <2>q. QED BY <2>1, <2>2, <2>3 DEF ManagerInv
<1>2. CASE Invalidate(a)
  <2>0. /\ UNCHANGED <<db, cfg, rl, lock, loading, at, got, due, wsConns>>
        /\ fresh' = FALSE /\ lock = None /\ admin[a] \in Kinds
        /\ done' = [done EXCEPT ![admin[a]] = db[admin[a]]]
    BY <1>0, <1>2 DEF Invalidate, TypeOK
  <2>1. TypeOK'
    <3>1. done' \in [Kinds -> Versions] BY <1>0, <2>0 DEF TypeOK
    <3>2. admin' \in [Admins -> Kinds \cup {None}] BY <1>0, <1>2 DEF Invalidate, TypeOK
    <3>q. QED BY <1>0, <2>0, <3>1, <3>2 DEF TypeOK
  <2>2. \A k \in Kinds : done[k] <= done'[k] /\ done'[k] <= db[k]
    <3>1. \A k \in Kinds : db[k] \in Nat /\ done[k] \in Nat BY <1>0, VersionTypes DEF TypeOK
    <3>2. \A k \in Kinds : done'[k] = IF k = admin[a] THEN db[k] ELSE done[k]
      BY <1>0, <2>0 DEF TypeOK
    <3>q. QED BY <1>0, <3>1, <3>2 DEF Dues
  <2>3. Dues'
    <3>1. \A k \in Kinds : /\ done[k] \in Nat /\ done'[k] \in Nat
                           /\ \A c \in Clients : due[c][k] \in Nat
      BY <1>0, <2>1, VersionTypes DEF TypeOK
    <3>q. QED BY <1>0, <2>0, <2>2, <3>1 DEF Dues
  <2>4. CacheCovers'
    <3>1. \A c \in Clients : at[c] \notin {"lists", "publish"}
      BY <1>0, <2>0, SecurityAssumption DEF TypeOK
    <3>q. QED BY <2>0, <3>1 DEF CacheCovers, CachedIsGood
  <2>5. InvalidationIsSeen' /\ LimiterMatches' /\ SlotsAccounted'
    BY <1>0, <2>0 DEF InvalidationIsSeen, Covers, LimiterMatches, SlotsAccounted
  <2>q. QED BY <2>1, <2>3, <2>4, <2>5 DEF ManagerInv
<1>q. QED BY <1>1, <1>2 DEF Admin

(* A client comes to Config: it is owed what was invalidated before.       *)
LEMMA CallConfigInv ==
  ASSUME ManagerInv, NEW c \in Clients, CallConfig(c)
  PROVE  ManagerInv'
<1>0. TypeOK /\ Dues /\ CacheCovers /\ InvalidationIsSeen /\ LimiterMatches /\ SlotsAccounted
  BY DEF ManagerInv
<1>1. /\ UNCHANGED <<db, admin, done, got, wsConns, cfg, fresh, rl, lock, loading>>
      /\ at[c] = "idle" /\ at' = [at EXCEPT ![c] = "check"]
      /\ due' = [due EXCEPT ![c] = done]
  BY DEF CallConfig, cacheVars, Goto
<1>2. TypeOK'
  <2>1. due' \in [Clients -> [Kinds -> Versions]] BY <1>0, <1>1 DEF TypeOK
  <2>2. at' \in [Clients -> Places] BY <1>0, <1>1 DEF TypeOK, Places
  <2>3. \A d \in Clients : at'[d] \in {"settings", "lists", "publish"} <=> lock = d
    BY <1>0, <1>1 DEF TypeOK
  <2>q. QED BY <1>0, <1>1, <2>1, <2>2, <2>3 DEF TypeOK
<1>3. Dues'
  <2>1. \A k \in Kinds : done[k] \in Nat BY <1>0, VersionTypes DEF TypeOK
  <2>2. \A d \in Clients : due'[d] = IF d = c THEN done ELSE due[d] BY <1>0, <1>1 DEF TypeOK
  <2>q. QED BY <1>0, <1>1, <2>1, <2>2 DEF Dues
<1>4. CacheCovers' BY <1>0, <1>1 DEF CacheCovers, CachedIsGood, Covers, TypeOK
<1>5. InvalidationIsSeen' BY <1>0, <1>1 DEF InvalidationIsSeen, Covers, TypeOK
<1>6. LimiterMatches' BY <1>0, <1>1 DEF LimiterMatches
<1>7. SlotsAccounted' BY <1>0, <1>1, SlotsKept DEF Places
<1>q. QED BY <1>2, <1>3, <1>4, <1>5, <1>6, <1>7 DEF ManagerInv

(* A client that is handed a good configuration has what it is owed.       *)
LEMMA HandedOver ==
  ASSUME ManagerInv, NEW c \in Clients, NEW config \in Config, Covers(config, done)
  PROVE  Covers(config, due[c])
<1>1. done \in [Kinds -> Versions] /\ due[c] \in [Kinds -> Versions] BY DEF ManagerInv, TypeOK
<1>2. \A k \in Kinds : due[c][k] <= done[k] BY DEF ManagerInv, Dues
<1>q. QED BY <1>1, <1>2, CoversOlder

(* Config, under either lock.  All it changes is where the client is, what *)
(* it got and who holds mu.                                                *)
LEMMA CheckInv ==
  ASSUME ManagerInv, NEW c \in Clients, Check(c) \/ Recheck(c)
  PROVE  ManagerInv'
<1>0. TypeOK /\ Dues /\ CacheCovers /\ InvalidationIsSeen /\ LimiterMatches /\ SlotsAccounted
  BY DEF ManagerInv
<1>1. /\ UNCHANGED <<db, admin, done, cfg, fresh, rl, loading, due, wsConns>>
      /\ at[c] \in {"check", "wait"} /\ lock = None
  BY DEF Check, Recheck, cacheVars
<1>2. PICK place \in {"configured", "wait", "settings"} :
        /\ at' = [at EXCEPT ![c] = place]
        /\ lock' = IF place = "settings" THEN c ELSE None
        /\ IF place = "configured"
           THEN CachedIsGood /\ got' = [got EXCEPT ![c] = cfg]
           ELSE got' = got
  BY <1>1 DEF Check, Recheck, Returns, Goto, cacheVars
<1>3. \A d \in Clients : at[d] \notin {"settings", "lists", "publish"}
  BY <1>0, <1>1, SecurityAssumption DEF TypeOK
<1>4. /\ at'[c] = place /\ \A d \in Clients \ {c} : at'[d] = at[d]
      /\ \A d \in Clients \ {c} : got'[d] = got[d]
  BY <1>0, <1>2 DEF TypeOK
<1>5. CachedIsGood => cfg \in Config /\ Covers(cfg, done)
  BY <1>0 DEF CachedIsGood, CacheCovers, TypeOK
<1>6. TypeOK'
  <2>1. got' \in [Clients -> Config] BY <1>0, <1>2, <1>5 DEF TypeOK
  <2>2. at' \in [Clients -> Places] BY <1>0, <1>2 DEF TypeOK, Places
  <2>3. \A d \in Clients : at'[d] \in {"settings", "lists", "publish"} <=> lock' = d
    BY <1>2, <1>3, <1>4, SecurityAssumption
  <2>4. lock' \in Clients \cup {None} BY <1>2
  <2>q. QED BY <1>0, <1>1, <2>1, <2>2, <2>3, <2>4 DEF TypeOK
<1>7. Dues' /\ LimiterMatches' BY <1>0, <1>1 DEF Dues, LimiterMatches
<1>8. CacheCovers'
  BY <1>0, <1>1, <1>2, <1>3, <1>4 DEF CacheCovers, CachedIsGood, Covers
<1>9. InvalidationIsSeen'
  <2>1. ASSUME NEW d \in Clients, at'[d] = "configured" PROVE Covers(got'[d], due[d])
    <3>1. CASE d = c
      <4>1. CachedIsGood /\ got'[c] = cfg BY <1>0, <1>2, <1>4, <2>1, <3>1 DEF TypeOK
      <4>q. QED BY <1>5, <3>1, <4>1, HandedOver
    <3>2. CASE d # c BY <1>0, <1>4, <2>1, <3>2 DEF InvalidationIsSeen
    <3>q. QED BY <3>1, <3>2
  <2>q. QED BY <1>1, <2>1 DEF InvalidationIsSeen, Covers
<1>10. SlotsAccounted' BY <1>0, <1>1, <1>2, SlotsKept DEF Places
<1>q. QED BY <1>6, <1>7, <1>8, <1>9, <1>10 DEF ManagerInv

(* A reload reads the settings, then the lists: no change is invalidated   *)
(* between, so what it has read is no older than what is owed.             *)
LEMMA ReadInv ==
  ASSUME ManagerInv, NEW c \in Clients, ReadSettings(c) \/ ReadLists(c)
  PROVE  ManagerInv'
<1>0. TypeOK /\ Dues /\ CacheCovers /\ InvalidationIsSeen /\ LimiterMatches /\ SlotsAccounted
  BY DEF ManagerInv
<1>1. /\ UNCHANGED <<db, admin, done, cfg, fresh, rl, lock, got, due, wsConns>>
      /\ Loading(c)
  BY DEF ReadSettings, ReadLists, Loading
<1>2. lock = c /\ \A d \in Clients \ {c} : at[d] \notin {"settings", "lists", "publish"}
  BY <1>0, <1>1, OneLoads DEF Loading
<1>3. /\ loading \in Config /\ db["settings"] \in Versions /\ db["lists"] \in Versions
      /\ done["settings"] \in Int /\ done["lists"] \in Int
  BY <1>0, VersionTypes DEF TypeOK
<1>4. PICK place \in {"lists", "publish"} :
        /\ at' = [at EXCEPT ![c] = place] /\ loading' \in Config
        /\ place = "lists" => loading'.settings >= done["settings"]
        /\ place = "publish" => Covers(loading', done)
  <2>1. CASE ReadSettings(c)
    <3>1. /\ at' = [at EXCEPT ![c] = "lists"]
          /\ loading' = [loading EXCEPT !.settings = db["settings"]]
      BY <2>1 DEF ReadSettings, Goto
    <3>2. loading' \in Config /\ loading'.settings = db["settings"] BY <1>3, <3>1 DEF Config
    <3>3. db["settings"] >= done["settings"]
      BY <1>0, <1>3, VersionTypes DEF Dues
    <3>q. QED BY <3>1, <3>2, <3>3
  <2>2. CASE ReadLists(c)
    <3>1. PICK l \in {db["lists"], Unread} : loading' = [loading EXCEPT !.lists = l]
      BY <2>2 DEF ReadLists
    <3>2. /\ loading' \in Config /\ loading'.settings = loading.settings /\ loading'.lists = l
      BY <1>3, <3>1 DEF Config
    <3>3. db["lists"] >= done["lists"] BY <1>0, <1>3, VersionTypes DEF Dues
    <3>4. loading.settings >= done["settings"] BY <1>0, <2>2 DEF CacheCovers, ReadLists
    <3>5. at' = [at EXCEPT ![c] = "publish"] BY <2>2 DEF ReadLists, Goto
    <3>q. QED BY <3>1, <3>2, <3>3, <3>4, <3>5 DEF Covers
  <2>q. QED BY <2>1, <2>2
<1>5. at'[c] = place /\ \A d \in Clients \ {c} : at'[d] = at[d] BY <1>0, <1>4 DEF TypeOK
<1>6. TypeOK'
  <2>1. at' \in [Clients -> Places] BY <1>0, <1>4 DEF TypeOK, Places
  <2>2. \A d \in Clients : at'[d] \in {"settings", "lists", "publish"} <=> lock = d
    BY <1>2, <1>5
  <2>q. QED BY <1>0, <1>1, <1>4, <2>1, <2>2 DEF TypeOK
<1>7. Dues' /\ LimiterMatches' BY <1>0, <1>1 DEF Dues, LimiterMatches
<1>8. CacheCovers'
  <2>1. CachedIsGood' => Covers(cfg, done)' BY <1>0, <1>1 DEF CacheCovers, CachedIsGood, Covers
  <2>2. ASSUME NEW d \in Clients
        PROVE  /\ at'[d] = "lists" => loading'.settings >= done'["settings"]
               /\ at'[d] = "publish" => Covers(loading, done)'
    <3>1. CASE d = c BY <1>1, <1>4, <1>5, <3>1 DEF Covers
    <3>2. CASE d # c BY <1>2, <1>5, <3>2
    <3>q. QED BY <3>1, <3>2
  <2>q. QED BY <2>1, <2>2 DEF CacheCovers
<1>9. InvalidationIsSeen' BY <1>0, <1>1, <1>4, <1>5 DEF InvalidationIsSeen, Covers
<1>10. SlotsAccounted' BY <1>0, <1>1, <1>4, SlotsKept DEF Places, Loading
<1>q. QED BY <1>6, <1>7, <1>8, <1>9, <1>10 DEF ManagerInv

(* A failed read gives back mu with the cached configuration, or goes on   *)
(* to publish the default, which covers anything.                          *)
LEMMA ReadFailsInv ==
  ASSUME ManagerInv, NEW c \in Clients, ReadSettingsFails(c)
  PROVE  ManagerInv'
<1>0. TypeOK /\ Dues /\ CacheCovers /\ InvalidationIsSeen /\ LimiterMatches /\ SlotsAccounted
  BY DEF ManagerInv
<1>1. /\ UNCHANGED <<db, admin, done, cfg, fresh, rl, due, wsConns>>
      /\ at[c] = "settings"
  BY DEF ReadSettingsFails
<1>2. lock = c /\ \A d \in Clients \ {c} : at[d] \notin {"settings", "lists", "publish"}
  BY <1>0, <1>1, OneLoads DEF Loading
<1>3. PICK place \in {"failed", "publish"} :
        /\ at' = [at EXCEPT ![c] = place]
        /\ IF place = "failed" THEN cfg # None /\ got' = [got EXCEPT ![c] = cfg] ELSE got' = got
        /\ lock' = IF place = "failed" THEN None ELSE c
        /\ loading' = IF place = "failed" THEN loading ELSE DefaultConfig
  BY <1>2 DEF ReadSettingsFails, Returns, Goto
<1>4. /\ at'[c] = place /\ \A d \in Clients \ {c} : at'[d] = at[d]
      /\ \A d \in Clients \ {c} : got'[d] = got[d]
  BY <1>0, <1>3 DEF TypeOK
<1>5. TypeOK'
  <2>1. at' \in [Clients -> Places] BY <1>0, <1>3 DEF TypeOK, Places
  <2>2. got' \in [Clients -> Config] /\ loading' \in Config
    BY <1>0, <1>3, VersionTypes DEF TypeOK
  <2>3. \A d \in Clients : at'[d] \in {"settings", "lists", "publish"} <=> lock' = d
    BY <1>2, <1>3, <1>4, SecurityAssumption
  <2>q. QED BY <1>0, <1>1, <1>3, <2>1, <2>2, <2>3 DEF TypeOK
<1>6. Dues' /\ LimiterMatches' BY <1>0, <1>1 DEF Dues, LimiterMatches
<1>7. CacheCovers'
  <2>1. CachedIsGood' => Covers(cfg, done)' BY <1>0, <1>1 DEF CacheCovers, CachedIsGood, Covers
  <2>2. ASSUME NEW d \in Clients
        PROVE  /\ at'[d] = "lists" => loading'.settings >= done'["settings"]
               /\ at'[d] = "publish" => Covers(loading, done)'
    <3>1. CASE d = c BY <1>3, <1>4, <3>1 DEF Covers, DefaultConfig
    <3>2. CASE d # c BY <1>2, <1>4, <3>2
    <3>q. QED BY <3>1, <3>2
  <2>q. QED BY <2>1, <2>2 DEF CacheCovers
<1>8. InvalidationIsSeen' BY <1>0, <1>1, <1>3, <1>4 DEF InvalidationIsSeen, Covers
<1>9. SlotsAccounted' BY <1>0, <1>1, <1>3, SlotsKept DEF Places
<1>q. QED BY <1>5, <1>6, <1>7, <1>8, <1>9 DEF ManagerInv

(* What is published is what was read, and the limiter goes with it.       *)
LEMMA PublishInv ==
  ASSUME ManagerInv, NEW c \in Clients, Publish(c)
  PROVE  ManagerInv'
<1>0. TypeOK /\ Dues /\ CacheCovers /\ InvalidationIsSeen /\ LimiterMatches /\ SlotsAccounted
  BY DEF ManagerInv
<1>1. /\ UNCHANGED <<db, admin, done, due, wsConns>>
      /\ at[c] = "publish" /\ at' = [at EXCEPT ![c] = "configured"]
      /\ rl' = Limiter /\ cfg' = loading /\ fresh' = TRUE /\ lock' = None
      /\ loading' = DefaultConfig /\ got' = [got EXCEPT ![c] = loading]
  BY DEF Publish, Returns, Goto
<1>2. lock = c /\ \A d \in Clients \ {c} : at[d] \notin {"settings", "lists", "publish"}
  BY <1>0, <1>1, OneLoads DEF Loading
<1>3. /\ at'[c] = "configured" /\ \A d \in Clients \ {c} : at'[d] = at[d]
      /\ got'[c] = loading /\ \A d \in Clients \ {c} : got'[d] = got[d]
  BY <1>0, <1>1 DEF TypeOK
<1>4. Covers(loading, done) /\ loading \in Config BY <1>0, <1>1 DEF CacheCovers, TypeOK
<1>5. loading.settings \in Versions \cup {Default} /\ Rpm[loading.settings] \in Nat
  BY <1>4, SecurityAssumption DEF Config
<1>6. LimiterMatches' /\ rl' \in Nat
  <2>1. rl' = Rpm[loading.settings]
    <3>1. CASE rl = None \/ cfg = None BY <1>1, <3>1 DEF Limiter
    <3>2. CASE rl # None /\ cfg # None
      <4>1. rl = Rpm[cfg.settings] BY <1>0, <3>2 DEF LimiterMatches
      <4>q. QED BY <1>1, <3>2, <4>1 DEF Limiter
    <3>q. QED BY <3>1, <3>2
  <2>2. cfg' # None BY <1>1, <1>4, NoneIsNoConfig
  <2>q. QED BY <1>1, <1>5, <2>1, <2>2 DEF LimiterMatches
<1>7. TypeOK'
  <2>1. at' \in [Clients -> Places] BY <1>0, <1>1 DEF TypeOK, Places
  <2>2. got' \in [Clients -> Config] /\ cfg' \in Config /\ loading' \in Config
    BY <1>0, <1>1, <1>4, VersionTypes DEF TypeOK
  <2>3. \A d \in Clients : at'[d] \in {"settings", "lists", "publish"} <=> lock' = d
    BY <1>1, <1>2, <1>3, SecurityAssumption
  <2>q. QED BY <1>0, <1>1, <1>6, <2>1, <2>2, <2>3 DEF TypeOK
<1>8. Dues' BY <1>0, <1>1 DEF Dues
<1>9. CacheCovers'
  <2>1. Covers(cfg, done)' BY <1>1, <1>4 DEF Covers
  <2>2. \A d \in Clients : at'[d] \notin {"lists", "publish"} BY <1>2, <1>3
  <2>q. QED BY <2>1, <2>2 DEF CacheCovers
<1>10. InvalidationIsSeen'
  <2>1. ASSUME NEW d \in Clients, at'[d] = "configured" PROVE Covers(got'[d], due[d])
    <3>1. CASE d = c BY <1>3, <1>4, <3>1, HandedOver
    <3>2. CASE d # c BY <1>0, <1>3, <2>1, <3>2 DEF InvalidationIsSeen
    <3>q. QED BY <3>1, <3>2
  <2>q. QED BY <1>1, <2>1 DEF InvalidationIsSeen, Covers
<1>11. SlotsAccounted' BY <1>0, <1>1, SlotsKept DEF Places
<1>q. QED BY <1>6, <1>7, <1>8, <1>9, <1>10, <1>11 DEF ManagerInv

(* What a client does with its configuration and its slot moves nothing    *)
(* but the client and the counter.                                         *)
LEMMA UseInv ==
  ASSUME ManagerInv, NEW c \in Clients,
         Done(c) \/ WSAcquire(c) \/ Upgrade(c) \/ UpgradeFails(c) \/ Close(c)
  PROVE  ManagerInv'
<1>0. TypeOK /\ Dues /\ CacheCovers /\ InvalidationIsSeen /\ LimiterMatches /\ SlotsAccounted
  BY DEF ManagerInv
<1>1. /\ UNCHANGED <<db, admin, done, cfg, fresh, rl, lock, loading>>
      /\ at[c] \in {"configured", "failed", "acquired", "open"}
      /\ (got' = got /\ due' = due) \/ Forget(c)
  BY DEF Done, WSAcquire, Upgrade, UpgradeFails, Close, WSRelease, Configured, cacheVars
<1>2. PICK place \in {"idle", "acquired", "open"} : at' = [at EXCEPT ![c] = place]
  BY DEF Done, WSAcquire, Upgrade, UpgradeFails, Close, WSRelease, Goto
<1>3. /\ at'[c] = place /\ \A d \in Clients \ {c} : at'[d] = at[d]
      /\ \A d \in Clients \ {c} : got'[d] = got[d] /\ due'[d] = due[d]
      /\ due'[c] = due[c] \/ due'[c] = [k \in Kinds |-> 0]
      /\ got' \in [Clients -> Config] /\ due' \in [Clients -> [Kinds -> Versions]]
  <2>1. at'[c] = place /\ \A d \in Clients \ {c} : at'[d] = at[d] BY <1>0, <1>2 DEF TypeOK
  <2>2. CASE got' = got /\ due' = due BY <1>0, <2>1, <2>2 DEF TypeOK
  <2>3. CASE Forget(c)
    <3>1. [k \in Kinds |-> 0] \in [Kinds -> Versions] BY VersionTypes
    <3>q. QED BY <1>0, <2>1, <2>3, <3>1, VersionTypes DEF Forget, TypeOK
  <2>q. QED BY <1>1, <2>2, <2>3
<1>4. SlotsAccounted' /\ wsConns' \in Nat
  <2>1. CASE Done(c)
    <3>1. at' = [at EXCEPT ![c] = "idle"] /\ wsConns' = wsConns
          /\ at[c] \notin {"acquired", "open"}
      BY <2>1 DEF Done, Goto, Configured
    <3>q. QED BY <1>0, <3>1, SlotsKept DEF TypeOK, Places
  <2>2. CASE WSAcquire(c)
    <3>1. at' = [at EXCEPT ![c] = "acquired"] /\ wsConns' = wsConns + 1
          /\ at[c] \notin {"acquired", "open"}
      BY <2>2 DEF WSAcquire, Goto, Configured
    <3>2. SlotsAccounted' BY <1>0, <3>1, SlotTaken
    <3>q. QED BY <1>0, <3>1, <3>2 DEF TypeOK
  <2>3. CASE Upgrade(c)
    <3>1. at' = [at EXCEPT ![c] = "open"] /\ wsConns' = wsConns /\ at[c] = "acquired"
      BY <2>3 DEF Upgrade, Goto
    <3>q. QED BY <1>0, <3>1, SlotsKept DEF TypeOK, Places
  <2>4. CASE UpgradeFails(c) \/ Close(c)
    BY <1>0, <2>4, SlotReleased DEF UpgradeFails, Close
  <2>q. QED BY <2>1, <2>2, <2>3, <2>4
<1>5. TypeOK'
  <2>1. at' \in [Clients -> Places] BY <1>0, <1>2 DEF TypeOK, Places
  <2>2. \A d \in Clients : at'[d] \in {"settings", "lists", "publish"} <=> lock = d
    BY <1>0, <1>1, <1>3 DEF TypeOK
  <2>q. QED BY <1>0, <1>1, <1>3, <1>4, <2>1, <2>2 DEF TypeOK
<1>6. Dues'
  <2>1. \A k \in Kinds : 0 <= done[k] /\ [x \in Kinds |-> 0][k] = 0
    BY <1>0, VersionTypes DEF TypeOK
  <2>2. ASSUME NEW k \in Kinds, NEW d \in Clients PROVE due'[d][k] <= done[k]
    <3>1. CASE d = c /\ due'[c] = [x \in Kinds |-> 0] BY <2>1, <3>1
    <3>2. CASE due'[d] = due[d] BY <1>0, <3>2 DEF Dues
    <3>q. QED BY <1>3, <3>1, <3>2
  <2>q. QED BY <1>0, <1>1, <2>2 DEF Dues
<1>7. CacheCovers' /\ LimiterMatches'
  BY <1>0, <1>1, <1>3 DEF CacheCovers, CachedIsGood, Covers, LimiterMatches
<1>8. InvalidationIsSeen' BY <1>0, <1>3 DEF InvalidationIsSeen, Covers
<1>q. QED BY <1>4, <1>5, <1>6, <1>7, <1>8 DEF ManagerInv

(* No step of the manager or its clients breaks the invariant.             *)
LEMMA ManagerNext == ManagerInv /\ [Next]_vars => ManagerInv'
<1> SUFFICES ASSUME ManagerInv, [Next]_vars PROVE ManagerInv' OBVIOUS
<1>1. ASSUME NEW c \in Clients, Client(c) PROVE ManagerInv'
  BY <1>1, CallConfigInv, CheckInv, ReadInv, ReadFailsInv, PublishInv, UseInv DEF Client
<1>2. ASSUME NEW a \in Admins, Admin(a) PROVE ManagerInv' BY <1>2, AdminInv
<1>3. CASE Expire
  BY <1>3 DEF Expire, ManagerInv, TypeOK, Dues, CacheCovers, CachedIsGood, Covers,
     InvalidationIsSeen, LimiterMatches, SlotsAccounted
<1>4. CASE UNCHANGED vars
  BY <1>4 DEF vars, cacheVars, ManagerInv, TypeOK, Dues, CacheCovers, CachedIsGood, Covers,
     InvalidationIsSeen, LimiterMatches, SlotsAccounted
<1>q. QED BY <1>1, <1>2, <1>3, <1>4 DEF Next

(* The invariant holds in every state of every run of the manager.         *)
THEOREM ManagerInductive == Spec => []ManagerInv
<1>q. QED BY ManagerInit, ManagerNext, PTL DEF Spec

(* Every variable keeps its type, and mu is held by whoever loads and by   *)
(* nobody else (reload returns it on every path).                          *)
THEOREM ManagerTypeCorrect == Spec => []TypeOK
<1>1. ManagerInv => TypeOK BY DEF ManagerInv
<1>q. QED BY ManagerInductive, <1>1, PTL

(* A call of Config that begins after a change was invalidated returns a   *)
(* configuration with it (InvalidateCache, Config, reload).                *)
THEOREM InvalidationAlwaysSeen == Spec => []InvalidationIsSeen
<1>1. ManagerInv => InvalidationIsSeen BY DEF ManagerInv
<1>q. QED BY ManagerInductive, <1>1, PTL

(* The limiter is the one for the cached configuration (reload).           *)
THEOREM LimiterAlwaysMatches == Spec => []LimiterMatches
<1>1. ManagerInv => LimiterMatches BY DEF ManagerInv
<1>q. QED BY ManagerInductive, <1>1, PTL

(* The counter is the number of slots held (WSAcquire, WSRelease,          *)
(* ServeHTTP).                                                             *)
THEOREM SlotsAlwaysAccounted == Spec => []SlotsAccounted
<1>1. ManagerInv => SlotsAccounted BY DEF ManagerInv
<1>q. QED BY ManagerInductive, <1>1, PTL

-----------------------------------------------------------------------------
(* A request takes from a bucket that is there.                            *)
Held == \A r \in Requests : stage[r] = "take" => buckets[serving[r]] # Absent

LimiterInv == LimiterTypeOK /\ GlobalBound /\ PerIPBound /\ Held

-----------------------------------------------------------------------------
(* What the rate adds between two times.                                   *)
LEMMA Accrual ==
  \A rpm \in Nat : \A a, b, s \in Int :
    a <= b => /\ (b - a) * rpm \in Nat
              /\ rpm * (Whole + (a - s)) + (b - a) * rpm = rpm * (Whole + (b - s))
<1> SUFFICES ASSUME NEW rpm \in Nat, NEW a \in Int, NEW b \in Int, NEW s \in Int, a <= b
             PROVE  /\ (b - a) * rpm \in Nat
                    /\ rpm * (Whole + (a - s)) + (b - a) * rpm = rpm * (Whole + (b - s))
  OBVIOUS
<1>1. b - a \in Nat OBVIOUS
<1>2. (b - a) * rpm \in Nat BY <1>1
<1>3. rpm * (Whole + (a - s)) + (b - a) * rpm = rpm * (Whole + (b - s)) BY SMT DEF Whole
<1>q. QED BY <1>2, <1>3

(* The same of the time since a bucket was last refilled.                  *)
LEMMA Gained ==
  ASSUME NEW rpm \in Nat, NEW b \in Bucket, now \in Nat, NEW start \in Int, b.last <= now
  PROVE  /\ (now - b.last) * rpm \in Nat
         /\ rpm * (Whole + (b.last - start)) + (now - b.last) * rpm
              = rpm * (Whole + (now - start))
<1>1. b.last \in Int /\ now \in Int BY DEF Bucket
<1>2. \A s \in Int :
        b.last <= now => /\ (now - b.last) * rpm \in Nat
                         /\ rpm * (Whole + (b.last - s)) + (now - b.last) * rpm
                              = rpm * (Whole + (now - s))
  BY <1>1, Accrual, Zenon
<1>q. QED BY <1>2

(* Taking from a bucket keeps it a bucket, and keeps its bound: what the   *)
(* tokens taken and left weigh grows by what the rate has added at most.   *)
LEMMA TakeBound ==
  ASSUME NEW rpm \in Nat, NEW b \in Bucket, now \in Nat, b.last <= now,
         NEW start \in Int, NEW n \in Nat,
         Whole * n + b.tokens <= rpm * (Whole + (b.last - start)),
         b.tokens <= Whole * rpm
  PROVE  /\ AfterTake(b, rpm) \in Bucket
         /\ AfterTake(b, rpm).last = now
         /\ Whole * (IF HasToken(b, rpm) THEN n + 1 ELSE n) + AfterTake(b, rpm).tokens
              <= rpm * (Whole + (now - start))
         /\ AfterTake(b, rpm).tokens <= Whole * rpm
<1>0. /\ (now - b.last) * rpm \in Nat
      /\ rpm * (Whole + (b.last - start)) + (now - b.last) * rpm
           = rpm * (Whole + (now - start))
  BY Gained
<1> DEFINE gain == (now - b.last) * rpm
           full == Whole * rpm
           before == rpm * (Whole + (b.last - start))
           after == rpm * (Whole + (now - start))
           level == Refill(b, rpm)
<1>1. b.tokens \in Nat /\ b.last \in Nat BY DEF Bucket
<1>2. gain \in Nat /\ before + gain = after
  BY <1>0, Zenon
<1>3. full \in Nat BY DEF Whole
<1>4. before \in Int /\ after \in Int
  <2>1. Whole + (b.last - start) \in Int /\ Whole + (now - start) \in Int BY <1>1 DEF Whole
  <2>2. \A x \in Int : rpm * x \in Int OBVIOUS
  <2>q. QED BY <2>1, <2>2
<1>5. level = IF b.tokens + gain > full THEN full ELSE b.tokens + gain
  BY DEF Refill
<1>6. Whole = 60 BY DEF Whole
<1>7. Whole * n + b.tokens <= before /\ b.tokens <= full OBVIOUS
<1> HIDE DEF gain, full, before, after
<1>8. level \in Nat /\ level <= full /\ level <= b.tokens + gain
  BY <1>1, <1>2, <1>3, <1>5
<1>9. /\ HasToken(b, rpm) = (level >= 60)
      /\ AfterTake(b, rpm) = IF level >= 60 THEN [tokens |-> level - 60, last |-> now]
                             ELSE [tokens |-> level, last |-> now]
  BY <1>6 DEF HasToken, AfterTake
<1> HIDE DEF level
<1>10. CASE level >= 60
  <2>1. HasToken(b, rpm) /\ AfterTake(b, rpm) = [tokens |-> level - 60, last |-> now]
    BY <1>9, <1>10
  <2>2. level - 60 \in Nat /\ level - 60 <= full BY <1>3, <1>8, <1>10
  <2>3. 60 * (n + 1) + (level - 60) <= after
    BY <1>1, <1>2, <1>4, <1>6, <1>7, <1>8
  <2>q. QED BY <1>6, <2>1, <2>2, <2>3 DEF Bucket, full, after
<1>11. CASE ~(level >= 60)
  <2>1. ~HasToken(b, rpm) /\ AfterTake(b, rpm) = [tokens |-> level, last |-> now]
    BY <1>9, <1>11
  <2>2. 60 * n + level <= after
    BY <1>1, <1>2, <1>4, <1>6, <1>7, <1>8
  <2>q. QED BY <1>6, <1>8, <2>1, <2>2 DEF Bucket, full, after
<1>q. QED BY <1>10, <1>11

(* A new bucket is full, and within its bound.                             *)
LEMMA NewBound ==
  ASSUME NEW rpm \in Nat, now \in Nat
  PROVE  /\ NewBucket(rpm) \in Bucket
         /\ NewBucket(rpm).last = now
         /\ NewBucket(rpm).tokens = Whole * rpm
         /\ Whole * 0 + NewBucket(rpm).tokens <= rpm * (Whole + (now - now))
<1>1. Whole * rpm \in Nat /\ Whole * 0 + Whole * rpm <= rpm * (Whole + (now - now))
  BY DEF Whole
<1>q. QED BY <1>1 DEF NewBucket, Bucket

(* No bucket by address is there yet; the global one is new.               *)
LEMMA LimiterStarts == LimiterInit => LimiterInv
<1> SUFFICES ASSUME LimiterInit PROVE LimiterInv OBVIOUS
<1>1. now = 0 /\ now \in Nat /\ GlobalRPM \in Nat BY RateLimiterAssumption DEF LimiterInit
<1>2. global = NewBucket(GlobalRPM) BY DEF LimiterInit
<1>3. /\ global \in Bucket /\ global.last = now /\ global.tokens = Whole * GlobalRPM
      /\ Whole * 0 + global.tokens <= GlobalRPM * (Whole + (now - now))
  BY <1>1, <1>2, NewBound
<1>4. LimiterTypeOK
  BY <1>1, <1>3, RateLimiterAssumption DEF LimiterInit, LimiterTypeOK, Stages
<1>5. GlobalBound
  <2>1. passed = 0 BY DEF LimiterInit
  <2>2. Whole * GlobalRPM \in Nat BY <1>1 DEF Whole
  <2>q. QED BY <1>1, <1>3, <2>1, <2>2 DEF GlobalBound
<1>6. PerIPBound BY DEF LimiterInit, PerIPBound
<1>7. Held BY DEF LimiterInit, Held
<1>q. QED BY <1>4, <1>5, <1>6, <1>7 DEF LimiterInv

(* A request that leaves does not disturb the buckets' invariants.         *)
LEMMA AnsweredType ==
  ASSUME LimiterTypeOK, NEW r \in Requests, Answered(r)
  PROVE  /\ serving' \in [Requests -> Ips \cup {Absent}] /\ stage' \in [Requests -> Stages]
         /\ \A x \in Requests : stage'[x] = "idle" <=> serving'[x] = Absent
         /\ stage'[r] = "idle"
         /\ \A x \in Requests \ {r} : stage'[x] = stage[x] /\ serving'[x] = serving[x]
BY DEF Answered, LimiterTypeOK, Stages

(* Nor does one that goes on to its own bucket.                            *)
LEMMA NextBucketType ==
  ASSUME LimiterTypeOK, NEW r \in Requests, stage[r] = "global", NextBucket(r)
  PROVE  /\ serving' \in [Requests -> Ips \cup {Absent}] /\ stage' \in [Requests -> Stages]
         /\ \A x \in Requests : stage'[x] = "idle" <=> serving'[x] = Absent
         /\ stage'[r] \in {"idle", "load"}
         /\ \A x \in Requests \ {r} : stage'[x] = stage[x] /\ serving'[x] = serving[x]
<1>1. CASE PerIPRPM > 0
  BY <1>1 DEF NextBucket, LimiterTypeOK, Stages
<1>2. CASE ~(PerIPRPM > 0) BY <1>2, AnsweredType DEF NextBucket
<1>q. QED BY <1>1, <1>2

(* The global bucket is taken from, or is not there.                       *)
LEMMA TakeGlobalInv ==
  ASSUME LimiterInv, NEW r \in Requests, TakeGlobal(r)
  PROVE  LimiterInv'
<1>0. LimiterTypeOK /\ GlobalBound /\ PerIPBound /\ Held BY DEF LimiterInv
<1>1. stage[r] = "global" /\ UNCHANGED <<now, buckets, made, passedBy>> BY DEF TakeGlobal
<1>2. NextBucket(r) \/ Answered(r) BY DEF TakeGlobal
<1>3. /\ serving' \in [Requests -> Ips \cup {Absent}] /\ stage' \in [Requests -> Stages]
      /\ \A x \in Requests : stage'[x] = "idle" <=> serving'[x] = Absent
      /\ stage'[r] \in {"idle", "load"}
      /\ \A x \in Requests \ {r} : stage'[x] = stage[x] /\ serving'[x] = serving[x]
  BY <1>0, <1>1, <1>2, AnsweredType, NextBucketType
<1>4. global' \in Bucket /\ global'.last <= now /\ passed' \in Nat /\ GlobalBound'
  <2>1. CASE GlobalRPM = 0
    <3>1. UNCHANGED <<global, passed>> BY <2>1 DEF TakeGlobal
    <3>q. QED BY <1>0, <3>1 DEF LimiterTypeOK, GlobalBound
  <2>2. CASE GlobalRPM # 0
    <3>1. /\ global' = AfterTake(global, GlobalRPM)
          /\ passed' = IF HasToken(global, GlobalRPM) THEN passed + 1 ELSE passed
      BY <2>2 DEF TakeGlobal
    <3>2. /\ GlobalRPM \in Nat /\ global \in Bucket /\ now \in Nat /\ global.last <= now
          /\ passed \in Nat /\ global.last \in Nat
      BY <1>0, RateLimiterAssumption DEF LimiterTypeOK, Bucket
    <3>3. /\ Whole * passed + global.tokens <= GlobalRPM * (Whole + (global.last - 0))
          /\ global.tokens <= Whole * GlobalRPM
      BY <1>0, <3>2 DEF GlobalBound
    <3>4. /\ global' \in Bucket /\ global'.last = now
          /\ Whole * passed' + global'.tokens <= GlobalRPM * (Whole + (now - 0))
          /\ global'.tokens <= Whole * GlobalRPM
      BY <3>1, <3>2, <3>3, TakeBound
    <3>5. GlobalBound' BY <3>2, <3>4 DEF GlobalBound
    <3>q. QED BY <3>1, <3>2, <3>4, <3>5
  <2>q. QED BY <2>1, <2>2
<1>5. LimiterTypeOK' BY <1>0, <1>1, <1>3, <1>4 DEF LimiterTypeOK
<1>6. PerIPBound' BY <1>0, <1>1 DEF PerIPBound
<1>7. Held' BY <1>0, <1>1, <1>3 DEF Held
<1>q. QED BY <1>4, <1>5, <1>6, <1>7 DEF LimiterInv

(* A bucket is stored only where there is none.                            *)
LEMMA LoadOrStoreInv ==
  ASSUME LimiterInv, NEW r \in Requests, LoadOrStore(r)
  PROVE  LimiterInv'
<1>0. LimiterTypeOK /\ GlobalBound /\ PerIPBound /\ Held BY DEF LimiterInv
<1> DEFINE i == serving[r]
           new == NewBucket(PerIPRPM)
<1>1. stage[r] = "store" /\ UNCHANGED <<now, global, serving, passed, passedBy>>
      /\ stage' = [stage EXCEPT ![r] = "take"]
  BY DEF LoadOrStore
<1>2. i \in Ips BY <1>0, <1>1 DEF LimiterTypeOK
<1>3. now \in Nat /\ PerIPRPM \in Nat BY <1>0, RateLimiterAssumption DEF LimiterTypeOK
<1>4. /\ new \in Bucket /\ new.last = now /\ new.tokens = Whole * PerIPRPM
      /\ Whole * 0 + new.tokens <= PerIPRPM * (Whole + (now - now))
      /\ Whole * PerIPRPM \in Nat
  <2>1. Whole * PerIPRPM \in Nat BY <1>3 DEF Whole
  <2>q. QED BY <1>3, <2>1, NewBound
<1>5. new # Absent BY <1>4, RateLimiterAssumption DEF Bucket
<1>6. GlobalBound' BY <1>0, <1>1 DEF GlobalBound
<1> HIDE DEF new
<1>7. CASE buckets[i] = Absent
  <2>1. buckets' = [buckets EXCEPT ![i] = new] /\ made' = [made EXCEPT ![i] = now]
    BY <1>7 DEF LoadOrStore, new
  <2>2. /\ buckets'[i] = new /\ made'[i] = now
        /\ \A j \in Ips \ {i} : buckets'[j] = buckets[j] /\ made'[j] = made[j]
    BY <1>0, <1>2, <2>1 DEF LimiterTypeOK
  <2>3. LimiterTypeOK'
    <3>1. buckets' \in [Ips -> Bucket \cup {Absent}] /\ made' \in [Ips -> Nat]
      BY <1>0, <1>3, <1>4, <2>1 DEF LimiterTypeOK
    <3>2. \A j \in Ips : buckets'[j] # Absent => buckets'[j].last <= now
      BY <1>0, <1>3, <1>4, <2>2 DEF LimiterTypeOK
    <3>3. stage' \in [Requests -> Stages]
          /\ \A x \in Requests : stage'[x] = "idle" <=> serving[x] = Absent
      BY <1>0, <1>1 DEF LimiterTypeOK, Stages
    <3>q. QED BY <1>0, <1>1, <3>1, <3>2, <3>3 DEF LimiterTypeOK
  <2>4. PerIPBound'
    <3>1. Whole * passedBy[i] + new.tokens <= PerIPRPM * (Whole + (new.last - now))
          /\ new.tokens <= Whole * PerIPRPM
      <4>1. passedBy[i] = 0 BY <1>0, <1>2, <1>7 DEF PerIPBound
      <4>q. QED BY <1>4, <4>1
    <3>q. QED BY <1>0, <1>1, <1>2, <1>5, <2>2, <3>1 DEF PerIPBound
  <2>5. Held'
    <3>1. \A j \in Ips : buckets[j] # Absent => buckets'[j] # Absent BY <1>5, <2>2
    <3>2. \A x \in Requests : stage[x] = "take" => serving[x] \in Ips BY <1>0 DEF LimiterTypeOK
    <3>3. \A x \in Requests \ {r} : stage'[x] = stage[x] BY <1>0, <1>1 DEF LimiterTypeOK
    <3>q. QED BY <1>0, <1>1, <1>5, <2>2, <3>1, <3>2, <3>3 DEF Held
  <2>q. QED BY <1>6, <2>3, <2>4, <2>5 DEF LimiterInv
<1>8. CASE buckets[i] # Absent
  <2>1. UNCHANGED <<buckets, made>> BY <1>8 DEF LoadOrStore
  <2>2. LimiterTypeOK' BY <1>0, <1>1, <2>1 DEF LimiterTypeOK, Stages
  <2>3. PerIPBound' BY <1>0, <1>1, <2>1 DEF PerIPBound
  <2>4. Held'
    <3>1. \A x \in Requests \ {r} : stage'[x] = stage[x] BY <1>0, <1>1 DEF LimiterTypeOK
    <3>q. QED BY <1>0, <1>1, <1>8, <2>1, <3>1 DEF Held
  <2>q. QED BY <1>6, <2>2, <2>3, <2>4 DEF LimiterInv
<1>q. QED BY <1>7, <1>8

(* An address's own bucket is taken from.                                  *)
LEMMA TakeOwnInv ==
  ASSUME LimiterInv, NEW r \in Requests, TakeOwn(r)
  PROVE  LimiterInv'
<1>0. LimiterTypeOK /\ GlobalBound /\ PerIPBound /\ Held BY DEF LimiterInv
<1> DEFINE i == serving[r]
           b == buckets[i]
           new == AfterTake(b, PerIPRPM)
           more == IF HasToken(b, PerIPRPM) THEN passedBy[i] + 1 ELSE passedBy[i]
<1>1. stage[r] = "take" /\ Answered(r) /\ UNCHANGED <<now, global, made, passed>>
      /\ buckets' = [buckets EXCEPT ![i] = new]
      /\ passedBy' = [passedBy EXCEPT ![i] = IF HasToken(b, PerIPRPM) THEN @ + 1 ELSE @]
  BY DEF TakeOwn
<1>2. i \in Ips BY <1>0, <1>1 DEF LimiterTypeOK
<1>3. b # Absent BY <1>0, <1>1 DEF Held
<1>4. /\ now \in Nat /\ PerIPRPM \in Nat /\ b \in Bucket /\ b.last <= now /\ made[i] \in Int
      /\ passedBy[i] \in Nat
  BY <1>0, <1>2, <1>3, RateLimiterAssumption DEF LimiterTypeOK
<1>5. /\ Whole * passedBy[i] + b.tokens <= PerIPRPM * (Whole + (b.last - made[i]))
      /\ b.tokens <= Whole * PerIPRPM
  BY <1>0, <1>2, <1>3 DEF PerIPBound
<1>6. /\ new \in Bucket /\ new.last = now
      /\ Whole * more + new.tokens <= PerIPRPM * (Whole + (now - made[i]))
      /\ new.tokens <= Whole * PerIPRPM
  BY <1>4, <1>5, TakeBound
<1>7. more \in Nat BY <1>4
<1>8. new # Absent BY <1>6, RateLimiterAssumption DEF Bucket
<1>9. /\ buckets'[i] = new /\ passedBy'[i] = more
      /\ \A j \in Ips \ {i} : buckets'[j] = buckets[j] /\ passedBy'[j] = passedBy[j]
  BY <1>0, <1>1, <1>2 DEF LimiterTypeOK
<1>10. /\ serving' \in [Requests -> Ips \cup {Absent}] /\ stage' \in [Requests -> Stages]
       /\ \A x \in Requests : stage'[x] = "idle" <=> serving'[x] = Absent
       /\ stage'[r] = "idle"
       /\ \A x \in Requests \ {r} : stage'[x] = stage[x] /\ serving'[x] = serving[x]
  BY <1>0, <1>1, AnsweredType
<1>11. buckets' \in [Ips -> Bucket \cup {Absent}] BY <1>0, <1>1, <1>6 DEF LimiterTypeOK
<1>12. passedBy' \in [Ips -> Nat]
  <2>1. passedBy' = [passedBy EXCEPT ![i] = more] BY <1>1
  <2>q. QED BY <1>0, <1>7, <2>1 DEF LimiterTypeOK
<1> HIDE DEF new, more
<1>13. LimiterTypeOK'
  <2>1. \A j \in Ips : buckets'[j] # Absent => buckets'[j].last <= now
    BY <1>0, <1>4, <1>6, <1>9 DEF LimiterTypeOK
  <2>q. QED BY <1>0, <1>1, <1>10, <1>11, <1>12, <2>1 DEF LimiterTypeOK
<1>14. GlobalBound' BY <1>0, <1>1 DEF GlobalBound
<1>15. PerIPBound'
  <2>1. ASSUME NEW j \in Ips
        PROVE  IF buckets'[j] = Absent
               THEN passedBy'[j] = 0
               ELSE /\ Whole * passedBy'[j] + buckets'[j].tokens
                         <= PerIPRPM * (Whole + (buckets'[j].last - made'[j]))
                    /\ buckets'[j].tokens <= Whole * PerIPRPM
    <3>1. CASE j = i BY <1>1, <1>6, <1>8, <1>9, <3>1
    <3>2. CASE j # i BY <1>0, <1>1, <1>9, <3>2 DEF PerIPBound
    <3>q. QED BY <3>1, <3>2
  <2>q. QED BY <2>1 DEF PerIPBound
<1>16. Held'
  <2>1. \A x \in Requests : stage[x] = "take" => serving[x] \in Ips BY <1>0 DEF LimiterTypeOK
  <2>2. \A j \in Ips : buckets[j] # Absent => buckets'[j] # Absent BY <1>8, <1>9
  <2>q. QED BY <1>0, <1>10, <2>1, <2>2 DEF Held
<1>q. QED BY <1>13, <1>14, <1>15, <1>16 DEF LimiterInv

(* No step of the limiter breaks the invariant.                            *)
LEMMA LimiterSteps == LimiterInv /\ [LimiterNext]_limiterVars => LimiterInv'
<1> SUFFICES ASSUME LimiterInv, [LimiterNext]_limiterVars PROVE LimiterInv' OBVIOUS
<1>0. LimiterTypeOK /\ GlobalBound /\ PerIPBound /\ Held BY DEF LimiterInv
<1>1. ASSUME NEW r \in Requests, NEW i \in Ips, Arrive(r, i) PROVE LimiterInv'
  <2>0. UNCHANGED <<now, global, buckets, made, passed, passedBy>> BY <1>1 DEF Arrive
  <2>1. LimiterTypeOK'
    <3>1. /\ serving' \in [Requests -> Ips \cup {Absent}] /\ stage' \in [Requests -> Stages]
          /\ \A x \in Requests : stage'[x] = "idle" <=> serving'[x] = Absent
      BY <1>0, <1>1, RateLimiterAssumption DEF Arrive, LimiterTypeOK, Stages
    <3>q. QED BY <1>0, <2>0, <3>1 DEF LimiterTypeOK
  <2>2. GlobalBound' /\ PerIPBound' BY <1>0, <2>0 DEF GlobalBound, PerIPBound
  <2>3. Held' BY <1>0, <1>1, <2>0 DEF Arrive, LimiterTypeOK, Held
  <2>q. QED BY <2>1, <2>2, <2>3 DEF LimiterInv
<1>2. ASSUME NEW r \in Requests, TakeGlobal(r) PROVE LimiterInv' BY <1>2, TakeGlobalInv
<1>3. ASSUME NEW r \in Requests, Load(r) PROVE LimiterInv'
  <2>0. UNCHANGED <<now, global, buckets, made, serving, passed, passedBy>>
    BY <1>3 DEF Load
  <2>1. LimiterTypeOK'
    <3>1. stage' \in [Requests -> Stages] /\ \A x \in Requests : stage'[x] = "idle" <=> serving[x] = Absent
      BY <1>0, <1>3 DEF Load, LimiterTypeOK, Stages
    <3>q. QED BY <1>0, <2>0, <3>1 DEF LimiterTypeOK
  <2>2. GlobalBound' /\ PerIPBound' BY <1>0, <2>0 DEF GlobalBound, PerIPBound
  <2>3. Held' BY <1>0, <1>3, <2>0 DEF Load, LimiterTypeOK, Held
  <2>q. QED BY <2>1, <2>2, <2>3 DEF LimiterInv
<1>4. ASSUME NEW r \in Requests, LoadOrStore(r) PROVE LimiterInv' BY <1>4, LoadOrStoreInv
<1>5. ASSUME NEW r \in Requests, TakeOwn(r) PROVE LimiterInv' BY <1>5, TakeOwnInv
<1>6. CASE Tick
  <2>1. now' \in Nat /\ now <= now' BY <1>0, <1>6, RateLimiterAssumption DEF Tick, LimiterTypeOK
  <2>2. UNCHANGED <<global, buckets, made, serving, stage, passed, passedBy>> BY <1>6 DEF Tick
  <2>3. LimiterTypeOK'
    <3>1. global.last <= now'
      BY <1>0, <2>1 DEF LimiterTypeOK, Bucket
    <3>2. \A i \in Ips : buckets[i] # Absent => buckets[i].last <= now'
      <4>1. ASSUME NEW i \in Ips, buckets[i] # Absent PROVE buckets[i].last <= now'
        <5>1. buckets[i] \in Bucket /\ buckets[i].last <= now BY <1>0, <4>1 DEF LimiterTypeOK
        <5>q. QED BY <1>0, <2>1, <5>1 DEF LimiterTypeOK, Bucket
      <4>q. QED BY <4>1
    <3>q. QED BY <1>0, <2>1, <2>2, <3>1, <3>2 DEF LimiterTypeOK
  <2>4. GlobalBound' /\ PerIPBound' BY <1>0, <2>2 DEF GlobalBound, PerIPBound
  <2>5. Held' BY <1>0, <2>2 DEF Held
  <2>q. QED BY <2>3, <2>4, <2>5 DEF LimiterInv
<1>7. CASE UNCHANGED limiterVars
  BY <1>0, <1>7 DEF limiterVars, LimiterInv, LimiterTypeOK, GlobalBound, PerIPBound, Held
<1>q. QED BY <1>1, <1>2, <1>3, <1>4, <1>5, <1>6, <1>7 DEF LimiterNext

(* The invariant holds in every state of every run of a limiter.           *)
THEOREM LimiterInductive == LimiterSpec => []LimiterInv
<1>q. QED BY LimiterStarts, LimiterSteps, PTL DEF LimiterSpec

(* Every variable keeps its type, and no refill lies in the future.        *)
THEOREM LimiterTypeCorrect == LimiterSpec => []LimiterTypeOK
<1>1. LimiterInv => LimiterTypeOK BY DEF LimiterInv
<1>q. QED BY LimiterInductive, <1>1, PTL

(* No more requests pass the global bucket than it held and has gained     *)
(* (tokenBucket.take).                                                     *)
THEOREM GlobalAlwaysBounded == LimiterSpec => []GlobalBound
<1>1. LimiterInv => GlobalBound BY DEF LimiterInv
<1>q. QED BY LimiterInductive, <1>1, PTL

(* Nor any address's, however requests race to make its bucket             *)
(* (bucketFor).                                                            *)
THEOREM PerIPAlwaysBounded == LimiterSpec => []PerIPBound
<1>1. LimiterInv => PerIPBound BY DEF LimiterInv
<1>q. QED BY LimiterInductive, <1>1, PTL
=============================================================================
