---------------------------- MODULE ResponseCache ----------------------------
(***************************************************************************)
(* The response cache (internal/cache/cache.go) and the requests of the    *)
(* GraphQL handler that use it (internal/router/graphql.go): look a key    *)
(* up, on a miss plan and execute the query with no lock held, and store   *)
(* the response if it has no errors.  An administrator may flush the cache *)
(* at any time (internal/adminapi/handler.go).                             *)
(*                                                                         *)
(* The cache keeps each entry in two places, the map items and the list    *)
(* lru, which every operation must change together.  A key stands for what *)
(* QueryKey hashes (query, operation name, role, sorted variables).        *)
(***************************************************************************)
EXTENDS Integers, FiniteSets, Sequences

CONSTANTS
  Keys,        (* cache keys                                               *)
  Data,        (* responses                                                *)
  Readers,     (* requests under way at once                               *)
  MaxEntries,  (* Cache.maxEntries                                         *)
  DefaultTTL,  (* Cache.defaultTTL                                         *)
  None,
  MaxClock     (* bound: the model's time stops here                       *)

ASSUME CacheAssumption ==
  /\ MaxEntries \in Nat \ {0}
  /\ DefaultTTL \in Nat \ {0}
  /\ MaxClock \in Nat
  /\ None \notin Keys \union Data

VARIABLES
  items,   (* Cache.items: the data and expiry reachable under a key       *)
  lru,     (* Cache.lru: the keys of the list's elements, front first      *)
  clock,   (* time.Now()                                                   *)
  doing,   (* the key whose query a request executes, or None              *)
  answer,  (* what a request was last answered from the cache              *)
  touched  (* history: keys in the order of their last hit or store,       *)
           (* latest first                                                 *)

cache == <<items, lru>>
vars  == <<cache, clock, doing, answer, touched>>

Entries == [data : Data, expires : Nat]
ASSUME NoneIsNoEntry == None \notin Entries

Present(k) == items[k] # None
Expired(k) == clock > items[k].expires

TypeOK ==
  /\ items \in [Keys -> Entries \union {None}]
  /\ lru \in Seq(Keys)
  /\ clock \in 0..MaxClock
  /\ doing \in [Readers -> Keys \union {None}]
  /\ answer \in [Readers -> Data \union {None}]
  /\ touched \in Seq(Keys)

Init ==
  /\ items = [k \in Keys |-> None]
  /\ lru = <<>>
  /\ clock = 0
  /\ doing = [r \in Readers |-> None]
  /\ answer = [r \in Readers |-> None]
  /\ touched = <<>>

-----------------------------------------------------------------------------
(* The list.  A key is in it at most once (Coherent).                      *)

Elements(s) == {s[i] : i \in 1..Len(s)}
Before(s, a, b) == \E i, j \in 1..Len(s) : i < j /\ s[i] = a /\ s[j] = b

Position(s, k) == CHOOSE i \in 1..Len(s) : s[i] = k
DropAt(s, p) == [i \in 1..Len(s) - 1 |-> IF i < p THEN s[i] ELSE s[i + 1]]

Without(s, k) == IF k \in Elements(s) THEN DropAt(s, Position(s, k)) ELSE s
PushFront(s, k) == [i \in 1..Len(s) + 1 |-> IF i = 1 THEN k ELSE s[i - 1]]
MoveToFront(s, k) == PushFront(Without(s, k), k)
Back(s) == s[Len(s)]

Touch(k) == touched' = MoveToFront(touched, k)

-----------------------------------------------------------------------------
(* Get.                                                                    *)

(* A hit that leaves the entry where it is in the list.                    *)
GetHitInPlace(r, k) ==
  /\ doing[r] = None /\ Present(k) /\ ~Expired(k)
  /\ Touch(k)
  /\ answer' = [answer EXCEPT ![r] = items[k].data]
  /\ UNCHANGED <<items, lru, clock, doing>>

GetHit(r, k) ==
  /\ doing[r] = None /\ Present(k) /\ ~Expired(k)
  /\ lru' = MoveToFront(lru, k)
  /\ Touch(k)
  /\ answer' = [answer EXCEPT ![r] = items[k].data]
  /\ UNCHANGED <<items, clock, doing>>

(* An expired entry that leaves only the map.                              *)
GetExpiredMapOnly(r, k) ==
  /\ doing[r] = None /\ Present(k) /\ Expired(k)
  /\ items' = [items EXCEPT ![k] = None]
  /\ doing' = [doing EXCEPT ![r] = k]
  /\ answer' = [answer EXCEPT ![r] = None]
  /\ UNCHANGED <<lru, clock, touched>>

GetExpired(r, k) ==
  /\ doing[r] = None /\ Present(k) /\ Expired(k)
  /\ items' = [items EXCEPT ![k] = None]
  /\ lru' = Without(lru, k)
  /\ doing' = [doing EXCEPT ![r] = k]
  /\ answer' = [answer EXCEPT ![r] = None]
  /\ UNCHANGED <<clock, touched>>

GetAbsent(r, k) ==
  /\ doing[r] = None /\ ~Present(k)
  /\ doing' = [doing EXCEPT ![r] = k]
  /\ answer' = [answer EXCEPT ![r] = None]
  /\ UNCHANGED <<cache, clock, touched>>

-----------------------------------------------------------------------------
(* The end of an execution: Set on success, nothing on an error.           *)

(* A time to live taken off the clock.                                     *)
NewEntryPast(d) == [data |-> d, expires |-> clock - DefaultTTL]

NewEntry(d) == [data |-> d, expires |-> clock + DefaultTTL]

Finishes(r) == doing[r] # None /\ doing' = [doing EXCEPT ![r] = None]

SetExisting(r, d) ==
  LET k == doing[r] IN
  /\ Finishes(r) /\ Present(k)
  /\ items' = [items EXCEPT ![k] = NewEntry(d)]
  /\ lru' = MoveToFront(lru, k)
  /\ Touch(k)
  /\ UNCHANGED <<clock, answer>>

(* SetTTL taking one entry too many.                                       *)
SetNewLate(r, d) ==
  LET k == doing[r] IN
  /\ Finishes(r) /\ ~Present(k)
  /\ Len(lru) <= MaxEntries
  /\ items' = [items EXCEPT ![k] = NewEntry(d)]
  /\ lru' = PushFront(lru, k)
  /\ Touch(k)
  /\ UNCHANGED <<clock, answer>>

SetNew(r, d) ==
  LET k == doing[r] IN
  /\ Finishes(r) /\ ~Present(k)
  /\ Len(lru) < MaxEntries
  /\ items' = [items EXCEPT ![k] = NewEntry(d)]
  /\ lru' = PushFront(lru, k)
  /\ Touch(k)
  /\ UNCHANGED <<clock, answer>>

SetEvicting(r, d) ==
  LET k == doing[r] IN
  /\ Finishes(r) /\ ~Present(k)
  /\ Len(lru) >= MaxEntries
  /\ items' = [items EXCEPT ![Back(lru)] = None, ![k] = NewEntry(d)]
  /\ lru' = PushFront(Without(lru, Back(lru)), k)
  /\ Touch(k)
  /\ UNCHANGED <<clock, answer>>

Fails(r) == Finishes(r) /\ UNCHANGED <<cache, clock, answer, touched>>

-----------------------------------------------------------------------------
Flush ==
  /\ items' = [k \in Keys |-> None]
  /\ lru' = <<>>
  /\ UNCHANGED <<clock, doing, answer, touched>>

Tick ==
  /\ clock < MaxClock
  /\ clock' = clock + 1
  /\ UNCHANGED <<cache, doing, answer, touched>>

Next ==
  \/ \E r \in Readers :
       \/ \E k \in Keys : GetHit(r, k) \/ GetExpired(r, k) \/ GetAbsent(r, k)
       \/ \E d \in Data : SetExisting(r, d) \/ SetNew(r, d) \/ SetEvicting(r, d)
       \/ Fails(r)
  \/ Flush
  \/ Tick

Spec == Init /\ [][Next]_vars

-----------------------------------------------------------------------------
(* Properties.                                                             *)

(* The map and the list hold the same keys, each one once in the list, and *)
(* never more than MaxEntries: no operation leaves an element behind in    *)
(* one of them, where it would never be evicted or never be found.         *)
Coherent ==
  /\ {k \in Keys : Present(k)} = Elements(lru)
  /\ \A i, j \in 1..Len(lru) : lru[i] = lru[j] => i = j
  /\ Len(lru) <= MaxEntries

(* A key that is given up for another is the one that was hit or stored    *)
(* the longest ago of all the keys held.                                   *)
EvictsLeastRecentlyUsed ==
  [][\A v, k \in Keys :
       (\E r \in Readers, d \in Data : SetEvicting(r, d)) /\ Present(v) /\ items'[v] = None
         /\ Present(k) /\ k # v
       => Before(touched, k, v)]_vars

(* The cache answers as a bounded store with a time to live does: never    *)
(* with data that was replaced, flushed, given up or has expired, although *)
(* requests that missed store their results in any order.                  *)
Store == INSTANCE TTLStore
           WITH stored <- items, Capacity <- MaxEntries, TTL <- DefaultTTL
ImplementsStore == Store!Spec
=============================================================================
