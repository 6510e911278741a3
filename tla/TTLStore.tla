------------------------------ MODULE TTLStore ------------------------------
(***************************************************************************)
(* What a bounded response cache with a time to live promises its readers, *)
(* whatever it keeps its entries in: an answer is the data last stored     *)
(* under the key and not yet expired, at most Capacity keys are held, and  *)
(* a key is given up early only to make room for another.                  *)
(* ResponseCache implements it.                                            *)
(***************************************************************************)
EXTENDS Naturals, FiniteSets

CONSTANTS Keys, Data, Readers, Capacity, TTL, None

VARIABLES
  stored,   (* the entry stored under a key, or None                       *)
  clock,
  answer    (* the data a reader was last answered, None after a miss      *)

vars == <<stored, clock, answer>>

Held == {k \in Keys : stored[k] # None}

Init ==
  /\ stored = [k \in Keys |-> None]
  /\ clock = 0
  /\ answer = [r \in Readers |-> None]

Hit(r, k) ==
  /\ stored[k] # None /\ clock <= stored[k].expires
  /\ answer' = [answer EXCEPT ![r] = stored[k].data]
  /\ UNCHANGED <<stored, clock>>

(* An expired entry may be dropped by the reader that finds it.            *)
Miss(r, k) ==
  /\ stored[k] # None => clock > stored[k].expires
  /\ answer' = [answer EXCEPT ![r] = None]
  /\ stored' = [stored EXCEPT ![k] = None]
  /\ UNCHANGED clock

Entry(d) == [data |-> d, expires |-> clock + TTL]

Put(k, d) ==
  /\ k \in Held \/ Cardinality(Held) < Capacity
  /\ stored' = [stored EXCEPT ![k] = Entry(d)]
  /\ UNCHANGED <<clock, answer>>

PutInPlaceOf(k, victim, d) ==
  /\ k \notin Held /\ victim \in Held /\ Cardinality(Held) = Capacity
  /\ stored' = [stored EXCEPT ![k] = Entry(d), ![victim] = None]
  /\ UNCHANGED <<clock, answer>>

Clear ==
  /\ stored' = [k \in Keys |-> None]
  /\ UNCHANGED <<clock, answer>>

Tick == clock' = clock + 1 /\ UNCHANGED <<stored, answer>>

Next ==
  \/ \E r \in Readers, k \in Keys : Hit(r, k) \/ Miss(r, k)
  \/ \E k \in Keys, d \in Data : Put(k, d) \/ \E v \in Keys : PutInPlaceOf(k, v, d)
  \/ Clear \/ Tick

Spec == Init /\ [][Next]_vars
=============================================================================
