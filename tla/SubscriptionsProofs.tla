------------------------ MODULE SubscriptionsProofs ------------------------
(***************************************************************************)
(* What holds of a client's connection for any ids and any number of       *)
(* operations: the variables keep their types and the map of cancel        *)
(* functions holds no dead entry, whoever ends an operation first.         *)
(***************************************************************************)
EXTENDS Subscriptions, TLAPS

(* An operation not yet opened has not been cancelled.                     *)
Untouched == \A o \in Ops : fwd[o] = "unused" => o \notin stopped

Inv == TypeOK /\ EntriesAreLive /\ Untouched

-----------------------------------------------------------------------------
(* Nothing is open at the start.                                           *)
LEMMA InitInv == Init => Inv
<1>1. Init => TypeOK BY DEF Init, TypeOK, Readers, Forwarders, Relays
<1>2. Init => EntriesAreLive /\ Untouched BY DEF Init, EntriesAreLive, Untouched
<1>q. QED BY <1>1, <1>2 DEF Inv

(* What the reader does leaves only live entries.                          *)
LEMMA ReaderInv ==
  ASSUME Inv, Reader
  PROVE  Inv'
<1> USE SubscriptionsAssumption
<1>0. TypeOK /\ EntriesAreLive /\ Untouched BY DEF Inv
<1>1. CASE MessageToReply \/ Reply \/ Disconnect \/ ReaderPanics
  <2>1. TypeOK'
    BY <1>0, <1>1 DEF MessageToReply, Reply, Disconnect, ReaderPanics, TypeOK, Readers
  <2>2. EntriesAreLive' /\ Untouched'
    BY <1>0, <1>1
    DEF MessageToReply, Reply, Disconnect, ReaderPanics, EntriesAreLive, Untouched, Running,
        Serving
  <2>q. QED BY <2>1, <2>2 DEF Inv
<1>2. ASSUME NEW o \in Ops, Subscribe(o) PROVE Inv'
  <2>1. TypeOK' BY <1>0, <1>2 DEF Subscribe, Goto, TypeOK, Forwarders
  <2>2. EntriesAreLive'
    BY <1>0, <1>2 DEF Subscribe, Goto, TypeOK, EntriesAreLive, Untouched, Running, Serving
  <2>3. Untouched' BY <1>0, <1>2 DEF Subscribe, Goto, TypeOK, Untouched
  <2>q. QED BY <2>1, <2>2, <2>3 DEF Inv
<1>3. ASSUME NEW i \in Ids, Complete(i) PROVE Inv'
  <2>1. TypeOK' BY <1>0, <1>3 DEF Complete, TypeOK
  <2>2. EntriesAreLive'
    BY <1>0, <1>3 DEF Complete, TypeOK, EntriesAreLive, Running, Serving
  <2>3. Untouched' BY <1>0, <1>3 DEF Complete, TypeOK, EntriesAreLive, Untouched, Running
  <2>q. QED BY <2>1, <2>2, <2>3 DEF Inv
<1>4. CASE CancelEntries
  <2>1. TypeOK' BY <1>0, <1>4 DEF CancelEntries, TypeOK, Readers
  <2>2. EntriesAreLive'
    BY <1>0, <1>4 DEF CancelEntries, EntriesAreLive, Running, Serving
  <2>3. Untouched'
    BY <1>0, <1>4 DEF CancelEntries, TypeOK, EntriesAreLive, Untouched, Running
  <2>q. QED BY <2>1, <2>2, <2>3 DEF Inv
<1>5. CASE Return
  <2>1. TypeOK' BY <1>0, <1>5 DEF Return, TypeOK, Readers
  <2>2. EntriesAreLive' /\ Untouched'
    BY <1>0, <1>5 DEF Return, EntriesAreLive, Untouched, Running, Serving
  <2>q. QED BY <2>1, <2>2 DEF Inv
<1>q. QED BY <1>1, <1>2, <1>3, <1>4, <1>5 DEF Reader

(* A forwarder deletes an entry before it stops running.                   *)
LEMMA ForwarderInv ==
  ASSUME Inv, NEW o \in Ops, Forwarder(o)
  PROVE  Inv'
<1> USE SubscriptionsAssumption
<1>0. TypeOK /\ EntriesAreLive /\ Untouched BY DEF Inv
<1>1. ASSUME NEW place \in {"ack", "refusing", "relay", "closing"}, Goto(o, place),
             Running(o), UNCHANGED <<reader, subs, id, stopped>>
      PROVE  EntriesAreLive' /\ Untouched'
  BY <1>0, <1>1 DEF Goto, TypeOK, EntriesAreLive, Untouched, Running, Serving
<1>2. CASE Dialed(o) \/ DialFails(o) \/ DialCancelled(o) \/ NotAcked(o) \/ UpstreamLost(o)
           \/ Select(o)
  <2>1. TypeOK'
    BY <1>0, <1>2
    DEF Dialed, DialFails, DialCancelled, NotAcked, UpstreamLost, Select, Goto, TypeOK, Forwarders
  <2>2. EntriesAreLive' /\ Untouched'
    BY <1>1, <1>2
    DEF Dialed, DialFails, DialCancelled, NotAcked, UpstreamLost, Select, Running
  <2>q. QED BY <2>1, <2>2 DEF Inv
<1>3. CASE Refuse(o) \/ Acked(o)
  <2>1. TypeOK'
    BY <1>0, <1>3 DEF Refuse, Acked, Goto, RelayGoto, TypeOK, Forwarders, Relays
  <2>2. EntriesAreLive' /\ Untouched'
    BY <1>1, <1>3 DEF Refuse, Acked, Running
  <2>q. QED BY <2>1, <2>2 DEF Inv
<1>4. CASE Deregister(o)
  <2>1. TypeOK' BY <1>0, <1>4 DEF Deregister, Goto, TypeOK, Forwarders
  <2>2. EntriesAreLive'
    BY <1>0, <1>4 DEF Deregister, Goto, TypeOK, EntriesAreLive, Running, Serving
  <2>3. Untouched' BY <1>0, <1>4 DEF Deregister, Goto, TypeOK, Untouched
  <2>q. QED BY <2>1, <2>2, <2>3 DEF Inv
<1>5. CASE SendComplete(o)
  <2>1. TypeOK' BY <1>0, <1>5 DEF SendComplete, Goto, TypeOK, Forwarders
  <2>2. EntriesAreLive' /\ Untouched'
    BY <1>0, <1>5 DEF SendComplete, Goto, TypeOK, EntriesAreLive, Untouched, Running, Serving
  <2>q. QED BY <2>1, <2>2 DEF Inv
<1>q. QED BY <1>2, <1>3, <1>4, <1>5 DEF Forwarder

(* A relay does not touch the map.                                         *)
LEMMA RelayInv ==
  ASSUME Inv, NEW o \in Ops, Relay(o)
  PROVE  Inv'
<1>0. TypeOK /\ EntriesAreLive /\ Untouched BY DEF Inv
<1>1. TypeOK'
  <2>1. relay[o] # "none" /\ UNCHANGED <<reader, subs, id, fwd, stopped, panicked>>
    BY DEF Relay, Receive, ReceiveFails, RelayNext, RelayLast, RelayFails
  <2>2. \E place \in Relays : relay' = [relay EXCEPT ![o] = place]
    BY DEF Relay, Receive, ReceiveFails, RelayNext, RelayLast, RelayFails, RelayGoto, Relays
  <2>3. held' \in SUBSET Ids
    BY <1>0 DEF Relay, Receive, ReceiveFails, RelayNext, RelayLast, RelayFails, TypeOK
  <2>q. QED BY <1>0, <2>1, <2>2, <2>3 DEF TypeOK
<1>2. EntriesAreLive' /\ Untouched'
  BY <1>0
  DEF Relay, Receive, ReceiveFails, RelayNext, RelayLast, RelayFails,
      EntriesAreLive, Untouched, Running, Serving
<1>q. QED BY <1>1, <1>2 DEF Inv

(* Every step keeps the invariant.                                         *)
THEOREM Inductive == Spec => []Inv
<1>1. Inv /\ [Next]_vars => Inv'
  <2> SUFFICES ASSUME Inv, [Next]_vars PROVE Inv' OBVIOUS
  <2>1. CASE Reader BY <2>1, ReaderInv
  <2>2. ASSUME NEW o \in Ops, Forwarder(o) PROVE Inv' BY <2>2, ForwarderInv
  <2>3. ASSUME NEW o \in Ops, Relay(o) PROVE Inv' BY <2>3, RelayInv
  <2>4. CASE Panic
    BY <2>4 DEF Panic, Inv, TypeOK, EntriesAreLive, Untouched, Running, Serving
  <2>5. CASE UNCHANGED vars
    BY <2>5 DEF vars, Inv, TypeOK, EntriesAreLive, Untouched, Running, Serving
  <2>q. QED BY <2>1, <2>2, <2>3, <2>4, <2>5 DEF Next
<1>q. QED BY InitInv, <1>1, PTL DEF Spec

(* Every variable keeps its type; a relay is started by an acknowledgement. *)
THEOREM TypeCorrect == Spec => []TypeOK
BY Inductive, PTL DEF Inv

(* The map holds no dead entry, for any ids and operations.                *)
THEOREM AlwaysLive == Spec => []EntriesAreLive
BY Inductive, PTL DEF Inv
=============================================================================
