---------------------------- MODULE Subscriptions ----------------------------
(***************************************************************************)
(* One client's WebSocket connection (internal/router/ws.go): the reader   *)
(* of the connection, a forwarder goroutine per subscription with its own  *)
(* connection to an upstream, a relay goroutine per forwarder, and the map *)
(* of cancel functions the reader and the forwarders share.                *)
(*                                                                         *)
(* The client's connection allows one writer at a time; nothing in ws.go   *)
(* keeps its writers apart.  Two writes that do not overlap succeed in     *)
(* either order; two that do are caught by the library, which panics in    *)
(* one of the goroutines.  A forwarder or a relay takes the process down   *)
(* with it (Panic).  The reader runs in the goroutine of the HTTP handler, *)
(* whose panics the router's Recoverer catches: handleConn is left without *)
(* its last loop, and the deferred calls of ServeHTTP run (ReaderPanics).  *)
(***************************************************************************)
EXTENDS Naturals, FiniteSets

CONSTANTS
    Ids,          \* operation ids the client uses
    MaxOps,       \* bound: subscriptions opened on the connection
    PoliteClient, \* the client uses an id again only after a complete or an error
    None          \* no entry in the map

Ops == 1..MaxOps

ASSUME SubscriptionsAssumption ==
    /\ MaxOps \in Nat
    /\ PoliteClient \in BOOLEAN
    /\ None \notin Ops

VARIABLES
    reader,    \* where handleConn is: see Readers
    subs,      \* the map from operation id to (the operation of) a cancel function
    id,        \* the id each operation was opened with
    fwd,       \* where each forwarder is: see Forwarders
    relay,     \* where each relay is: see Relays
    stopped,   \* operations whose context is done
    held,      \* ids the client takes to be in use
    panicked   \* the process is gone

vars == <<reader, subs, id, fwd, relay, stopped, held, panicked>>

Readers == {"reading",
            "replying",   \* about to write an ack, a pong or an error
            "leaving",    \* reading failed, the loop is left
            "returning",  \* handleConn is left, the deferred calls are to run
            "gone"}       \* ServeHTTP has returned
Forwarders == {"unused",
               "dial",
               "refusing",    \* about to write an error to the client
               "ack",         \* waiting for the upstream's first message
               "relay",       \* in the select at the end
               "closing",     \* about to delete its entry
               "completing",  \* about to write complete to the client
               "ended"}
Relays == {"none", "reading", "next", "last", "ended"}

Init ==
    /\ reader = "reading"
    /\ subs = [i \in Ids |-> None]
    /\ id \in [Ops -> Ids]
    /\ fwd = [o \in Ops |-> "unused"]
    /\ relay = [o \in Ops |-> "none"]
    /\ stopped = {}
    /\ held = {}
    /\ panicked = FALSE

Goto(o, place) == fwd' = [fwd EXCEPT ![o] = place]
RelayGoto(o, place) == relay' = [relay EXCEPT ![o] = place]

-----------------------------------------------------------------------------
(***************************************************************************)
(* The reader, handleConn and ServeHTTP.                                   *)
(***************************************************************************)

\* connection_init, ping, a bad subscribe, one no service is found for.
MessageToReply ==
    /\ reader = "reading"
    /\ reader' = "replying"
    /\ UNCHANGED <<subs, id, fwd, relay, stopped, held, panicked>>

Reply ==
    /\ reader = "replying"
    /\ reader' = "reading"
    /\ UNCHANGED <<subs, id, fwd, relay, stopped, held, panicked>>

Subscribe(o) ==
    /\ reader = "reading"
    /\ fwd[o] = "unused"
    /\ \A p \in Ops : p < o => fwd[p] # "unused"
    /\ PoliteClient => id[o] \notin held
    /\ subs' = [subs EXCEPT ![id[o]] = o]
    /\ Goto(o, "dial")
    /\ held' = held \cup {id[o]}
    /\ UNCHANGED <<reader, id, relay, stopped, panicked>>

\* The client's complete: the entry, if there is one, is cancelled and deleted.
Complete(i) ==
    /\ reader = "reading"
    /\ stopped' = stopped \cup ({subs[i]} \ {None})
    /\ subs' = [subs EXCEPT ![i] = None]
    /\ held' = held \ {i}
    /\ UNCHANGED <<reader, id, fwd, relay, panicked>>

\* Reading fails: the client has closed, or the connection is lost.
Disconnect ==
    /\ reader = "reading"
    /\ reader' = "leaving"
    /\ UNCHANGED <<subs, id, fwd, relay, stopped, held, panicked>>

CancelEntries ==
    /\ reader = "leaving"
    /\ stopped' = stopped \cup {o \in Ops : subs[id[o]] = o}
    /\ reader' = "returning"
    /\ UNCHANGED <<subs, id, fwd, relay, held, panicked>>

\* The close alone, without a cancel of the connection's context.
ReturnUncancelled ==
    /\ reader = "returning"
    /\ reader' = "gone"
    /\ UNCHANGED <<subs, id, fwd, relay, stopped, held, panicked>>

\* The deferred cancel of the connection's context, then the close.
Return ==
    /\ reader = "returning"
    /\ stopped' = {o \in Ops : fwd[o] # "unused"}
    /\ reader' = "gone"
    /\ UNCHANGED <<subs, id, fwd, relay, held, panicked>>

-----------------------------------------------------------------------------
(***************************************************************************)
(* A forwarder, forwardSubscription and the goroutine it runs in.          *)
(***************************************************************************)

\* Connected, and connection_init is written.
Dialed(o) ==
    /\ fwd[o] = "dial"
    /\ Goto(o, "ack")
    /\ UNCHANGED <<reader, subs, id, relay, stopped, held, panicked>>

DialFails(o) ==
    /\ fwd[o] = "dial"
    /\ Goto(o, "refusing")
    /\ UNCHANGED <<reader, subs, id, relay, stopped, held, panicked>>

\* Dialing heeds the context.
DialCancelled(o) ==
    /\ fwd[o] = "dial"
    /\ o \in stopped
    /\ Goto(o, "refusing")
    /\ UNCHANGED <<reader, subs, id, relay, stopped, held, panicked>>

\* The error is written, or cannot be.
Refuse(o) ==
    /\ fwd[o] = "refusing"
    /\ Goto(o, "closing")
    /\ held' = IF reader = "gone" THEN held ELSE held \ {id[o]}
    /\ UNCHANGED <<reader, subs, id, relay, stopped, panicked>>

\* The upstream acknowledges: subscribe is written and the relay started.
Acked(o) ==
    /\ fwd[o] = "ack"
    /\ Goto(o, "relay")
    /\ RelayGoto(o, "reading")
    /\ UNCHANGED <<reader, subs, id, stopped, held, panicked>>

\* Another first message.
NotAcked(o) ==
    /\ fwd[o] = "ack"
    /\ Goto(o, "refusing")
    /\ UNCHANGED <<reader, subs, id, relay, stopped, held, panicked>>

\* The upstream closes, or a write to it fails.
UpstreamLost(o) ==
    /\ fwd[o] = "ack"
    /\ Goto(o, "closing")
    /\ UNCHANGED <<reader, subs, id, relay, stopped, held, panicked>>

\* The relay's end alone is waited for.
RelayOnly(o) ==
    /\ fwd[o] = "relay"
    /\ relay[o] = "ended"
    /\ Goto(o, "closing")
    /\ UNCHANGED <<reader, subs, id, relay, stopped, held, panicked>>

\* The select, then the close of the upstream's connection.
Select(o) ==
    /\ fwd[o] = "relay"
    /\ o \in stopped \/ relay[o] = "ended"
    /\ Goto(o, "closing")
    /\ UNCHANGED <<reader, subs, id, relay, stopped, held, panicked>>

\* The entry is left behind.
DeregisterNothing(o) ==
    /\ fwd[o] = "closing"
    /\ Goto(o, "completing")
    /\ UNCHANGED <<reader, subs, id, relay, stopped, held, panicked>>

\* The entry under the operation's id is deleted, whoever's it is.
Deregister(o) ==
    /\ fwd[o] = "closing"
    /\ subs' = [subs EXCEPT ![id[o]] = None]
    /\ Goto(o, "completing")
    /\ UNCHANGED <<reader, id, relay, stopped, held, panicked>>

SendComplete(o) ==
    /\ fwd[o] = "completing"
    /\ Goto(o, "ended")
    /\ held' = IF reader = "gone" THEN held ELSE held \ {id[o]}
    /\ UNCHANGED <<reader, subs, id, relay, stopped, panicked>>

-----------------------------------------------------------------------------
(***************************************************************************)
(* A relay.                                                                *)
(***************************************************************************)

\* A message arrives while the upstream's connection is open: one more to
\* come, or a complete or an error.
Receive(o) ==
    /\ relay[o] = "reading"
    /\ fwd[o] = "relay"
    /\ \E m \in {"next", "last"} : RelayGoto(o, m)
    /\ UNCHANGED <<reader, subs, id, fwd, stopped, held, panicked>>

\* The upstream closes.
ReceiveFails(o) ==
    /\ relay[o] = "reading"
    /\ RelayGoto(o, "ended")
    /\ UNCHANGED <<reader, subs, id, fwd, stopped, held, panicked>>

RelayNext(o) ==
    /\ relay[o] = "next"
    /\ reader # "gone"
    /\ RelayGoto(o, "reading")
    /\ UNCHANGED <<reader, subs, id, fwd, stopped, held, panicked>>

RelayLast(o) ==
    /\ relay[o] = "last"
    /\ reader # "gone"
    /\ RelayGoto(o, "ended")
    /\ held' = held \ {id[o]}
    /\ UNCHANGED <<reader, subs, id, fwd, stopped, panicked>>

\* Writing to the client fails.
RelayFails(o) ==
    /\ relay[o] \in {"next", "last"}
    /\ RelayGoto(o, "ended")
    /\ UNCHANGED <<reader, subs, id, fwd, stopped, held, panicked>>

-----------------------------------------------------------------------------

\* Goroutines about to write to the client's connection.
Writers ==
    {<<"reader", 0>> : x \in {reader} \cap {"replying"}}
    \cup ({"forwarder"} \X {o \in Ops : fwd[o] \in {"refusing", "completing"}})
    \cup ({"relay"} \X {o \in Ops : relay[o] \in {"next", "last"}})

Overlap == Cardinality(Writers) > 1

\* The one that panics is a forwarder or a relay: nothing recovers it.
Panic ==
    /\ Overlap
    /\ panicked' = TRUE
    /\ UNCHANGED <<reader, subs, id, fwd, relay, stopped, held>>

\* It is the reader, in the middle of its loop.
ReaderPanics ==
    /\ Overlap
    /\ reader = "replying"
    /\ reader' = "returning"
    /\ UNCHANGED <<subs, id, fwd, relay, stopped, held, panicked>>

Reader ==
    \/ MessageToReply \/ Reply
    \/ \E o \in Ops : Subscribe(o)
    \/ \E i \in Ids : Complete(i)
    \/ Disconnect \/ CancelEntries \/ Return
    \/ ReaderPanics

Forwarder(o) ==
    \/ Dialed(o) \/ DialFails(o) \/ DialCancelled(o) \/ Refuse(o)
    \/ Acked(o) \/ NotAcked(o) \/ UpstreamLost(o)
    \/ Select(o) \/ Deregister(o) \/ SendComplete(o)

Relay(o) ==
    \/ Receive(o) \/ ReceiveFails(o)
    \/ RelayNext(o) \/ RelayLast(o) \/ RelayFails(o)

Next ==
    /\ ~panicked
    /\ \/ Reader
       \/ \E o \in Ops : Forwarder(o) \/ Relay(o)
       \/ Panic

\* A goroutine that can go on does.  A write to the client may block for as
\* long as the client's connection is open; a read from an upstream for as
\* long as the gateway keeps that connection open.
Fairness ==
    /\ WF_vars(~panicked /\ CancelEntries)
    /\ WF_vars(~panicked /\ Return)
    /\ \A o \in Ops :
          /\ WF_vars(~panicked /\ DialCancelled(o))
          /\ WF_vars(~panicked /\ Select(o))
          /\ WF_vars(~panicked /\ Deregister(o))
          /\ WF_vars(~panicked /\ reader = "gone" /\ (Refuse(o) \/ SendComplete(o)))
          /\ WF_vars(~panicked /\ reader = "gone" /\ RelayFails(o))
          /\ WF_vars(~panicked /\ fwd[o] # "relay" /\ ReceiveFails(o))

Spec == Init /\ [][Next]_vars
FairSpec == Spec /\ Fairness

-----------------------------------------------------------------------------
(***************************************************************************)
(* Properties.                                                             *)
(***************************************************************************)

Running(o) == fwd[o] \in {"dial", "refusing", "ack", "relay", "closing"}
Serving == reader \in {"reading", "replying"}

\* Types of the variables; an operation has a relay only once acknowledged.
TypeOK ==
    /\ reader \in Readers
    /\ subs \in [Ids -> Ops \cup {None}]
    /\ id \in [Ops -> Ids]
    /\ fwd \in [Ops -> Forwarders]
    /\ relay \in [Ops -> Relays]
    /\ stopped \in SUBSET Ops
    /\ held \in SUBSET Ids
    /\ panicked \in BOOLEAN
    /\ \A o \in Ops : fwd[o] \in {"unused", "dial", "ack"} => relay[o] = "none"

\* The map holds no dead entries, though an operation's end, the client's
\* complete and a second subscribe with the same id race for it: an entry is
\* that of an operation with this id that still runs and that, while the
\* connection is served, nobody has cancelled (handleConn).
EntriesAreLive ==
    \A i \in Ids :
        subs[i] # None =>
            /\ id[subs[i]] = i
            /\ Running(subs[i])
            /\ Serving => subs[i] \notin stopped

\* Once the handler has returned, after a disconnect or a panic of its own
\* write that kept it from cancelling the entries of the map, every operation
\* that had been acknowledged, or had failed, ends, and so does its relay.  Only
\* a panic in a forwarder or a relay, which ends the process, leaves them
\* (ServeHTTP, forwardSubscription).
DisconnectEnds ==
    \A o \in Ops :
        (reader = "gone" /\ fwd[o] \notin {"unused", "dial", "ack"})
            ~> \/ panicked
               \/ (fwd[o] = "ended" /\ relay[o] \in {"none", "ended"})

\* "subscriptions maps client operation ID -> cancel func for that upstream
\* WS" (ws.go:94): while the connection is served, an operation that waits for
\* its upstream or relays from it, and was not cancelled, can be reached
\* through the map.
MapReachesOperations ==
    \A o \in Ops :
        (/\ Serving
         /\ fwd[o] \in {"dial", "ack", "relay"}
         /\ relay[o] # "ended"
         /\ o \notin stopped) => subs[id[o]] = o
=============================================================================
