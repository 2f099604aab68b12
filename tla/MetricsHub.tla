----------------------------- MODULE MetricsHub -----------------------------
(***************************************************************************)
(* The WebSocket hub: its main loop, the handler and the ping goroutine of *)
(* each connection, the broadcaster that feeds it and the cancellation of  *)
(* their context at shutdown.                                              *)
(*                                                                         *)
(* The hub's mutex is left out: only the hub writes the client map, it     *)
(* waits for nothing while it does, and HasClients is one read.            *)
(*                                                                         *)
(* A name ending in "_" and a word is a mutated form of the next           *)
(* definition, used to show that a property can fail.                      *)
(***************************************************************************)
EXTENDS Naturals, Sequences, SequencesExt

CONSTANTS
    Conns,             \* connections, each opened at most once
    NoConn,            \* not a connection
    ChannelBuffer,     \* WSChannelBuffer: capacity of register, unregister
    BroadcastBuffer    \* WSBroadcastBuffer: capacity of broadcast

ASSUME HubConstants ==
    /\ NoConn \notin Conns
    /\ ChannelBuffer \in Nat \ {0}
    /\ BroadcastBuffer \in Nat \ {0}

VARIABLES
    hub,            \* "select", "sending" or "stopped"
    clients,        \* the registered connections
    register,       \* the channels
    unregister,
    broadcast,      \* number of messages in the channel
    todo,           \* connections the message was not sent to yet
    writing,        \* the connection the hub writes to, or NoConn
    failed,         \* connections whose write failed, not yet unregistered
    handler,        \* per connection: what HandleWebSocket does next
    peers,          \* connections whose other end is there and reading
    closed,         \* connections the server closed
    broadcaster,    \* "idle", "querying" or "done"
    cancelled,      \* main cancelled the context
    crashed         \* a panic ended the process

channels  == <<register, unregister, broadcast>>
sending   == <<todo, writing, failed>>
endpoints == <<handler, peers>>
process   == <<broadcaster, cancelled, crashed>>
vars == <<hub, clients, channels, sending, endpoints, closed, process>>

Broken(c) == c \notin peers \/ c \in closed

-----------------------------------------------------------------------------
(***************************************************************************)
(* HandleWebSocket.                                                        *)
(***************************************************************************)
Upgrade(c) ==
    /\ handler[c] = "new"
    /\ handler' = [handler EXCEPT ![c] = "upgraded"]
    /\ peers' = peers \cup {c}
    /\ UNCHANGED <<hub, clients, channels, sending, closed, process>>

Register(c) ==
    /\ handler[c] = "upgraded"
    /\ Len(register) < ChannelBuffer
    /\ register' = Append(register, c)
    /\ handler' = [handler EXCEPT ![c] = "reading"]
    /\ UNCHANGED <<hub, clients, unregister, broadcast, sending, peers, closed,
                   process>>

\* The peer leaves, stops reading, or the network fails.
Vanish(c) ==
    /\ c \in peers
    /\ peers' = peers \ {c}
    /\ UNCHANGED <<hub, clients, channels, sending, handler, closed, process>>

\* The read fails or its deadline passes.
ReadFails(c) ==
    /\ handler[c] = "reading"
    /\ Broken(c)
    /\ handler' = [handler EXCEPT ![c] = "leaving"]
    /\ UNCHANGED <<hub, clients, channels, sending, peers, closed, process>>

Unregister(c) ==
    /\ handler[c] = "leaving"
    /\ Len(unregister) < ChannelBuffer
    /\ unregister' = Append(unregister, c)
    /\ handler' = [handler EXCEPT ![c] = "done"]
    /\ UNCHANGED <<hub, clients, register, broadcast, sending, peers, closed,
                   process>>

\* A ping that overlaps the hub's write to the same connection: gorilla's
\* connection notices most of these and panics, and neither the hub nor the
\* ping goroutine recovers.  Any other ping changes nothing here.
PingPanics(c) ==
    /\ handler[c] \in {"reading", "leaving", "done"}
    /\ writing = c
    /\ crashed' = TRUE
    /\ UNCHANGED <<hub, clients, channels, sending, endpoints, closed,
                   broadcaster, cancelled>>

-----------------------------------------------------------------------------
(***************************************************************************)
(* MetricsHub.Run: one action per case of the select.                      *)
(***************************************************************************)
HubStop ==
    /\ hub = "select"
    /\ cancelled
    /\ closed' = closed \cup clients
    /\ hub' = "stopped"
    /\ UNCHANGED <<clients, channels, sending, endpoints, process>>

HubRegister ==
    /\ hub = "select"
    /\ register # <<>>
    /\ clients' = clients \cup {Head(register)}
    /\ register' = Tail(register)
    /\ UNCHANGED <<hub, unregister, broadcast, sending, endpoints, closed, process>>

HubUnregister_NoClose ==
    /\ hub = "select"
    /\ unregister # <<>>
    /\ clients' = clients \ {Head(unregister)}
    /\ unregister' = Tail(unregister)
    /\ UNCHANGED <<hub, register, broadcast, sending, endpoints, closed, process>>

HubUnregister ==
    /\ hub = "select"
    /\ unregister # <<>>
    /\ clients' = clients \ {Head(unregister)}
    /\ closed' = closed \cup (clients \cap {Head(unregister)})
    /\ unregister' = Tail(unregister)
    /\ UNCHANGED <<hub, register, broadcast, sending, endpoints, process>>

HubBroadcast ==
    /\ hub = "select"
    /\ broadcast > 0
    /\ broadcast' = broadcast - 1
    /\ hub' = "sending"
    /\ todo' = clients
    /\ UNCHANGED <<clients, register, unregister, writing, failed, endpoints,
                   closed, process>>

WriteBegin(c) ==
    /\ hub = "sending"
    /\ writing = NoConn
    /\ c \in todo
    /\ todo' = todo \ {c}
    /\ writing' = c
    /\ UNCHANGED <<hub, clients, channels, failed, endpoints, closed, process>>

\* A write to a peer that is gone may still be buffered; one whose peer reads
\* does not fail.
WriteFails_Always(c) == TRUE

WriteFails(c) == Broken(c)

WriteEnd ==
    /\ writing # NoConn
    /\ \/ writing \notin closed /\ UNCHANGED failed
       \/ WriteFails(writing) /\ failed' = failed \cup {writing}
    /\ writing' = NoConn
    /\ UNCHANGED <<hub, clients, channels, todo, endpoints, closed, process>>

\* The hub sends to the channel that only it receives from.
UnregisterFailed_Forgets(c) ==
    /\ failed' = failed \ {c}
    /\ UNCHANGED unregister

UnregisterFailed(c) ==
    /\ Len(unregister) < ChannelBuffer
    /\ unregister' = Append(unregister, c)
    /\ failed' = failed \ {c}

Sent == hub = "sending" /\ todo = {} /\ writing = NoConn

HubUnregisters ==
    /\ Sent
    /\ \E c \in failed : UnregisterFailed(c)
    /\ UNCHANGED <<hub, clients, register, broadcast, todo, writing, endpoints,
                   closed, process>>

HubSelects ==
    /\ Sent
    /\ failed = {}
    /\ hub' = "select"
    /\ UNCHANGED <<clients, channels, sending, endpoints, closed, process>>

-----------------------------------------------------------------------------
(***************************************************************************)
(* BroadcastMetrics, and main.                                             *)
(***************************************************************************)
\* A tick; without clients it does nothing.
Tick ==
    /\ broadcaster = "idle"
    /\ clients # {}
    /\ broadcaster' = "querying"
    /\ UNCHANGED <<hub, clients, channels, sending, endpoints, closed, cancelled,
                   crashed>>

\* The query failed or found nothing.
NothingToSend ==
    /\ broadcaster = "querying"
    /\ broadcaster' = "idle"
    /\ UNCHANGED <<hub, clients, channels, sending, endpoints, closed, cancelled,
                   crashed>>

\* A full channel drops the message.
Offer_OneMore ==
    broadcast' = IF broadcast <= BroadcastBuffer THEN broadcast + 1 ELSE broadcast

Offer_Blocks ==
    /\ broadcast < BroadcastBuffer
    /\ broadcast' = broadcast + 1

Offer ==
    broadcast' = IF broadcast < BroadcastBuffer THEN broadcast + 1 ELSE broadcast

Broadcast ==
    /\ broadcaster = "querying"
    /\ Offer
    /\ broadcaster' = "idle"
    /\ UNCHANGED <<hub, clients, register, unregister, sending, endpoints, closed,
                   cancelled, crashed>>

BroadcasterStop ==
    /\ broadcaster = "idle"
    /\ cancelled
    /\ broadcaster' = "done"
    /\ UNCHANGED <<hub, clients, channels, sending, endpoints, closed, cancelled,
                   crashed>>

Cancel ==
    /\ ~ cancelled
    /\ cancelled' = TRUE
    /\ UNCHANGED <<hub, clients, channels, sending, endpoints, closed, broadcaster,
                   crashed>>

-----------------------------------------------------------------------------
Init ==
    /\ hub = "select"
    /\ clients = {}
    /\ register = <<>>
    /\ unregister = <<>>
    /\ broadcast = 0
    /\ todo = {}
    /\ writing = NoConn
    /\ failed = {}
    /\ handler = [c \in Conns |-> "new"]
    /\ peers = {}
    /\ closed = {}
    /\ broadcaster = "idle"
    /\ cancelled = FALSE
    /\ crashed = FALSE

Handler(c) ==
    \/ Upgrade(c) \/ Register(c) \/ ReadFails(c) \/ Unregister(c)
    \/ PingPanics(c)

Sends == (\E c \in Conns : WriteBegin(c)) \/ WriteEnd \/ HubUnregisters \/ HubSelects

Next ==
    /\ ~ crashed
    /\ \/ \E c \in Conns : Handler(c) \/ Vanish(c)
       \/ HubStop \/ HubRegister \/ HubUnregister \/ HubBroadcast \/ Sends
       \/ Tick \/ NothingToSend \/ Broadcast \/ BroadcasterStop
       \/ Cancel

Spec == Init /\ [][Next]_vars

\* The hub and the broadcaster are scheduled, and their select passes no ready
\* case over for ever (a tick included); the store answers some query with
\* data; and a connection whose peer is gone cannot take every write.  Nothing
\* is asked of the handlers.
Fails(c) == writing = c /\ WriteEnd /\ c \in failed'

FairSpec ==
    /\ Spec
    /\ SF_vars(~ crashed /\ HubStop)
    /\ SF_vars(~ crashed /\ HubUnregister)
    /\ SF_vars(~ crashed /\ HubBroadcast)
    /\ WF_vars(~ crashed /\ Sends)
    /\ \A c \in Conns : SF_vars(~ crashed /\ Fails(c))
    /\ WF_vars(~ crashed /\ Tick)
    /\ SF_vars(~ crashed /\ Broadcast)
    /\ SF_vars(~ crashed /\ BroadcasterStop)

-----------------------------------------------------------------------------
(***************************************************************************)
(* Properties.                                                             *)
(***************************************************************************)
\* The type invariant, with the channels within their capacity.
TypeOK ==
    /\ hub \in {"select", "sending", "stopped"}
    /\ clients \subseteq Conns
    /\ register \in Seq(Conns) /\ Len(register) <= ChannelBuffer
    /\ unregister \in Seq(Conns) /\ Len(unregister) <= ChannelBuffer
    /\ broadcast \in 0..BroadcastBuffer
    /\ todo \subseteq clients
    /\ writing \in clients \cup {NoConn}
    /\ failed \subseteq clients
    /\ handler \in [Conns -> {"new", "upgraded", "reading", "leaving", "done"}]
    /\ peers \subseteq Conns
    /\ closed \subseteq Conns
    /\ broadcaster \in {"idle", "querying", "done"}
    /\ cancelled \in BOOLEAN
    /\ crashed \in BOOLEAN

\* While the hub runs, a connection that was handed to it is closed, or it is
\* a client or about to become one, so that the hub still holds it: in
\* whatever order its two messages, and the hub's own, are received.
NoneLost ==
    hub # "stopped" =>
        \A c \in Conns :
            handler[c] \in {"reading", "leaving", "done"} =>
                c \in closed \cup clients \cup ToSet(register)

\* The hub never closes a connection whose peer is still there, except when
\* it stops.
HealthyStay == hub # "stopped" => closed \cap peers = {}

\* The hub waits to send on its own channel, which is full: for ever.
Stuck == Sent /\ failed # {} /\ Len(unregister) = ChannelBuffer

\* Once cancelled the hub and the broadcaster both return, although each may
\* wait on a channel of the other at that moment.
TasksStop ==
    cancelled ~> ((hub = "stopped" /\ broadcaster = "done") \/ crashed \/ Stuck)

\* A client whose peer is gone is closed in the end, even one whose
\* unregistration overtook its registration and was ignored.
DeadAreClosed ==
    \A c \in Conns :
        (c \in clients /\ c \notin peers)
            ~> (c \in closed \/ cancelled \/ crashed \/ Stuck)

\* "cancel() // Stop WebSocket hub and broadcaster": once cancelled the hub
\* returns.  It need not: see Stuck.
HubStops == cancelled ~> (hub = "stopped" \/ crashed)
=============================================================================
