-------------------------- MODULE MetricsHubProofs --------------------------
(***************************************************************************)
(* Theorems of MetricsHub, for any number of connections and any capacity  *)
(* of the channels.                                                        *)
(***************************************************************************)
EXTENDS MetricsHub, TLAPS

\* What a channel holds after a send and after a receive.
LEMMA Sending ==
    ASSUME NEW S, NEW q \in Seq(S), NEW x \in S
    PROVE  /\ Append(q, x) \in Seq(S)
           /\ Len(Append(q, x)) = Len(q) + 1
           /\ ToSet(Append(q, x)) = ToSet(q) \cup {x}
<1>1. Append(q, x) \in Seq(S) /\ Len(Append(q, x)) = Len(q) + 1
  OBVIOUS
<1>2. \A i \in 1..Len(q) : Append(q, x)[i] = q[i]
  OBVIOUS
<1>3. Append(q, x)[Len(q) + 1] = x
  OBVIOUS
<1>4. 1..(Len(q) + 1) = 1..Len(q) \cup {Len(q) + 1}
  OBVIOUS
<1> QED
  BY <1>1, <1>2, <1>3, <1>4 DEF ToSet

LEMMA Receiving ==
    ASSUME NEW S, NEW q \in Seq(S), q # <<>>
    PROVE  /\ Head(q) \in S
           /\ Tail(q) \in Seq(S)
           /\ Len(Tail(q)) = Len(q) - 1
           /\ ToSet(q) = ToSet(Tail(q)) \cup {Head(q)}
<1>1. /\ Head(q) = q[1] /\ Head(q) \in S /\ Len(q) >= 1
      /\ Tail(q) \in Seq(S) /\ Len(Tail(q)) = Len(q) - 1
  OBVIOUS
<1>2. \A i \in 1..Len(Tail(q)) : Tail(q)[i] = q[i + 1]
  OBVIOUS
<1>3. ToSet(Tail(q)) \cup {Head(q)} \subseteq ToSet(q)
  BY <1>1, <1>2 DEF ToSet
<1>4. ASSUME NEW i \in 1..Len(q) PROVE q[i] \in ToSet(Tail(q)) \cup {Head(q)}
  <2>1. CASE i = 1
    BY <1>1, <2>1
  <2>2. CASE i # 1
    <3>1. i - 1 \in 1..Len(Tail(q)) /\ Tail(q)[i - 1] = q[i]
      BY <1>1, <1>2, <2>2
    <3>2. 1..Len(Tail(q)) = DOMAIN Tail(q)
      BY <1>1
    <3> QED
      BY <3>1, <3>2 DEF ToSet
  <2> QED
    BY <2>1, <2>2
<1> QED
  BY <1>1, <1>3, <1>4 DEF ToSet

-----------------------------------------------------------------------------
(***************************************************************************)
(* The inductive invariant.                                                *)
(***************************************************************************)
\* The hub has never heard of a connection that was not handed to it.
Fresh ==
    \A c \in Conns :
        handler[c] \in {"new", "upgraded"} =>
            c \notin clients \cup closed \cup ToSet(register) \cup ToSet(unregister)

\* Whatever is about to be unregistered, or was, has lost its peer, for ever.
Gone ==
    hub # "stopped" =>
        /\ (failed \cup ToSet(unregister) \cup closed) \cap peers = {}
        /\ \A c \in Conns : handler[c] \in {"leaving", "done"} => c \notin peers

\* Between two broadcasts nothing of the last one is left.
Idle == hub # "sending" => todo = {} /\ writing = NoConn /\ failed = {}

HInv == TypeOK /\ Fresh /\ Gone /\ Idle /\ NoneLost

\* The initial state satisfies it.
LEMMA HInit == Init => HInv
<1>1. ToSet(<<>>) = {}
  BY DEF ToSet
<1>2. <<>> \in Seq(Conns) /\ Len(<<>>) <= ChannelBuffer /\ 0 \in 0..BroadcastBuffer
  BY HubConstants
<1>3. Init => TypeOK
  BY <1>2 DEF Init, TypeOK
<1>4. Init => Fresh /\ Gone /\ Idle /\ NoneLost
  BY <1>1 DEF Init, Fresh, Gone, Idle, NoneLost
<1> QED
  BY <1>3, <1>4 DEF HInv

\* One step per action of a handler.
LEMMA HandlerNext ==
    ASSUME HInv, NEW c \in Conns, Handler(c) \/ Vanish(c)
    PROVE  HInv'
<1> USE DEF HInv, TypeOK, Fresh, Gone, Idle, NoneLost, channels, sending, process, Broken
<1>1. CASE Upgrade(c)
  BY <1>1 DEF Upgrade
<1>2. CASE Register(c)
  BY <1>2, Sending, HubConstants DEF Register
<1>3. CASE Vanish(c)
  BY <1>3 DEF Vanish
<1>4. CASE ReadFails(c)
  BY <1>4 DEF ReadFails
<1>5. CASE Unregister(c)
  BY <1>5, Sending, HubConstants DEF Unregister
<1>6. CASE PingPanics(c)
  BY <1>6 DEF PingPanics, endpoints
<1> QED
  BY <1>1, <1>2, <1>3, <1>4, <1>5, <1>6 DEF Handler

\* One step per case of the hub's select, and per step of its sending.
LEMMA HubNext ==
    ASSUME HInv, HubStop \/ HubRegister \/ HubUnregister \/ HubBroadcast \/ Sends
    PROVE  HInv'
<1> USE DEF HInv, TypeOK, Fresh, Gone, Idle, NoneLost, channels, sending, endpoints, process
<1>1. CASE HubStop
  BY <1>1 DEF HubStop
<1>2. CASE HubRegister
  <2>1. /\ Head(register) \in Conns
        /\ register' \in Seq(Conns) /\ Len(register') <= ChannelBuffer
        /\ ToSet(register) = ToSet(register') \cup {Head(register)}
    BY <1>2, Receiving, HubConstants DEF HubRegister
  <2> QED
    BY <1>2, <2>1 DEF HubRegister
<1>3. CASE HubUnregister
  <2>1. /\ Head(unregister) \in Conns
        /\ unregister' \in Seq(Conns) /\ Len(unregister') <= ChannelBuffer
        /\ ToSet(unregister) = ToSet(unregister') \cup {Head(unregister)}
    BY <1>3, Receiving, HubConstants DEF HubUnregister
  <2> QED
    BY <1>3, <2>1 DEF HubUnregister
<1>4. CASE HubBroadcast
  <2>1. broadcast' \in 0..BroadcastBuffer
    BY <1>4, HubConstants DEF HubBroadcast
  <2> QED
    BY <1>4, <2>1 DEF HubBroadcast
<1>5. ASSUME NEW c \in Conns, WriteBegin(c) PROVE HInv'
  BY <1>5 DEF WriteBegin
<1>6. CASE WriteEnd
  BY <1>6 DEF WriteEnd, WriteFails, Broken
<1>7. CASE HubUnregisters
  BY <1>7, Sending, HubConstants DEF HubUnregisters, UnregisterFailed, Sent
<1>8. CASE HubSelects
  BY <1>8 DEF HubSelects, Sent
<1> QED
  BY <1>1, <1>2, <1>3, <1>4, <1>5, <1>6, <1>7, <1>8 DEF Sends

\* The broadcaster and main touch none of it but the number of messages.
LEMMA OtherNext ==
    ASSUME HInv,
           \/ Tick \/ NothingToSend \/ Broadcast \/ BroadcasterStop \/ Cancel
           \/ UNCHANGED vars
    PROVE  HInv'
<1> USE DEF HInv, TypeOK, Fresh, Gone, Idle, NoneLost, channels, sending, endpoints, process
<1>1. CASE Tick \/ NothingToSend \/ BroadcasterStop \/ Cancel
  BY <1>1 DEF Tick, NothingToSend, BroadcasterStop, Cancel
<1>2. CASE Broadcast
  BY <1>2, HubConstants DEF Broadcast, Offer
<1>3. CASE UNCHANGED vars
  BY <1>3 DEF vars
<1> QED
  BY <1>1, <1>2, <1>3

\* Every step preserves it.
LEMMA HNext == HInv /\ [Next]_vars => HInv'
  BY HandlerNext, HubNext, OtherNext DEF Next

\* The hub's state is well typed, and no channel exceeds its capacity.
THEOREM TypeCorrect == Spec => []TypeOK
<1>1. HInv => TypeOK
  BY DEF HInv
<1> QED
  BY <1>1, HInit, HNext, PTL DEF Spec

\* While the hub runs it holds or has closed every connection handed to it, in
\* whatever order the registrations and unregistrations are received.
THEOREM ConnectionsKept == Spec => []NoneLost
<1>1. HInv => NoneLost
  BY DEF HInv
<1> QED
  BY <1>1, HInit, HNext, PTL DEF Spec

\* The hub closes no connection whose peer is there, until it stops.
THEOREM HealthyKept == Spec => []HealthyStay
<1>1. HInv => HealthyStay
  BY DEF HInv, Gone, HealthyStay
<1> QED
  BY <1>1, HInit, HNext, PTL DEF Spec
=============================================================================
