----------------------------- MODULE SdkClient -----------------------------
(***************************************************************************)
(* The SDK's client and batcher: application goroutines add metrics, a     *)
(* full batch or a tick has the batch flushed, each flush sends in a       *)
(* goroutine of its own, and Stop cancels the context and flushes what is  *)
(* left.  A batch is sent once and never retried.                          *)
(*                                                                         *)
(* A name ending in "_" and a word is a mutated form of the next           *)
(* definition, used to show that a property can fail.                      *)
(***************************************************************************)
EXTENDS Naturals, FiniteSets

CONSTANTS
    Metrics,                \* the metrics the application sends, one call each
    MaxBatchSize,           \* 1000 in NewClient
    MaxMetricsPerRequest    \* 1000 in the server

ASSUME ClientConstants ==
    /\ IsFiniteSet(Metrics)
    /\ MaxBatchSize \in Nat \ {0}
    /\ MaxMetricsPerRequest \in Nat \ {0}
    /\ {"loop", "stop"} \cap Metrics = {}

Flushers == Metrics \cup {"loop"}     \* a metric stands for the call that adds it
Senders  == Metrics \cup {"loop", "stop"}

VARIABLES
    started,       \* the client accepts metrics
    cancelled,     \* the batcher's context is
    pc,            \* what each call, the flush loop and Stop do next
    metrics,       \* the batch
    flushing,      \* the flag of a flush in progress
    ready,         \* batches whose send has not begun
    onWire,        \* batches that are being sent
    received,      \* metrics the server took
    failed,        \* metrics of batches whose send returned an error
    dropped        \* metrics given up without an attempt to send them

buffer == <<metrics, flushing>>
network == <<ready, onWire, received, failed, dropped>>
vars == <<started, cancelled, pc, buffer, network>>

Goto(p, step) == pc' = [pc EXCEPT ![p] = step]

-----------------------------------------------------------------------------
(***************************************************************************)
(* SendMetric and Add.                                                     *)
(***************************************************************************)
SendMetric(m) ==
    /\ pc[m] = "new"
    /\ Goto(m, IF started THEN "add" ELSE "ignored")
    /\ UNCHANGED <<started, cancelled, buffer, network>>

Append(m) ==
    /\ pc[m] = "add"
    /\ metrics' = metrics \cup {m}
    /\ Goto(m, IF Cardinality(metrics') >= MaxBatchSize THEN "full" ELSE "added")
    /\ UNCHANGED <<started, cancelled, flushing, network>>

\* The flag passes from a flush that ended to one that may begin.
CompareAndSwap_StoresOnly(p, otherwise) ==
    /\ flushing' = TRUE
    /\ Goto(p, "flush")

CompareAndSwap(p, otherwise) ==
    /\ flushing' = TRUE
    /\ IF flushing THEN Goto(p, otherwise) ELSE Goto(p, "flush")

\* The call returns; a flush it starts runs in a goroutine.
FlushIfFull(m) ==
    /\ pc[m] = "full"
    /\ CompareAndSwap(m, "added")
    /\ UNCHANGED <<started, cancelled, metrics, network>>

(***************************************************************************)
(* flush and sendMetrics.                                                  *)
(***************************************************************************)
Take_Keeps ==
    /\ ready' = IF metrics = {} THEN ready ELSE ready \cup {metrics}
    /\ UNCHANGED metrics

Take_SendsEmpty ==
    /\ ready' = ready \cup {metrics}
    /\ metrics' = {}

Take ==
    /\ ready' = IF metrics = {} THEN ready ELSE ready \cup {metrics}
    /\ metrics' = {}

Flush(p) ==
    /\ pc[p] = "flush"
    /\ Take
    /\ Goto(p, "store")
    /\ UNCHANGED <<started, cancelled, flushing, onWire, received, failed, dropped>>

\* The flag goes down while the batch may still be on its way.
StoreFalse_Forgotten == UNCHANGED flushing

StoreFalse == flushing' = FALSE

FlushDone(p) ==
    /\ pc[p] = "store"
    /\ StoreFalse
    /\ Goto(p, IF p = "loop" THEN "select" ELSE "added")
    /\ UNCHANGED <<started, cancelled, metrics, network>>

\* Send gives up at once when the context is already cancelled.
BeginSend(batch) ==
    /\ batch \in ready
    /\ ready' = ready \ {batch}
    /\ IF cancelled
       THEN dropped' = dropped \cup batch /\ UNCHANGED onWire
       ELSE onWire' = onWire \cup {batch} /\ UNCHANGED dropped
    /\ UNCHANGED <<started, cancelled, pc, buffer, received, failed>>

\* The server refuses a request of too many metrics; any send may fail, and one
\* that fails at the client, by its timeout, may have been taken by the server.
EndSend(batch) ==
    /\ batch \in onWire
    /\ onWire' = onWire \ {batch}
    /\ \E taken, acknowledged \in BOOLEAN :
          /\ taken => Cardinality(batch) <= MaxMetricsPerRequest
          /\ acknowledged => taken
          /\ received' = IF taken THEN received \cup batch ELSE received
          /\ failed' = IF acknowledged THEN failed ELSE failed \cup batch
    /\ UNCHANGED <<started, cancelled, pc, buffer, ready, dropped>>

-----------------------------------------------------------------------------
(***************************************************************************)
(* flushLoop.                                                              *)
(***************************************************************************)
LoopTick ==
    /\ pc["loop"] = "select"
    /\ CompareAndSwap("loop", "select")
    /\ UNCHANGED <<started, cancelled, metrics, network>>

LoopEnd ==
    /\ pc["loop"] = "select"
    /\ cancelled
    /\ Goto("loop", "ended")
    /\ UNCHANGED <<started, cancelled, buffer, network>>

(***************************************************************************)
(* Start and Stop.  Starting again after a Stop is left out.               *)
(***************************************************************************)
Start ==
    /\ ~ started
    /\ pc["loop"] = "off"
    /\ started' = TRUE
    /\ Goto("loop", "select")
    /\ UNCHANGED <<cancelled, buffer, network>>

\* The application's own context, which Start was given.
ContextCancelled ==
    /\ started
    /\ ~ cancelled
    /\ cancelled' = TRUE
    /\ UNCHANGED <<started, pc, buffer, network>>

StopBegin ==
    /\ pc["stop"] = "new"
    /\ started
    /\ cancelled' = TRUE
    /\ Goto("stop", "flush")
    /\ UNCHANGED <<started, buffer, network>>

\* Flush sends in Stop itself, with the context cancelled: it fails, and
\* Stop returns its error with the client still started.
StopFlush ==
    /\ pc["stop"] = "flush"
    /\ IF metrics = {}
       THEN /\ Goto("stop", "stopped")
            /\ started' = FALSE
            /\ UNCHANGED <<metrics, dropped>>
       ELSE /\ Goto("stop", "error")
            /\ dropped' = dropped \cup metrics
            /\ metrics' = {}
            /\ UNCHANGED started
    /\ UNCHANGED <<cancelled, flushing, ready, onWire, received, failed>>

-----------------------------------------------------------------------------
Init ==
    /\ started = FALSE
    /\ cancelled = FALSE
    /\ pc = [p \in Senders |-> IF p = "loop" THEN "off" ELSE "new"]
    /\ metrics = {}
    /\ flushing = FALSE
    /\ ready = {}
    /\ onWire = {}
    /\ received = {}
    /\ failed = {}
    /\ dropped = {}

Next ==
    \/ \E m \in Metrics : SendMetric(m) \/ Append(m) \/ FlushIfFull(m)
    \/ \E p \in Flushers : Flush(p) \/ FlushDone(p)
    \/ \E b \in ready : BeginSend(b)
    \/ \E b \in onWire : EndSend(b)
    \/ LoopTick \/ LoopEnd
    \/ Start \/ ContextCancelled \/ StopBegin \/ StopFlush

Spec == Init /\ [][Next]_vars

-----------------------------------------------------------------------------
(***************************************************************************)
(* Properties.                                                             *)
(***************************************************************************)
Taken == {m \in Metrics : pc[m] \in {"full", "added", "flush", "store"}}

\* The places a metric that was taken can be in.  One whose send has ended can
\* both be with the server and have been reported as failed.
Places == <<metrics, UNION ready, UNION onWire, received \cup failed, dropped>>

\* The type invariant.
TypeOK ==
    /\ started \in BOOLEAN
    /\ cancelled \in BOOLEAN
    /\ pc \in [Senders ->
            {"off", "new", "ignored", "add", "full", "added", "flush", "store",
             "select", "ended", "stopped", "error"}]
    /\ metrics \subseteq Metrics
    /\ flushing \in BOOLEAN
    /\ ready \subseteq SUBSET Metrics
    /\ onWire \subseteq SUBSET Metrics
    /\ received \subseteq Metrics
    /\ failed \subseteq Metrics
    /\ dropped \subseteq Metrics
    /\ {} \notin ready \cup onWire

\* Every metric that Add took is in exactly one place, whatever calls, ticks,
\* flushes and Stop overlap: none vanishes and none is sent twice.
SentOnce ==
    /\ UNION {Places[i] : i \in 1..5} = Taken
    /\ \A i, j \in 1..5 : i # j => Places[i] \cap Places[j] = {}
    /\ \A b, d \in ready \cup onWire : b # d => b \cap d = {}

\* "CompareAndSwap ensures only one flush goroutine runs at a time": between
\* the calls that fill a batch and the loop.
OneFlush ==
    \A p, q \in Flushers :
        pc[p] \in {"flush", "store"} /\ pc[q] \in {"flush", "store"} => p = q

\* "Stop stops the client and flushes remaining metrics": the flush of Stop gives
\* no metric up.
StopFlushesRemaining ==
    [][pc["stop"] = "flush" /\ pc'["stop"] # "flush" => dropped' = dropped]_vars
=============================================================================
