------------------------ MODULE CompactionScheduler ------------------------
(***************************************************************************)
(* The goroutines around the compactor: RunCompaction, which starts one    *)
(* initial run and then one per tick, each with retries; the               *)
(* CompactionMonitor they report to; the health requests that read it; and *)
(* the shutdown in main.                                                   *)
(*                                                                         *)
(* The monitor's RWMutex is Go's: once a writer waits for the lock, no     *)
(* reader gets it until that writer is done.  A critical section that      *)
(* waits for nothing is part of the action that obtains its lock.          *)
(*                                                                         *)
(* A name ending in "_" and a word is a mutated form of the next           *)
(* definition, used to show that a property can fail.                      *)
(***************************************************************************)
EXTENDS Naturals, FiniteSets

CONSTANTS
    Requests,          \* concurrent calls of handleHealth
    MaxRetries,        \* 3 in runWithRetry
    UnhealthyErrors,   \* 3 in IsHealthy
    NoOne,             \* not a goroutine
    MaxFailures        \* bound: number of attempts that fail

ASSUME SchedulerConstants ==
    /\ MaxRetries \in Nat
    /\ UnhealthyErrors \in Nat
    /\ MaxFailures \in Nat
    /\ Requests \cap {"initial", "scheduled"} = {}
    /\ NoOne \notin Requests \cup {"initial", "scheduled"}

Runners == {"initial", "scheduled"}
Goroutines == Runners \cup Requests

VARIABLES
    pc,                  \* what each goroutine does next
    attempt,             \* per runner: retries made in the current run
    ticked,              \* a tick waits in the ticker's channel
    readers,             \* goroutines that hold the read lock
    pendingWriter,       \* the goroutine that waits to write, or NoOne
    lastSuccess,         \* "never", "recent" or "stale" (over an hour ago)
    consecutiveErrors,
    healthy,             \* per goroutine: the Healthy field of its Status
    reported,            \* per request: what its response says
    main,                \* "serving", "stopping", "clean" or "forced"
    failures

lock    == <<readers, pendingWriter>>
monitor == <<lastSuccess, consecutiveErrors>>
vars == <<pc, attempt, ticked, lock, monitor, healthy, reported, main, failures>>

Stopped == main # "serving"            \* stopCompaction is closed
Exited  == main \in {"clean", "forced"}

Goto(g, step) == pc' = [pc EXCEPT ![g] = step]

-----------------------------------------------------------------------------
(***************************************************************************)
(* The monitor.                                                            *)
(***************************************************************************)
CanRead == pendingWriter = NoOne

CanWrite(g) == pendingWriter = g /\ readers = {}

IsHealthy == lastSuccess = "recent" /\ consecutiveErrors <= UnhealthyErrors

RecordSuccess ==
    /\ lastSuccess' = "recent"
    /\ consecutiveErrors' = 0

RecordFailure ==
    /\ consecutiveErrors' = consecutiveErrors + 1
    /\ UNCHANGED lastSuccess

\* An hour passes since the last success.
SuccessAges ==
    /\ ~ Exited
    /\ lastSuccess = "recent"
    /\ lastSuccess' = "stale"
    /\ UNCHANGED <<pc, attempt, ticked, lock, consecutiveErrors, healthy,
                   reported, main, failures>>

\* Status takes the read lock ...
StatusLock_None(g) ==
    /\ CanRead
    /\ UNCHANGED lock

StatusLock(g) ==
    /\ CanRead
    /\ readers' = readers \cup {g}
    /\ UNCHANGED pendingWriter

StatusBegin(g) ==
    /\ pc[g] = "status"
    /\ StatusLock(g)
    /\ Goto(g, "nested")
    /\ UNCHANGED <<attempt, ticked, monitor, healthy, reported, main, failures>>

\* ... calls IsHealthy, which takes it again ...
StatusNested(g) ==
    /\ pc[g] = "nested"
    /\ CanRead
    /\ healthy' = [healthy EXCEPT ![g] = IsHealthy]
    /\ Goto(g, "fields")
    /\ UNCHANGED <<attempt, ticked, lock, monitor, reported, main, failures>>

\* ... and reads the other fields before it lets go.
ReadFields(g) ==
    /\ pc[g] = "fields"
    /\ readers' = readers \ {g}
    /\ healthy' = [healthy EXCEPT ![g] = FALSE]     \* the value is returned
    /\ UNCHANGED <<ticked, pendingWriter, monitor, main, failures>>

-----------------------------------------------------------------------------
(***************************************************************************)
(* handleHealth.                                                           *)
(***************************************************************************)
NoStatus == [ok |-> FALSE, healthy |-> FALSE, errors |-> 0]

\* It calls IsHealthy, which decides on the code of the response, and then Status: two
\* critical sections, between which a result can be recorded.
HealthRequest(g) ==
    /\ pc[g] = "idle"
    /\ main = "serving"
    /\ reported' = [reported EXCEPT ![g] = NoStatus]
    /\ Goto(g, "isHealthy")
    /\ UNCHANGED <<attempt, ticked, lock, monitor, healthy, main, failures>>

HealthCode(g) ==
    /\ pc[g] = "isHealthy"
    /\ CanRead
    /\ reported' = [reported EXCEPT ![g].ok = IsHealthy]
    /\ Goto(g, "status")
    /\ UNCHANGED <<attempt, ticked, lock, monitor, healthy, main, failures>>

HealthAnswer(g) ==
    /\ ReadFields(g)
    /\ reported' = [reported EXCEPT
            ![g] = [@ EXCEPT !.healthy = healthy[g], !.errors = consecutiveErrors]]
    /\ Goto(g, "idle")
    /\ UNCHANGED attempt

Health(g) ==
    \/ HealthCode(g) \/ StatusBegin(g) \/ StatusNested(g) \/ HealthAnswer(g)

-----------------------------------------------------------------------------
(***************************************************************************)
(* runWithRetry.                                                           *)
(***************************************************************************)
\* The initial goroutine ends with its run, the scheduled one goes back to its
\* select.
RunOver(g) == Goto(g, IF g = "initial" THEN "done" ELSE "select")

\* CompactAndCleanup returns.
Compact(g) ==
    /\ pc[g] = "compact"
    /\ \/ Goto(g, "succeeded") /\ UNCHANGED failures
       \/ /\ failures < MaxFailures
          /\ failures' = failures + 1
          /\ Goto(g, "failed")
    /\ UNCHANGED <<attempt, ticked, lock, monitor, healthy, reported, main>>

\* RecordSuccess and RecordFailure ask for the write lock ...
AskLock(g) ==
    /\ pc[g] \in {"succeeded", "failed"}
    /\ pendingWriter = NoOne
    /\ pendingWriter' = g
    /\ UNCHANGED <<pc, attempt, ticked, readers, monitor, healthy, reported,
                   main, failures>>

\* ... and get it when all readers are gone.
Succeeded_KeepsLock(g) ==
    /\ pc[g] = "succeeded"
    /\ CanWrite(g)
    /\ RecordSuccess
    /\ RunOver(g)
    /\ UNCHANGED <<attempt, ticked, lock, healthy, reported, main, failures>>

Succeeded(g) ==
    /\ pc[g] = "succeeded"
    /\ CanWrite(g)
    /\ RecordSuccess
    /\ pendingWriter' = NoOne
    /\ RunOver(g)
    /\ UNCHANGED <<attempt, ticked, readers, healthy, reported, main, failures>>

Failed(g) ==
    /\ pc[g] = "failed"
    /\ CanWrite(g)
    /\ RecordFailure
    /\ pendingWriter' = NoOne
    /\ Goto(g, "status")
    /\ UNCHANGED <<attempt, ticked, readers, healthy, reported, main, failures>>

\* The status decides on the alert; then back off, or give up until the next
\* tick.
Retry_OnceMore(g) ==
    /\ ReadFields(g)
    /\ IF attempt[g] <= MaxRetries
       THEN Goto(g, "backoff") /\ attempt' = [attempt EXCEPT ![g] = @ + 1]
       ELSE RunOver(g) /\ UNCHANGED attempt
    /\ UNCHANGED reported

Retry(g) ==
    /\ ReadFields(g)
    /\ IF attempt[g] < MaxRetries
       THEN Goto(g, "backoff") /\ attempt' = [attempt EXCEPT ![g] = @ + 1]
       ELSE RunOver(g) /\ UNCHANGED attempt
    /\ UNCHANGED reported

\* The delay passes, or the stop channel is closed first.
BackOff(g) ==
    /\ pc[g] = "backoff"
    /\ Goto(g, "compact") \/ (Stopped /\ RunOver(g))
    /\ UNCHANGED <<attempt, ticked, lock, monitor, healthy, reported, main, failures>>

RunWithRetry(g) ==
    \/ Compact(g) \/ AskLock(g) \/ Succeeded(g) \/ Failed(g)
    \/ StatusBegin(g) \/ StatusNested(g) \/ Retry(g) \/ BackOff(g)

(***************************************************************************)
(* The select of RunCompaction.  With both channels ready it takes either. *)
(***************************************************************************)
TickerFires ==
    /\ ~ Exited
    /\ ~ ticked
    /\ ticked' = TRUE
    /\ UNCHANGED <<pc, attempt, lock, monitor, healthy, reported, main, failures>>

SelectTick ==
    /\ pc["scheduled"] = "select"
    /\ ticked
    /\ ticked' = FALSE
    /\ attempt' = [attempt EXCEPT !["scheduled"] = 0]
    /\ Goto("scheduled", "compact")
    /\ UNCHANGED <<lock, monitor, healthy, reported, main, failures>>

SelectStop ==
    /\ pc["scheduled"] = "select"
    /\ Stopped
    /\ Goto("scheduled", "done")
    /\ UNCHANGED <<attempt, ticked, lock, monitor, healthy, reported, main, failures>>

(***************************************************************************)
(* main: a signal closes the stop channel; main then waits for the wait    *)
(* group, which knows of RunCompaction but not of the goroutine it starts, *)
(* or gives up after 5 seconds; and the deferred Close closes the store.   *)
(***************************************************************************)
Signal ==
    /\ main = "serving"
    /\ main' = "stopping"
    /\ UNCHANGED <<pc, attempt, ticked, lock, monitor, healthy, reported, failures>>

Waited == pc["scheduled"] = "done"

Finish ==
    /\ main = "stopping"
    /\ \/ Waited /\ main' = "clean"
       \/ ~ Waited /\ main' = "forced"
    /\ UNCHANGED <<pc, attempt, ticked, lock, monitor, healthy, reported, failures>>

-----------------------------------------------------------------------------
Init ==
    /\ pc = [g \in Goroutines |->
                CASE g = "initial"   -> "compact"
                  [] g = "scheduled" -> "select"
                  [] OTHER           -> "idle"]
    /\ attempt = [g \in Runners |-> 0]
    /\ ticked = FALSE
    /\ readers = {}
    /\ pendingWriter = NoOne
    /\ lastSuccess = "never"
    /\ consecutiveErrors = 0
    /\ healthy = [g \in Goroutines |-> FALSE]
    /\ reported = [g \in Requests |-> NoStatus]
    /\ main = "serving"
    /\ failures = 0

Next ==
    \/ \E g \in Runners : ~ Exited /\ RunWithRetry(g)
    \/ \E g \in Requests : ~ Exited /\ (HealthRequest(g) \/ Health(g))
    \/ SelectTick \/ SelectStop
    \/ TickerFires \/ SuccessAges
    \/ Signal \/ Finish

Spec == Init /\ [][Next]_vars

\* Goroutines are scheduled, and no store call takes for ever.  Go wakes the
\* readers that wait when a writer is done, passes the writer lock on, and
\* takes a ready case of a select at random: none is passed over for ever.
FairSpec ==
    /\ Spec
    /\ \A g \in Runners : SF_vars(~ Exited /\ RunWithRetry(g))
    /\ \A g \in Requests : SF_vars(~ Exited /\ Health(g))
    /\ SF_vars(SelectStop)

-----------------------------------------------------------------------------
(***************************************************************************)
(* Properties.                                                             *)
(***************************************************************************)
\* The type invariant; no run makes more than MaxRetries retries, and the
\* error count never exceeds the attempts that failed.
TypeOK ==
    /\ pc \in [Goroutines ->
            {"idle", "isHealthy", "status", "nested", "fields", "compact",
             "succeeded", "failed", "backoff", "select", "done"}]
    /\ attempt \in [Runners -> 0..MaxRetries]
    /\ ticked \in BOOLEAN
    /\ readers \subseteq Goroutines
    /\ pendingWriter \in Runners \cup {NoOne}
    /\ lastSuccess \in {"never", "recent", "stale"}
    /\ consecutiveErrors \in 0..failures
    /\ healthy \in [Goroutines -> BOOLEAN]
    /\ reported \in [Requests -> [ok : BOOLEAN, healthy : BOOLEAN, errors : Nat]]
    /\ main \in {"serving", "stopping", "clean", "forced"}
    /\ failures \in 0..MaxFailures

\* A Status is one snapshot: it never calls the compaction healthy beside a
\* count of errors that makes it unhealthy, although its verdict and its
\* fields are read at different moments.
StatusConsistent ==
    \A g \in Requests :
        reported[g].healthy => reported[g].errors <= UnhealthyErrors

\* A Status that holds the read lock waits for it a second time, behind a
\* writer that waits for the first: neither will ever go on.
SelfDeadlock ==
    pendingWriter # NoOne /\ \E g \in readers : pc[g] = "nested"

\* Once the stop channel is closed RunCompaction returns, whatever step,
\* back-off or tick it is at, unless the process is gone or the monitor's
\* lock has deadlocked.
StopsScheduler ==
    Stopped ~> (pc["scheduled"] = "done" \/ Exited \/ SelfDeadlock)

\* "Status returns current compaction status for health checks": every health
\* request gets an answer while the process lives.  It need not: see
\* SelfDeadlock.
HealthAnswered ==
    \A g \in Requests : pc[g] # "idle" ~> (pc[g] = "idle" \/ Exited)
=============================================================================
