--------------------- MODULE CompactionSchedulerProofs ---------------------
(***************************************************************************)
(* Theorems of CompactionScheduler, for any number of health requests and  *)
(* any limits.                                                             *)
(***************************************************************************)
EXTENDS CompactionScheduler, TLAPS

\* A goroutine between the two halves of Status holds the read lock.
HoldsLock ==
    \A g \in Goroutines : pc[g] \in {"nested", "fields"} => g \in readers

\* A verdict still stands while its Status reads the other fields.
VerdictStands ==
    \A g \in Goroutines :
        (pc[g] = "fields" /\ healthy[g]) => consecutiveErrors <= UnhealthyErrors

Unrecorded(g) == IF pc[g] = "failed" THEN 1 ELSE 0

\* Every error that is counted, or about to be, is a failed attempt.
ErrorsAreFailures ==
    consecutiveErrors + Unrecorded("initial") + Unrecorded("scheduled") <= failures

SInv == TypeOK /\ HoldsLock /\ VerdictStands /\ ErrorsAreFailures /\ StatusConsistent

\* The runners are two, and none of the requests.
LEMMA Names ==
    /\ "initial" \in Goroutines /\ "scheduled" \in Goroutines
    /\ Runners \subseteq Goroutines /\ Requests \subseteq Goroutines
    /\ NoOne \notin Goroutines
    /\ Runners = {"initial", "scheduled"} /\ Runners \cap Requests = {}
    /\ Goroutines = Runners \cup Requests
  BY SchedulerConstants DEF Goroutines, Runners

\* The initial state satisfies it.
LEMMA SInit == Init => SInv
<1> USE Names, SchedulerConstants
<1>1. Init => TypeOK
  <2> SUFFICES ASSUME Init PROVE TypeOK
    OBVIOUS
  <2>1. pc \in [Goroutines -> {"compact", "select", "idle"}]
    BY DEF Init
  <2>2. consecutiveErrors \in 0..failures /\ failures \in 0..MaxFailures
    BY DEF Init
  <2>3. attempt \in [Runners -> 0..MaxRetries]
    BY DEF Init
  <2> QED
    BY <2>1, <2>2, <2>3 DEF Init, TypeOK, NoStatus
<1>2. Init => HoldsLock /\ VerdictStands /\ StatusConsistent
  BY DEF Init, HoldsLock, VerdictStands, StatusConsistent, NoStatus
<1>3. Init => ErrorsAreFailures
  BY DEF Init, ErrorsAreFailures, Unrecorded
<1> QED
  BY <1>1, <1>2, <1>3 DEF SInv

\* The steps of Status and of the health handler.
LEMMA HealthNext ==
    ASSUME SInv, NEW g \in Goroutines,
           \/ StatusBegin(g) \/ StatusNested(g)
           \/ g \in Requests /\ (HealthRequest(g) \/ HealthCode(g) \/ HealthAnswer(g))
    PROVE  SInv'
<1> USE Names, SchedulerConstants
    DEF SInv, TypeOK, HoldsLock, VerdictStands, ErrorsAreFailures, StatusConsistent,
        Unrecorded, Goto, lock, monitor
<1>1. CASE StatusBegin(g)
  BY <1>1 DEF StatusBegin, StatusLock
<1>2. CASE StatusNested(g)
  BY <1>2 DEF StatusNested, IsHealthy
<1>3. CASE g \in Requests /\ HealthRequest(g)
  BY <1>3 DEF HealthRequest, NoStatus
<1>4. CASE g \in Requests /\ HealthCode(g)
  <2>1. PICK b \in BOOLEAN : reported' = [reported EXCEPT ![g].ok = b]
    BY <1>4 DEF HealthCode, IsHealthy
  <2>2. reported[g] \in [ok : BOOLEAN, healthy : BOOLEAN, errors : Nat]
    BY <1>4
  <2>3. /\ reported' \in [Requests -> [ok : BOOLEAN, healthy : BOOLEAN, errors : Nat]]
        /\ StatusConsistent'
    BY <2>1, <2>2
  <2>4. /\ pc' = [pc EXCEPT ![g] = "status"]
        /\ UNCHANGED <<attempt, ticked, lock, monitor, healthy, main, failures>>
    BY <1>4 DEF HealthCode
  <2> QED
    BY <2>3, <2>4
<1>5. CASE g \in Requests /\ HealthAnswer(g)
  <2>1. reported' = [reported EXCEPT
            ![g] = [@ EXCEPT !.healthy = healthy[g], !.errors = consecutiveErrors]]
    BY <1>5 DEF HealthAnswer
  <2>2. /\ reported[g] \in [ok : BOOLEAN, healthy : BOOLEAN, errors : Nat]
        /\ healthy[g] \in BOOLEAN /\ consecutiveErrors \in Nat
        /\ healthy[g] => consecutiveErrors <= UnhealthyErrors
    BY <1>5 DEF HealthAnswer, ReadFields
  <2>3. /\ reported' \in [Requests -> [ok : BOOLEAN, healthy : BOOLEAN, errors : Nat]]
        /\ StatusConsistent'
    BY <2>1, <2>2
  <2>4. /\ pc' = [pc EXCEPT ![g] = "idle"]
        /\ readers' = readers \ {g} /\ pendingWriter' = pendingWriter
        /\ healthy' = [healthy EXCEPT ![g] = FALSE]
        /\ UNCHANGED <<attempt, ticked, monitor, main, failures>>
    BY <1>5 DEF HealthAnswer, ReadFields
  <2> QED
    BY <2>3, <2>4
<1> QED
  BY <1>1, <1>2, <1>3, <1>4, <1>5

\* The steps of a run, but those of Status.
LEMMA RunnerNext ==
    ASSUME SInv, NEW g \in Runners,
           \/ Compact(g) \/ AskLock(g) \/ Succeeded(g) \/ Failed(g) \/ Retry(g)
           \/ BackOff(g)
    PROVE  SInv'
<1> USE Names, SchedulerConstants
    DEF SInv, TypeOK, HoldsLock, VerdictStands, ErrorsAreFailures, StatusConsistent,
        Unrecorded, Goto, lock, monitor, RunOver
<1>1. CASE Compact(g)
  <2>1. /\ failures' \in 0..MaxFailures /\ consecutiveErrors \in 0..failures'
        /\ ErrorsAreFailures'
    BY <1>1 DEF Compact
  <2> QED
    BY <1>1, <2>1 DEF Compact
<1>2. CASE AskLock(g)
  BY <1>2 DEF AskLock
<1>3. CASE Succeeded(g)
  <2>1. consecutiveErrors' \in 0..failures' /\ ErrorsAreFailures'
    BY <1>3 DEF Succeeded, RecordSuccess
  <2>2. \A r \in Goroutines : pc'[r] \notin {"nested", "fields"}
    BY <1>3 DEF Succeeded, CanWrite
  <2> QED
    BY <1>3, <2>1, <2>2 DEF Succeeded, RecordSuccess
<1>4. CASE Failed(g)
  <2>1. consecutiveErrors' \in 0..failures' /\ ErrorsAreFailures'
    BY <1>4 DEF Failed, RecordFailure
  <2>2. \A r \in Goroutines : pc'[r] \notin {"nested", "fields"}
    BY <1>4 DEF Failed, CanWrite
  <2> QED
    BY <1>4, <2>1, <2>2 DEF Failed, RecordFailure
<1>5. CASE Retry(g)
  <2>1. attempt' \in [Runners -> 0..MaxRetries]
    BY <1>5 DEF Retry
  <2>2. ErrorsAreFailures'
    BY <1>5 DEF Retry, ReadFields
  <2> QED
    BY <1>5, <2>1, <2>2 DEF Retry, ReadFields
<1>6. CASE BackOff(g)
  BY <1>6 DEF BackOff
<1> QED
  BY <1>1, <1>2, <1>3, <1>4, <1>5, <1>6

\* The select of RunCompaction, the clock and main.
LEMMA OtherNext ==
    ASSUME SInv,
           \/ SelectTick \/ SelectStop \/ TickerFires \/ SuccessAges
           \/ Signal \/ Finish \/ UNCHANGED vars
    PROVE  SInv'
<1> USE Names, SchedulerConstants
    DEF SInv, TypeOK, HoldsLock, VerdictStands, ErrorsAreFailures, StatusConsistent,
        Unrecorded, Goto, lock, monitor
<1>1. CASE SelectTick
  <2>0. attempt' = [attempt EXCEPT !["scheduled"] = 0] /\ ticked' = FALSE
    BY <1>1 DEF SelectTick
  <2>1. ticked' \in BOOLEAN
    BY <2>0
  <2>4. 0 \in 0..MaxRetries /\ attempt \in [Runners -> 0..MaxRetries]
    OBVIOUS
  <2>5. attempt' \in [Runners -> 0..MaxRetries]
    BY <2>0, <2>4
  <2>2. ErrorsAreFailures'
    BY <1>1 DEF SelectTick
  <2>3. /\ pc' = [pc EXCEPT !["scheduled"] = "compact"]
        /\ UNCHANGED <<lock, monitor, healthy, reported, main, failures>>
    BY <1>1 DEF SelectTick
  <2> QED
    BY <2>1, <2>2, <2>3, <2>5
<1>2. CASE SelectStop
  BY <1>2 DEF SelectStop
<1>3. CASE TickerFires
  <2>1. ticked' \in BOOLEAN /\ UNCHANGED <<pc, attempt, lock, monitor, healthy,
                                          reported, main, failures>>
    BY <1>3 DEF TickerFires
  <2> QED
    BY <2>1
<1>4. CASE SuccessAges
  <2>1. lastSuccess' \in {"never", "recent", "stale"}
    BY <1>4 DEF SuccessAges
  <2>2. UNCHANGED <<pc, attempt, ticked, lock, consecutiveErrors, healthy,
                    reported, main, failures>>
    BY <1>4 DEF SuccessAges
  <2> QED
    BY <2>1, <2>2
<1>5. CASE Signal \/ Finish
  <2>1. main' \in {"serving", "stopping", "clean", "forced"}
    BY <1>5 DEF Signal, Finish
  <2>2. UNCHANGED <<pc, attempt, ticked, lock, monitor, healthy, reported, failures>>
    BY <1>5 DEF Signal, Finish
  <2> QED
    BY <2>1, <2>2
<1>6. CASE UNCHANGED vars
  BY <1>6 DEF vars
<1> QED
  BY <1>1, <1>2, <1>3, <1>4, <1>5, <1>6

\* Every step preserves the invariant.
LEMMA SNext == SInv /\ [Next]_vars => SInv'
  BY Names, HealthNext, RunnerNext, OtherNext DEF Next, RunWithRetry, Health

\* The scheduler and the monitor are well typed: no run retries more often than
\* it may, and no error is counted twice.
THEOREM TypeCorrect == Spec => []TypeOK
<1>1. SInv => TypeOK
  BY DEF SInv
<1> QED
  BY <1>1, SInit, SNext, PTL DEF Spec

\* A Status is one snapshot of the monitor, however many requests and runs share
\* its lock.
THEOREM StatusIsSnapshot == Spec => []StatusConsistent
<1>1. SInv => StatusConsistent
  BY DEF SInv
<1> QED
  BY <1>1, SInit, SNext, PTL DEF Spec
=============================================================================
