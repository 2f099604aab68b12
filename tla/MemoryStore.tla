---------------------------- MODULE MemoryStore ----------------------------
(***************************************************************************)
(* pkg/storage/memory: a slice under a read-write lock, lost on restart.   *)
(* The context of a call is not looked at, a caller waits until its work   *)
(* is done, and a write that would exceed the limit is refused as a whole. *)
(*                                                                         *)
(* A name ending in "_" and a word is a mutated form of the next           *)
(* definition, used to show that a property can fail.                      *)
(***************************************************************************)
EXTENDS StoreCalls

CONSTANTS
    MaxMetrics,           \* of the store; zero asks for the default
    DefaultMaxMetrics

ASSUME MemoryConstants == MaxMetrics \in Nat /\ DefaultMaxMetrics \in Nat

VARIABLE metrics     \* the slice

Stored == ToSet(metrics)

maxMetrics == IF MaxMetrics = 0 THEN DefaultMaxMetrics ELSE MaxMetrics

\* The limit counts metrics, copies included.
Exceeds_Before(batch) == Len(metrics) > maxMetrics

Exceeds(batch) == Len(metrics) + Len(batch) > maxMetrics

Appended(batch) == metrics \o batch

\* The first entries in the slice, up to the limit.
Filter(o) ==
    LET matching == Among(metrics, Selected(o, Stored))
    IN  IF o.limit = 0 \/ Len(matching) <= o.limit
        THEN matching
        ELSE SubSeq(matching, 1, o.limit)

\* Kept unless older than the cutoff and, where a resolution is given, of it.
Remaining(o) == Among(metrics, {e \in Stored : ~ Matches(o, e)})

-----------------------------------------------------------------------------
MemoryInit ==
    /\ CallsInit
    /\ metrics = << >>

MemoryCall(c, o) ==
    /\ Call(c, o, Stored)
    /\ UNCHANGED metrics

MemoryReturn(c) ==
    /\ Return(c)
    /\ UNCHANGED metrics

\* The work of a call, done under the lock in one piece.
UnderLock(c) ==
    /\ job[c] = "running"
    /\ Keep(ToSet(metrics'))
    /\ UNCHANGED <<op, caller, crashes, over>>

MemoryWrite(c) ==
    /\ op[c].kind = "write"
    /\ IF Exceeds(op[c].batch)
       THEN UNCHANGED metrics /\ Work(c, "failed")
       ELSE metrics' = Appended(op[c].batch) /\ Work(c, "done")
    /\ UnderLock(c)
    /\ UNCHANGED answer

MemoryDelete(c) ==
    /\ op[c].kind = "delete"
    /\ metrics' = Remaining(op[c])
    /\ UnderLock(c)
    /\ Work(c, "done")
    /\ UNCHANGED answer

MemoryQuery(c) ==
    /\ op[c].kind = "query"
    /\ answer' = [answer EXCEPT ![c] = Found(ToSet(Filter(op[c])))]
    /\ Work(c, "done")
    /\ UNCHANGED metrics
    /\ UnderLock(c)

MemoryStats(c) ==
    /\ op[c].kind = "stats"
    /\ answer' = [answer EXCEPT ![c] =
                    Counted(Len(metrics), Stored, {e.ts : e \in Stored})]
    /\ Work(c, "done")
    /\ UNCHANGED metrics
    /\ UnderLock(c)

\* The slice is gone.
MemoryCrash ==
    /\ CallsLost
    /\ metrics' = << >>
    /\ Keep({})

MemoryStep(c) ==
    MemoryReturn(c) \/ MemoryWrite(c) \/ MemoryDelete(c) \/ MemoryQuery(c) \/ MemoryStats(c)

\* The type invariant.
MemoryTypeOK ==
    /\ Len(metrics) <= maxMetrics
    /\ \A c \in Calls : job[c] # "open"
=============================================================================
