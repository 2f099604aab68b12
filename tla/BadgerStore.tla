---------------------------- MODULE BadgerStore ----------------------------
(***************************************************************************)
(* pkg/storage/badger.  Every call runs one transaction in a goroutine and *)
(* waits for it or for the end of its context, whichever comes first; a    *)
(* caller that stopped waiting does not stop the transaction.              *)
(*                                                                         *)
(* Badger's transactions are external: a transaction reads the database as *)
(* of its beginning, and one that read a key which another transaction     *)
(* wrote since then does not commit.  A deletion reads every key; a write  *)
(* reads none.                                                             *)
(*                                                                         *)
(* A name ending in "_" and a word is a mutated form of the next           *)
(* definition, used to show that a property can fail.                      *)
(***************************************************************************)
EXTENDS StoreCalls

CONSTANTS
    Operations,    \* what the callers ask for
    KeyRange       \* times from -KeyRange to KeyRange - 1 fit the key (2^63 ns)

ASSUME BadgerConstants ==
    /\ KeyRange \in Nat \ {0}
    /\ MaxCrashes \in Nat
    /\ IsFiniteSet(Calls)

\* What may be asked.  No time that is written wraps around in the key: nothing in
\* the code sees to that, a sample of the year 2300 would come back in 1715.
ASSUME OperationsFit ==
    \A o \in Operations :
        /\ o.kind \in {"write", "delete", "query", "stats"}
        /\ o.kind = "write" =>
              /\ o.batch \in Seq(ToSet(o.batch))
              /\ \A e \in ToSet(o.batch) : e.ts \in -KeyRange .. KeyRange - 1
        /\ o.kind = "query" => o.limit \in Nat

VARIABLES
    db,            \* the committed entries
    view,          \* per open deletion: the database its transaction reads
    written        \* per open deletion: keys written since then

txns == <<view, written>>
badgerVars == <<calls, past, crashes, db, txns>>

-----------------------------------------------------------------------------
(***************************************************************************)
(* Keys.                                                                   *)
(***************************************************************************)
\* UnixNano and back: a time outside the range of the key wraps around.
KeyTime(t) == ((t + KeyRange) % (2 * KeyRange)) - KeyRange

\* Keys are compared as bytes, in which the time is an unsigned number: times
\* before 1970 come after all others.
KeyOrder(t) == t % (2 * KeyRange)

makeKey(e) == <<SeriesHash(e), KeyTime(e.ts)>>

Keys(entries) == {makeKey(e) : e \in entries}

\* Delete reads the time from the key.
MarkedForDeletion_Inclusive(o, entries) ==
    {e \in entries : KeyTime(e.ts) <= o.before /\ (o.res = AnyResolution \/ e.res = o.res)}

MarkedForDeletion(o, entries) ==
    {e \in entries : KeyTime(e.ts) < o.before /\ (o.res = AnyResolution \/ e.res = o.res)}

\* A limited query stops the scan: the keys of one hash are in order of time,
\* and no more than one series is cut short.
FirstKeys(found, all) ==
    LET rest == all \ found
        cut  == {SeriesHash(e) : e \in found} \cap {SeriesHash(e) : e \in rest}
    IN  /\ Cardinality(cut) <= 1
        /\ \A e \in found, f \in rest :
                SeriesHash(e) = SeriesHash(f) => KeyOrder(e.ts) <= KeyOrder(f.ts)

Scans(o, store) ==
    LET all == Selected(o, store)
    IN  IF o.limit = 0 \/ Cardinality(all) <= o.limit
        THEN {all}
        ELSE {found \in SUBSET all : Cardinality(found) = o.limit /\ FirstKeys(found, all)}

Stats(store) == Counted(Cardinality(store), store, {KeyTime(e.ts) : e \in store})

-----------------------------------------------------------------------------
(***************************************************************************)
(* The callers.                                                            *)
(***************************************************************************)
BadgerInit ==
    /\ CallsInit
    /\ db = {}
    /\ view = [c \in Calls |-> {}]
    /\ written = [c \in Calls |-> {}]

BadgerCall(c, o) ==
    /\ Call(c, o, db)
    /\ UNCHANGED <<db, txns>>

\* The context of the call is done before it begins.
CallExpired(c, o) ==
    /\ caller[c] = "new"
    /\ MayEnd(c)
    /\ op' = [op EXCEPT ![c] = o]
    /\ Reply(c, "error")
    /\ Work(c, "failed")
    /\ Remember(c, o, db)
    /\ UNCHANGED <<answer, crashes, db, txns>>

BadgerReturn(c) ==
    /\ Return(c)
    /\ UNCHANGED <<db, txns>>

\* The other branch of the select: the deadline passes, or the client of the
\* request leaves.  The goroutine is left behind.  A background context has no Done.
Cancelled_Succeeds(c) ==
    /\ caller[c] = "waiting"
    /\ MayEnd(c)
    /\ Reply(c, "ok")
    /\ UNCHANGED <<op, job, answer, past, crashes, db, txns>>

Cancelled_WaitsForWork(c) ==
    /\ caller[c] = "waiting"
    /\ MayEnd(c)
    /\ ~ Unfinished(c)
    /\ Reply(c, "error")
    /\ UNCHANGED <<op, job, answer, past, crashes, db, txns>>

Cancelled(c) ==
    /\ caller[c] = "waiting"
    /\ MayEnd(c)
    /\ Reply(c, "error")
    /\ UNCHANGED <<op, job, answer, past, crashes, db, txns>>

-----------------------------------------------------------------------------
(***************************************************************************)
(* The transactions.                                                       *)
(***************************************************************************)
\* A query and a count see the database of one moment, when their transaction
\* began.
ReadView(c) ==
    /\ job[c] = "running"
    /\ \/ /\ op[c].kind = "query"
          /\ \E found \in Scans(op[c], db) :
                answer' = [answer EXCEPT ![c] = Found(found)]
       \/ /\ op[c].kind = "stats"
          /\ answer' = [answer EXCEPT ![c] = Stats(db)]
    /\ Work(c, "done")
    /\ UNCHANGED <<op, caller, past, crashes, db, txns>>

\* A deletion collects its keys from such a view, too.
BeginDelete(c) ==
    /\ job[c] = "running"
    /\ op[c].kind = "delete"
    /\ Work(c, "open")
    /\ view' = [view EXCEPT ![c] = db]
    /\ UNCHANGED <<op, caller, answer, past, crashes, db, written>>

\* The transaction is over.
Discard(c) ==
    /\ view' = [view EXCEPT ![c] = {}]
    /\ written' = [written EXCEPT ![c] = {}]

\* The transaction returns an error: its context is found done between two
\* entries, it has grown too big for Badger, or the disk fails.
Abort(c) ==
    /\ Unfinished(c)
    /\ Work(c, "failed")
    /\ Discard(c)
    /\ UNCHANGED <<op, caller, answer, past, crashes, db>>

\* A transaction of c that changes the keys commits.
Commit(c, keys, contents) ==
    /\ db' = contents
    /\ Work(c, "done")
    /\ view' = [view EXCEPT ![c] = {}]
    /\ written' = [d \in Calls |-> IF job'[d] = "open" THEN written[d] \cup keys ELSE {}]
    /\ Keep(contents)
    /\ UNCHANGED <<op, caller, answer, over, crashes>>

CommitWrite(c) ==
    /\ job[c] = "running"
    /\ op[c].kind = "write"
    /\ Commit(c, Keys(ToSet(op[c].batch)), Put(db, LastOfEachKey(op[c].batch)))

\* Delete has read every key of its view.
Conflicts(c) == Keys(view[c]) \cap written[c] # {}

CommitDelete(c) ==
    LET keys == Keys(MarkedForDeletion(op[c], view[c]))
    IN  /\ job[c] = "open"
        /\ op[c].kind = "delete"
        /\ ~ Conflicts(c)
        /\ Commit(c, keys, {e \in db : makeKey(e) \notin keys})

\* ErrConflict.
DeleteConflicts(c) ==
    /\ job[c] = "open"
    /\ op[c].kind = "delete"
    /\ Conflicts(c)
    /\ Work(c, "failed")
    /\ Discard(c)
    /\ UNCHANGED <<op, caller, answer, past, crashes, db>>

\* What was committed survives.
BadgerCrash ==
    /\ CallsLost
    /\ view' = [c \in Calls |-> {}]
    /\ written' = [c \in Calls |-> {}]
    /\ UNCHANGED <<present, db>>

-----------------------------------------------------------------------------
BadgerStep(c) ==
    \/ BadgerReturn(c) \/ Cancelled(c)
    \/ ReadView(c) \/ BeginDelete(c) \/ Abort(c)
    \/ CommitWrite(c) \/ CommitDelete(c) \/ DeleteConflicts(c)

BadgerNext ==
    \/ \E c \in Calls :
        \/ \E o \in Operations : BadgerCall(c, o) \/ CallExpired(c, o)
        \/ BadgerStep(c)
    \/ BadgerCrash

BadgerSpec == BadgerInit /\ [][BadgerNext]_badgerVars

Writable == UNION {ToSet(o.batch) : o \in {w \in Operations : w.kind = "write"}}

\* The type invariant.
BadgerTypeOK ==
    /\ caller \in [Calls -> {"new", "waiting", "ok", "error"}]
    /\ job \in [Calls -> {"none", "running", "open", "done", "failed"}]
    /\ op \in [Calls -> Operations \cup {NoOp}]
    /\ crashes \in 0 .. MaxCrashes
    /\ db \in SUBSET Writable
    /\ view \in [Calls -> SUBSET Writable]
    /\ present \in [Calls -> SUBSET Writable]
    /\ over \in [Calls -> SUBSET Calls]
    /\ DOMAIN answer = Calls
    /\ DOMAIN written = Calls

-----------------------------------------------------------------------------
(***************************************************************************)
(* What a store promises: the goroutines, the snapshots and the conflicts  *)
(* are hidden.                                                             *)
(***************************************************************************)
Promise == INSTANCE MetricStore WITH
    contents <- db,
    durable  <- TRUE,
    inFlight <- {c \in Calls : Unfinished(c)},
    applied  <- {c \in Calls : job[c] = "done" /\ IsUpdate(op[c])}
=============================================================================
