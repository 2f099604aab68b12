---------------------------- MODULE StoreClients ----------------------------
(***************************************************************************)
(* The store and its callers: requests that write, delete, query, export   *)
(* and count, each on its own, and the import of a backup, which writes    *)
(* its metrics batch by batch and gives up at the first batch that fails.  *)
(* Posting the backup again starts over.                                   *)
(*                                                                         *)
(* The server runs with the Badger store; the memory store is the other    *)
(* implementation of the same interface.                                   *)
(*                                                                         *)
(* A name ending in "_" and a word is a mutated form of the next           *)
(* definition, used to show that a property can fail.                      *)
(***************************************************************************)
EXTENDS BadgerStore, MemoryStore

CONSTANTS
    Asks,                \* per call that is not the importer's: what it may ask
    ImportCalls,         \* the calls the importer makes, in order
    Backup,              \* the entries of the file, in order
    Importable,          \* the entries validateImportedMetric accepts
    MaxImportBatchSize,
    MaxCalls             \* bound: how many of the calls are made

ASSUME ClientConstants ==
    /\ DOMAIN Asks \subseteq Calls
    /\ \A c \in DOMAIN Asks : Asks[c] \subseteq Operations
    /\ Backup \in Seq(ToSet(Backup))
    /\ ImportCalls \in Seq(Calls)
    /\ ToSet(ImportCalls) = Calls \ DOMAIN Asks
    /\ MaxImportBatchSize \in Nat \ {0}

VARIABLES
    backend,       \* the implementation in use
    import,        \* what the import does next
    batch,         \* number of the batch it writes
    used           \* how many of its calls it has made

importer == <<import, batch, used>>
vars == <<badgerVars, metrics, backend, importer>>

Contents == IF backend = "badger" THEN db ELSE Stored

-----------------------------------------------------------------------------
(***************************************************************************)
(* ImportFromJSON.                                                         *)
(***************************************************************************)
validMetrics == Among(Backup, Importable)

\* Batches of the slice [i, end), the last one shorter.
BatchCount == (Len(validMetrics) + MaxImportBatchSize - 1) \div MaxImportBatchSize

Batch(n) ==
    LET first == (n - 1) * MaxImportBatchSize + 1
        last  == Min({n * MaxImportBatchSize, Len(validMetrics)})
    IN  SubSeq(validMetrics, first, last)

ASSUME ImportIsAsked == \A n \in 1 .. BatchCount : WriteOf(Batch(n)) \in Operations

MayCall == Cardinality({c \in Calls : caller[c] # "new"}) < MaxCalls

LastCall == ImportCalls[used]

StartImport ==
    /\ import \in {"idle", "failed", "done"}
    /\ used < Len(ImportCalls)
    /\ import' = IF BatchCount = 0 THEN "done" ELSE "batch"
    /\ batch' = 1
    /\ UNCHANGED <<badgerVars, metrics, backend, used>>

\* storage.Write with the context of the request.
WriteBatch(c) ==
    /\ import = "batch"
    /\ MayCall
    /\ used < Len(ImportCalls)
    /\ c = ImportCalls[used + 1]
    /\ \/ backend = "badger" /\ UNCHANGED metrics
          /\ (BadgerCall(c, WriteOf(Batch(batch))) \/ CallExpired(c, WriteOf(Batch(batch))))
       \/ /\ backend = "memory"
          /\ MemoryCall(c, WriteOf(Batch(batch)))
          /\ UNCHANGED <<db, txns>>
    /\ used' = used + 1
    /\ import' = "writing"
    /\ UNCHANGED <<backend, batch>>

BatchWritten ==
    /\ import = "writing"
    /\ caller[LastCall] = "ok"
    /\ batch' = batch + 1
    /\ import' = IF batch = BatchCount THEN "done" ELSE "batch"
    /\ UNCHANGED <<badgerVars, metrics, backend, used>>

\* The error of Write ends the import with the earlier batches written.
BatchFailed_GoesOn ==
    /\ import = "writing"
    /\ caller[LastCall] = "error"
    /\ batch' = batch + 1
    /\ import' = IF batch = BatchCount THEN "done" ELSE "batch"
    /\ UNCHANGED <<badgerVars, metrics, backend, used>>

BatchFailed ==
    /\ import = "writing"
    /\ caller[LastCall] = "error"
    /\ import' = "failed"
    /\ UNCHANGED <<badgerVars, metrics, backend, batch, used>>

-----------------------------------------------------------------------------
Init ==
    /\ backend \in {"badger", "memory"}
    /\ BadgerInit
    /\ metrics = << >>
    /\ import = "idle"
    /\ batch = 0
    /\ used = 0

Badger ==
    /\ backend = "badger"
    /\ \E c \in Calls :
        \/ c \in DOMAIN Asks /\ MayCall /\ \E o \in Asks[c] : BadgerCall(c, o) \/ CallExpired(c, o)
        \/ BadgerStep(c)
    /\ UNCHANGED <<metrics, backend, importer>>

Memory ==
    /\ backend = "memory"
    /\ \E c \in Calls :
        \/ c \in DOMAIN Asks /\ MayCall /\ \E o \in Asks[c] : MemoryCall(c, o)
        \/ MemoryStep(c)
    /\ UNCHANGED <<db, txns, backend, importer>>

\* The import ends with the process.
Crash ==
    /\ \/ backend = "badger" /\ BadgerCrash /\ UNCHANGED metrics
       \/ backend = "memory" /\ MemoryCrash /\ UNCHANGED <<db, txns>>
    /\ import' = IF import \in {"batch", "writing"} THEN "failed" ELSE import
    /\ UNCHANGED <<backend, batch, used>>

Next ==
    \/ Badger \/ Memory \/ Crash
    \/ StartImport \/ BatchWritten \/ BatchFailed
    \/ \E c \in Calls : WriteBatch(c)

Spec == Init /\ [][Next]_vars

-----------------------------------------------------------------------------
(***************************************************************************)
(* Properties.                                                             *)
(***************************************************************************)
\* The type invariant.
TypeOK ==
    /\ BadgerTypeOK
    /\ backend = "memory" => MemoryTypeOK
    /\ backend = "badger" => metrics = << >>
    /\ backend = "memory" => db = {}
    /\ import \in {"idle", "batch", "writing", "done", "failed"}
    /\ batch \in 0 .. BatchCount + 1
    /\ used \in 0 .. Len(ImportCalls)

\* Either implementation keeps the promise of storage.Storage, whatever calls
\* overlap, run out of time or are cut off by a crash.
Storage == INSTANCE MetricStore WITH
    contents   <- Contents,
    durable    <- (backend = "badger"),
    inFlight   <- {c \in Calls : Unfinished(c)},
    applied    <- {c \in Calls : job[c] = "done" /\ IsUpdate(op[c])}

ImplementsStorage == Storage!Spec

\* An operation can remove the entry: it deletes it or writes its key.
Removes(o, e) ==
    \/ o.kind = "delete" /\ Matches(o, e)
    \/ o.kind = "write" /\ \E n \in ToSet(o.batch) : n # e /\ SameKey(n, e)

\* The work of another call that can remove the entry was not over when c was
\* called.  A write that timed out counts until its transaction has ended.
Disturbed(c, e) == \E d \in Calls \ (over[c] \cup {c}) : Removes(op[d], e)

\* A write whose success was reported stays: its entries are in the store unless
\* something that was still under way at the call, or began later, removes them
\* (or the server forgot everything in a restart).
AcknowledgedStays ==
    \A c \in Calls : caller[c] = "ok" /\ op[c].kind = "write" =>
        \A e \in LastOfEachKey(op[c].batch) :
            \/ e \in Contents
            \/ Disturbed(c, e)
            \/ backend = "memory" /\ crashes > 0

\* An import that reports success has stored every metric it accepted, except
\* where other requests remove some.
ImportIsComplete ==
    import = "done" =>
        \A e \in ToSet(Backup) \cap Importable :
            \/ e \in Contents
            \/ \E c \in Calls : Removes(op[c], e)
            \/ backend = "memory" /\ crashes > 0

\* A call that has a deadline returns, however long its transaction hangs; one that
\* has none returns from Badger once its transaction is over, and the memory
\* store answers every call.
CallsReturn ==
    \A c \in Calls :
        /\ caller[c] = "waiting"
        /\ backend = "memory" \/ contextOf[c] = "deadline" \/ ~ Unfinished(c)
        ~> caller[c] # "waiting"

\* Deadlines pass, a goroutine whose channel holds the result takes it, and the memory
\* store's lock is released.  A transaction owes nothing, and nothing ends the context
\* of a request whose client stays.
FairSpec ==
    /\ Spec
    /\ \A c \in Calls :
        /\ WF_vars(/\ backend = "badger"
                   /\ BadgerReturn(c) \/ (contextOf[c] = "deadline" /\ Cancelled(c))
                   /\ UNCHANGED <<metrics, backend, importer>>)
        /\ WF_vars(backend = "memory" /\ MemoryStep(c) /\ UNCHANGED <<db, txns, backend, importer>>)
=============================================================================
