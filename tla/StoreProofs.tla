---------------------------- MODULE StoreProofs ----------------------------
(***************************************************************************)
(* The stores keep the promise of storage.Storage (MetricStore).  First    *)
(* the Badger store by itself: the goroutines left behind by callers that  *)
(* gave up, the views of open transactions and the conflicts between them  *)
(* are hidden by a refinement mapping.  Then either store with its clients *)
(* and the importer, which works through its calls: what clients           *)
(* wrote stays, an import that succeeded is complete.  The proofs assume   *)
(* that every time written fits the key.                                   *)
(***************************************************************************)
EXTENDS StoreClients, SumTheorems

-----------------------------------------------------------------------------
(***************************************************************************)
(* The inductive invariant.                                                *)
(***************************************************************************)
Shapes ==
    /\ op \in [Calls -> Operations \cup {NoOp}]
    /\ DOMAIN caller = Calls
    /\ caller = [c \in Calls |-> caller[c]]
    /\ job \in [Calls -> {"none", "running", "open", "done", "failed"}]
    /\ answer = [c \in Calls |-> answer[c]]
    /\ present = [c \in Calls |-> present[c]]
    /\ view = [c \in Calls |-> view[c]]

\* The entries are finitely many and their times fit the key.
Fitting ==
    /\ IsFiniteSet(db)
    /\ \A e \in db : e.ts \in -KeyRange .. KeyRange - 1
    /\ \A c \in Calls : \A e \in view[c] : e.ts \in -KeyRange .. KeyRange - 1

\* A call that was not made has no work, one that has was asked something.
Progress ==
    /\ \A c \in Calls : caller[c] = "new" => job[c] = "none" /\ op[c] = NoOp
    /\ \A c \in Calls : job[c] # "none" => op[c] \in Operations
    /\ \A c \in Calls : job[c] = "done" => IsUpdate(op[c]) \/ answer[c] # NoAnswer

\* A deletion sees all that has been there since its call.
Views ==
    /\ \A c \in Calls : present[c] \subseteq db
    /\ \A c \in Calls : job[c] = "open" =>
            op[c].kind = "delete" /\ present[c] \subseteq view[c]

BadgerIInv == Shapes /\ Fitting /\ Progress /\ Views

-----------------------------------------------------------------------------
(***************************************************************************)
(* Keys.                                                                   *)
(***************************************************************************)
\* A time that fits the key is read back unchanged.
LEMMA KeyTimeExact ==
    ASSUME NEW t \in -KeyRange .. KeyRange - 1
    PROVE  KeyTime(t) = t
  <1>1. KeyRange \in Nat \ {0}
    BY BadgerConstants
  <1>2. t + KeyRange \in 0 .. 2 * KeyRange - 1
    BY <1>1
  <1>3. \A w \in Nat \ {0} : \A n \in 0 .. w - 1 : n % w = n
    BY SMT
  <1>4. (t + KeyRange) % (2 * KeyRange) = t + KeyRange
    BY <1>1, <1>2, <1>3
  <1>. QED
    BY <1>1, <1>4 DEF KeyTime

\* Entries of one key have one time and one resolution.
LEMMA KeyDetermines ==
    ASSUME NEW e, NEW f, makeKey(e) = makeKey(f),
           e.ts \in -KeyRange .. KeyRange - 1, f.ts \in -KeyRange .. KeyRange - 1
    PROVE  e.ts = f.ts /\ e.res = f.res
  <1>1. SeriesHash(e) = SeriesHash(f) /\ KeyTime(e.ts) = KeyTime(f.ts)
    BY DEF makeKey
  <1>2. e.res = f.res
    BY <1>1 DEF SeriesHash
  <1>. QED
    BY <1>1, <1>2, KeyTimeExact

\* Put adds a finite set and keeps what fits.
LEMMA PutFits ==
    ASSUME NEW store, NEW new, IsFiniteSet(store), IsFiniteSet(new),
           \A e \in store \cup new : e.ts \in -KeyRange .. KeyRange - 1
    PROVE  /\ IsFiniteSet(Put(store, new))
           /\ \A e \in Put(store, new) : e.ts \in -KeyRange .. KeyRange - 1
  <1>1. Put(store, new) \subseteq store \cup new
    BY DEF Put
  <1>2. IsFiniteSet(store \cup new)
    BY FS_Union
  <1>. QED
    BY <1>1, <1>2, FS_Subset

-----------------------------------------------------------------------------
(***************************************************************************)
(* Batches.                                                                *)
(***************************************************************************)
\* A sequence has no more elements than places.
LEMMA ElementCount ==
    ASSUME NEW S, NEW s \in Seq(S)
    PROVE  IsFiniteSet(ToSet(s)) /\ Cardinality(ToSet(s)) <= Len(s)
  <1>1. Len(s) \in Nat /\ s \in [1 .. Len(s) -> S]
    OBVIOUS
  <1>2. s \in Surjection(1 .. Len(s), ToSet(s))
    BY <1>1 DEF Surjection, ToSet
  <1>3. IsFiniteSet(1 .. Len(s)) /\ Cardinality(1 .. Len(s)) = Len(s)
    BY <1>1, FS_Interval
  <1>. QED
    BY <1>2, <1>3, FS_Surjection

\* A batch that may be written is a sequence of finitely many entries that fit the key,
\* and what a transaction keeps of it is among them.
LEMMA BatchFits ==
    ASSUME NEW o \in Operations, o.kind = "write"
    PROVE  /\ o.batch \in Seq(Writable)
           /\ ToSet(o.batch) \subseteq Writable
           /\ LastOfEachKey(o.batch) \subseteq ToSet(o.batch)
           /\ IsFiniteSet(LastOfEachKey(o.batch))
           /\ \A e \in LastOfEachKey(o.batch) : e.ts \in -KeyRange .. KeyRange - 1
  <1>. DEFINE b == o.batch
  <1>1. b \in Seq(ToSet(b)) /\ \A e \in ToSet(b) : e.ts \in -KeyRange .. KeyRange - 1
    BY OperationsFit
  <1>2. ToSet(b) \subseteq Writable
    BY DEF Writable
  <1>. HIDE DEF b
  <1>3. LastOfEachKey(b) \subseteq ToSet(b)
    BY DEF LastOfEachKey, ToSet
  <1>4. IsFiniteSet(ToSet(b))
    BY <1>1, ElementCount
  <1>5. IsFiniteSet(LastOfEachKey(b))
    BY <1>3, <1>4, FS_Subset
  <1>6. b \in Seq(Writable)
    BY <1>1, <1>2
  <1>. QED
    BY <1>1, <1>2, <1>3, <1>5, <1>6 DEF b

\* An entry of a batch is kept, unless another one of its key comes later.
LEMMA KeptOrReplaced ==
    ASSUME NEW S, NEW b \in Seq(S), NEW e \in ToSet(b), e \notin LastOfEachKey(b)
    PROVE  \E n \in ToSet(b) : n # e /\ SameKey(n, e)
  <1>1. Len(b) \in Nat /\ DOMAIN b = 1 .. Len(b)
    OBVIOUS
  <1>. DEFINE After == {k \in Nat : \E i \in DOMAIN b : b[i] = e /\ k = Len(b) - i}
  <1>2. After # {}
    <2>1. PICK i \in DOMAIN b : b[i] = e
      BY DEF ToSet
    <2>2. Len(b) - i \in Nat
      BY <1>1, <2>1
    <2>. QED
      BY <2>1, <2>2
  <1>3. PICK x \in After : \A y \in After : ~ (<<y, x>> \in OpToRel(<, Nat))
    <2>. HIDE DEF After
    <2>1. After \subseteq Nat
      BY DEF After
    <2>. QED
      BY <1>2, <2>1, WFMin, NatLessThanWellFounded
  <1>4. PICK i \in DOMAIN b : b[i] = e /\ x = Len(b) - i
    OBVIOUS
  <1>5. \A j \in DOMAIN b : i < j => b[j] # e
    <2>. SUFFICES ASSUME NEW j \in DOMAIN b, i < j, b[j] = e PROVE FALSE
      OBVIOUS
    <2>1. Len(b) - j \in Nat /\ Len(b) - j < x /\ x \in Nat
      BY <1>1, <1>4
    <2>2. Len(b) - j \in After
      BY <2>1
    <2>3. <<Len(b) - j, x>> \in OpToRel(<, Nat)
      BY <2>1 DEF OpToRel
    <2>. QED
      BY <1>3, <2>2, <2>3
  <1>6. PICK k \in DOMAIN b : i < k /\ SameKey(b[i], b[k])
    BY <1>4 DEF LastOfEachKey
  <1>7. SameKey(b[k], e)
    BY <1>4, <1>6 DEF SameKey
  <1>8. b[k] \in ToSet(b)
    BY DEF ToSet
  <1>. QED
    BY <1>5, <1>6, <1>7, <1>8

-----------------------------------------------------------------------------
(***************************************************************************)
(* Init and Next.                                                          *)
(***************************************************************************)
LEMMA InitInv == BadgerInit => BadgerIInv
  BY FS_EmptySet DEF BadgerInit, CallsInit, BadgerIInv, Shapes, Fitting, Progress, Views

\* Calls that work only on their own row of the tables.
LEMMA CallInv ==
    ASSUME BadgerIInv, NEW c \in Calls, NEW o \in Operations,
           BadgerCall(c, o) \/ CallExpired(c, o)
    PROVE  BadgerIInv'
  <1>. USE DEF BadgerIInv, Shapes, BadgerCall, CallExpired, Call, Reply, Work, Remember, txns
  <1>1. job[c] = "none" /\ caller[c] = "new"
    BY DEF Progress
  <1>2. Shapes'
    OBVIOUS
  <1>3. Fitting'
    BY DEF Fitting
  <1>4. Progress'
    BY <1>1 DEF Progress
  <1>5. Views'
    BY <1>1 DEF Views
  <1>. QED
    BY <1>2, <1>3, <1>4, <1>5

\* A caller's answer leaves its transaction as it is.
LEMMA ReplyInv ==
    ASSUME BadgerIInv, NEW c \in Calls, BadgerReturn(c) \/ Cancelled(c)
    PROVE  BadgerIInv'
  <1>. USE DEF BadgerIInv, Shapes, BadgerReturn, Return, Cancelled, Reply, txns, past
  <1>1. Shapes'
    OBVIOUS
  <1>2. Fitting'
    BY DEF Fitting
  <1>3. Progress'
    BY DEF Progress
  <1>4. Views'
    BY DEF Views
  <1>. QED
    BY <1>1, <1>2, <1>3, <1>4

\* A query or a count is answered by its view, and changes nothing.
LEMMA ReadInv ==
    ASSUME BadgerIInv, NEW c \in Calls, ReadView(c)
    PROVE  BadgerIInv'
  <1>. USE DEF BadgerIInv, Shapes, ReadView, Work, txns, past
  <1>1. Shapes'
    OBVIOUS
  <1>2. Fitting'
    BY DEF Fitting
  <1>3. answer'[c] # NoAnswer
    BY DEF Found, Stats, Counted, NoAnswer
  <1>4. Progress'
    BY <1>3 DEF Progress
  <1>5. Views'
    BY DEF Views
  <1>. QED
    BY <1>1, <1>2, <1>4, <1>5

\* The view of a deletion holds all that is there when it begins.
LEMMA BeginInv ==
    ASSUME BadgerIInv, NEW c \in Calls, BeginDelete(c)
    PROVE  BadgerIInv'
  <1>. USE DEF BadgerIInv, Shapes, BeginDelete, Work, past
  <1>1. Shapes'
    OBVIOUS
  <1>2. Fitting'
    BY DEF Fitting
  <1>3. Progress'
    BY DEF Progress
  <1>4. Views'
    BY DEF Views
  <1>. QED
    BY <1>1, <1>2, <1>3, <1>4

\* A transaction that fails changes nothing.
LEMMA FailInv ==
    ASSUME BadgerIInv, NEW c \in Calls, Abort(c) \/ DeleteConflicts(c)
    PROVE  BadgerIInv'
  <1>. USE DEF BadgerIInv, Shapes, Abort, DeleteConflicts, Discard, Work, past, Unfinished
  <1>1. Shapes'
    OBVIOUS
  <1>2. Fitting'
    BY DEF Fitting
  <1>3. Progress'
    BY DEF Progress
  <1>4. Views'
    BY DEF Views
  <1>. QED
    BY <1>1, <1>2, <1>3, <1>4

\* A commit leaves contents that fit, and every other call forgets what it removed.
LEMMA CommitInv ==
    ASSUME BadgerIInv, NEW c \in Calls, NEW keys, NEW contents,
           job[c] \in {"running", "open"}, IsUpdate(op[c]), Commit(c, keys, contents),
           IsFiniteSet(contents),
           \A e \in contents : e.ts \in -KeyRange .. KeyRange - 1
    PROVE  BadgerIInv'
  <1>. USE DEF BadgerIInv, Shapes, Commit, Work, Keep
  <1>1. Shapes'
    OBVIOUS
  <1>2. Fitting'
    BY DEF Fitting
  <1>3. Progress'
    BY DEF Progress
  <1>4. Views'
    BY DEF Views
  <1>. QED
    BY <1>1, <1>2, <1>3, <1>4

\* A crash leaves the database and ends all work.
LEMMA CrashInv ==
    ASSUME BadgerIInv, BadgerCrash
    PROVE  BadgerIInv'
  <1>. USE DEF BadgerIInv, Shapes, BadgerCrash, CallsLost, Unfinished
  <1>1. Shapes'
    OBVIOUS
  <1>2. Fitting'
    BY DEF Fitting
  <1>3. Progress'
    BY DEF Progress
  <1>4. Views'
    BY DEF Views
  <1>. QED
    BY <1>1, <1>2, <1>3, <1>4

\* What a write and a deletion leave is finite and fits the keys.
LEMMA WriteFits ==
    ASSUME BadgerIInv, NEW c \in Calls, job[c] = "running", op[c].kind = "write"
    PROVE  LET new == LastOfEachKey(op[c].batch)
           IN  /\ IsFiniteSet(Put(db, new))
               /\ \A e \in Put(db, new) : e.ts \in -KeyRange .. KeyRange - 1
  <1>1. op[c] \in Operations
    BY DEF BadgerIInv, Progress
  <1>. QED
    BY <1>1, BatchFits, PutFits DEF BadgerIInv, Fitting

\* What a deletion leaves was there before.
LEMMA DeleteFits ==
    ASSUME BadgerIInv, NEW keys
    PROVE  /\ IsFiniteSet({e \in db : makeKey(e) \notin keys})
           /\ \A e \in {f \in db : makeKey(f) \notin keys} :
                e.ts \in -KeyRange .. KeyRange - 1
  BY FS_Subset DEF BadgerIInv, Fitting

\* Each action keeps the invariant.
LEMMA StepInv == BadgerIInv /\ [BadgerNext]_badgerVars => BadgerIInv'
  <1>1. ASSUME BadgerIInv, NEW c \in Calls, BadgerStep(c)
        PROVE  BadgerIInv'
    <2>1. CASE BadgerReturn(c) \/ Cancelled(c)
      BY <1>1, <2>1, ReplyInv
    <2>2. CASE ReadView(c)
      BY <1>1, <2>2, ReadInv
    <2>3. CASE BeginDelete(c)
      BY <1>1, <2>3, BeginInv
    <2>4. CASE Abort(c) \/ DeleteConflicts(c)
      BY <1>1, <2>4, FailInv
    <2>5. CASE CommitWrite(c)
      BY <1>1, <2>5, WriteFits, CommitInv DEF CommitWrite, IsUpdate
    <2>6. CASE CommitDelete(c)
      BY <1>1, <2>6, DeleteFits, CommitInv DEF CommitDelete, IsUpdate
    <2>. QED
      BY <1>1, <2>1, <2>2, <2>3, <2>4, <2>5, <2>6 DEF BadgerStep
  <1>2. ASSUME BadgerIInv, UNCHANGED badgerVars
        PROVE  BadgerIInv'
    BY <1>2 DEF BadgerIInv, Shapes, Fitting, Progress, Views, badgerVars, calls, past, txns
  <1>. QED
    BY <1>1, <1>2, CallInv, CrashInv DEF BadgerNext

\* In every reachable state the contents are finite and fit the keys, an answered call has
\* its answer, and no deletion misses an entry that was there at its call.
THEOREM BadgerInvariant == BadgerSpec => []BadgerIInv
  BY InitInv, StepInv, PTL DEF BadgerSpec

-----------------------------------------------------------------------------
(***************************************************************************)
(* Every step is a step of the promise, or none.                           *)
(***************************************************************************)
InFlight == {c \in Calls : Unfinished(c)}
Applied  == {c \in Calls : job[c] = "done" /\ IsUpdate(op[c])}

\* The promise is stated with the same operations.
LEMMA SameOperations ==
    /\ Promise!NoOp = NoOp /\ Promise!NoAnswer = NoAnswer
    /\ \A store, new : Promise!Put(store, new) = Put(store, new)
    /\ \A slice : Promise!LastOfEachKey(slice) = LastOfEachKey(slice)
    /\ \A slice : Promise!ToSet(slice) = ToSet(slice)
    /\ \A o, e : Promise!Matches(o, e) = Matches(o, e)
    /\ \A o, store : Promise!Selected(o, store) = Selected(o, store)
    /\ \A set : Promise!Cardinality(set) = Cardinality(set)
    /\ \A set : Promise!Min(set) = Min(set)
    /\ \A n, store, times :
            Promise!Counted(n, store, times) = Counted(n, store, times)
  <1>1. Promise!NoOp = NoOp /\ Promise!NoAnswer = NoAnswer
    BY DEF NoOp, NoAnswer, Promise!NoOp, Promise!NoAnswer
  <1>2. \A store, new : Promise!Put(store, new) = Put(store, new)
    BY DEF Put, SameKey, ResolutionRaw, Promise!Put, Promise!SameKey,
           Promise!ResolutionRaw
  <1>3. \A o, e : Promise!Matches(o, e) = Matches(o, e)
    BY DEF Matches, AnyResolution, Promise!Matches, Promise!AnyResolution
  <1>4. \A o, store : Promise!Selected(o, store) = Selected(o, store)
    BY DEF Selected, InRange, Promise!Selected, Promise!InRange
  <1>5. \A set : Promise!Cardinality(set) = Cardinality(set)
    BY DEF Cardinality, Promise!Cardinality
  <1>6. \A set : Promise!Min(set) = Min(set) /\ Promise!Max(set) = Max(set)
    BY DEF Min, Max, Promise!Min, Promise!Max
  <1>7. \A e : Promise!SeriesHash(e) = SeriesHash(e)
    BY DEF SeriesHash, ResolutionRaw, Promise!SeriesHash, Promise!ResolutionRaw
  <1>8. \A n, store, times :
            Promise!Counted(n, store, times) = Counted(n, store, times)
    BY <1>5, <1>6, <1>7 DEF Counted, Extremes, Promise!Counted, Promise!Extremes
  <1>9. \A slice : Promise!LastOfEachKey(slice) = LastOfEachKey(slice)
    BY DEF LastOfEachKey, SameKey, ResolutionRaw, Promise!LastOfEachKey, Promise!SameKey,
           Promise!ResolutionRaw
  <1>10. \A slice : Promise!ToSet(slice) = ToSet(slice)
    BY DEF ToSet, Promise!ToSet
  <1>. QED
    BY <1>1, <1>2, <1>3, <1>4, <1>5, <1>6, <1>8, <1>9, <1>10

\* A call is the call of the promise.
LEMMA CallRefines ==
    ASSUME BadgerIInv, NEW c \in Calls, NEW o \in Operations, BadgerCall(c, o)
    PROVE  Promise!Call(c, o)
  <1>. USE DEF BadgerIInv, Shapes, BadgerCall, Call, Reply, Work, Remember, Unfinished
  <1>1. job[c] = "none"
    BY DEF Progress
  <1>2. InFlight' = InFlight \cup {c}
    BY DEF InFlight
  <1>3. Applied' = Applied
    BY <1>1 DEF Applied
  <1>. QED
    BY <1>2, <1>3 DEF Promise!Call, Promise!Reply, InFlight, Applied

\* A call whose context had ended is refused.
LEMMA RefuseRefines ==
    ASSUME BadgerIInv, NEW c \in Calls, NEW o \in Operations, CallExpired(c, o)
    PROVE  Promise!Refuse(c, o)
  <1>. USE DEF BadgerIInv, Shapes, CallExpired, Reply, Work, Remember, Unfinished
  <1>1. job[c] = "none"
    BY DEF Progress
  <1>2. InFlight' = InFlight
    BY <1>1 DEF InFlight
  <1>3. Applied' = Applied
    BY <1>1 DEF Applied
  <1>. QED
    BY <1>2, <1>3 DEF Promise!Refuse, Promise!Reply, InFlight, Applied

\* The result of the transaction is the answer of the call.
LEMMA ReturnRefines ==
    ASSUME BadgerIInv, NEW c \in Calls, BadgerReturn(c)
    PROVE  Promise!Succeed(c) \/ Promise!Fail(c)
  <1>. USE DEF BadgerIInv, Shapes, BadgerReturn, Return, Reply
  <1>1. InFlight' = InFlight
    BY DEF InFlight, Unfinished
  <1>2. Applied' = Applied
    BY DEF Applied
  <1>3. CASE job[c] = "done"
    <2>1. c \in Applied \/ answer[c] # NoAnswer
      BY <1>3 DEF Progress, Applied
    <2>. QED
      BY <1>1, <1>2, <1>3, <2>1, SameOperations DEF Promise!Succeed, Promise!Reply, InFlight, Applied, past
  <1>4. CASE job[c] # "done"
    BY <1>1, <1>2, <1>4 DEF Promise!Fail, Promise!Reply, InFlight, Applied, past
  <1>. QED
    BY <1>3, <1>4

\* A caller that gave up is told of a failure; the work goes on unseen.
LEMMA CancelledRefines ==
    ASSUME BadgerIInv, NEW c \in Calls, Cancelled(c)
    PROVE  Promise!Fail(c)
  <1>. USE DEF BadgerIInv, Shapes, Cancelled, Reply
  <1>1. InFlight' = InFlight
    BY DEF InFlight, Unfinished
  <1>2. Applied' = Applied
    BY DEF Applied
  <1>. QED
    BY <1>1, <1>2 DEF Promise!Fail, Promise!Reply, InFlight, Applied, past

\* A query, limited or not, and a count are answered from the database.
LEMMA ScanLists ==
    ASSUME BadgerIInv, NEW c \in Calls, op[c] \in Operations, op[c].kind = "query",
           NEW found \in Scans(op[c], db)
    PROVE  Promise!Lists(op[c], Found(found))
  <1>. DEFINE all == Selected(op[c], db)
  <1>1. all \subseteq db
    BY DEF Selected, InRange
  <1>2. IsFiniteSet(all)
    BY <1>1, FS_Subset DEF BadgerIInv, Fitting
  <1>3. Cardinality(all) \in Nat
    BY <1>2, FS_CardinalityType
  <1>4. op[c].limit \in Nat
    BY OperationsFit
  <1>5. found \subseteq all /\ (found = all \/ Cardinality(found) = op[c].limit)
    BY DEF Scans
  <1>6. op[c].limit = 0 \/ Cardinality(all) <= op[c].limit => found = all
    BY DEF Scans
  <1>7. ASSUME NEW m \in Nat, NEW n \in Nat
        PROVE  Min({m, n}) = IF m <= n THEN m ELSE n
    BY <1>7 DEF Min
  <1>8. op[c].limit # 0 => Cardinality(found) = Min({op[c].limit, Cardinality(all)})
    <2>1. CASE Cardinality(all) <= op[c].limit
      BY <1>3, <1>4, <1>6, <1>7, <2>1
    <2>2. CASE ~ (Cardinality(all) <= op[c].limit)
      <3>1. op[c].limit # 0 => Cardinality(found) = op[c].limit
        BY <2>2 DEF Scans
      <3>. QED
        BY <1>3, <1>4, <1>7, <2>2, <3>1
    <2>. QED
      BY <2>1, <2>2
  <1>9. op[c].limit # 0 => Cardinality(found) <= op[c].limit
    BY <1>3, <1>4, <1>7, <1>8
  <1>. QED
    BY <1>5, <1>6, <1>8, <1>9, SameOperations DEF Promise!Lists, Found

\* Times in Stats are those of the entries, because they fit the key.
LEMMA StatsCount ==
    ASSUME BadgerIInv
    PROVE  Promise!Counts(Stats(db))
  <1>1. \A e \in db : KeyTime(e.ts) = e.ts
    BY KeyTimeExact DEF BadgerIInv, Fitting
  <1>2. {KeyTime(e.ts) : e \in db} = {e.ts : e \in db}
    BY <1>1
  <1>3. Cardinality(db) \in Nat
    BY FS_CardinalityType DEF BadgerIInv, Fitting
  <1>4. Stats(db) = Counted(Cardinality(db), db, {e.ts : e \in db})
    BY <1>2 DEF Stats
  <1>5. Stats(db).total = Cardinality(db) /\ Stats(db).kind = "stats"
    BY DEF Stats, Counted
  <1>. QED
    BY <1>3, <1>4, <1>5, SameOperations DEF Promise!Counts

\* A view is read at one moment, as the promise reads its contents.
LEMMA ReadRefines ==
    ASSUME BadgerIInv, NEW c \in Calls, ReadView(c)
    PROVE  Promise!Read(c)
  <1>. USE DEF BadgerIInv, Shapes, ReadView, Work, Unfinished
  <1>1. op[c] \in Operations /\ ~ IsUpdate(op[c])
    BY DEF Progress, IsUpdate
  <1>2. c \in InFlight /\ InFlight' = InFlight \ {c}
    BY DEF InFlight
  <1>3. Applied' = Applied
    BY <1>1 DEF Applied
  <1>4. answer' = [answer EXCEPT ![c] = answer'[c]]
    OBVIOUS
  <1>5. \/ op[c].kind = "query" /\ Promise!Lists(op[c], answer'[c])
        \/ op[c].kind = "stats" /\ Promise!Counts(answer'[c])
    <2>1. CASE op[c].kind = "query"
      <3>1. PICK found \in Scans(op[c], db) : answer'[c] = Found(found)
        BY <2>1
      <3>. QED
        BY <1>1, <2>1, <3>1, ScanLists
    <2>2. CASE op[c].kind = "stats"
      <3>1. answer'[c] = Stats(db)
        BY <2>2
      <3>. QED
        BY <2>2, <3>1, StatsCount
    <2>. QED
      BY <2>1, <2>2
  <1>. QED
    BY <1>2, <1>3, <1>4, <1>5 DEF Promise!Read, InFlight, Applied, past, txns

\* The beginning of a deletion is not visible.
LEMMA BeginRefines ==
    ASSUME BadgerIInv, NEW c \in Calls, BeginDelete(c)
    PROVE  UNCHANGED Promise!vars
  <1>. USE DEF BadgerIInv, Shapes, BeginDelete, Work, past
  <1>1. InFlight' = InFlight
    BY DEF InFlight, Unfinished
  <1>2. Applied' = Applied
    BY DEF Applied
  <1>. QED
    BY <1>1, <1>2 DEF Promise!vars, InFlight, Applied

\* A transaction that failed or conflicts gives its call up.
LEMMA FailRefines ==
    ASSUME BadgerIInv, NEW c \in Calls, Abort(c) \/ DeleteConflicts(c)
    PROVE  Promise!GiveUp(c)
  <1>. USE DEF BadgerIInv, Shapes, Abort, DeleteConflicts, Work, past, Unfinished
  <1>1. c \in InFlight /\ InFlight' = InFlight \ {c}
    BY DEF InFlight
  <1>2. Applied' = Applied
    BY DEF Applied
  <1>. QED
    BY <1>1, <1>2 DEF Promise!GiveUp, InFlight, Applied

\* A commit is the moment a write or a deletion takes effect.
LEMMA CommitRefines ==
    ASSUME BadgerIInv, NEW c \in Calls, NEW keys, NEW contents,
           job[c] \in {"running", "open"}, Commit(c, keys, contents),
           \/ op[c].kind = "write" /\ contents = Put(db, LastOfEachKey(op[c].batch))
           \/ op[c].kind = "delete" /\ Promise!Deleted(c, contents)
    PROVE  Promise!TakeEffect(c)
  <1>. USE DEF BadgerIInv, Shapes, Commit, Work, Keep, Unfinished
  <1>1. c \in InFlight /\ InFlight' = InFlight \ {c}
    BY DEF InFlight
  <1>2. Applied' = Applied \cup {c}
    BY DEF Applied, IsUpdate
  <1>3. \/ op[c].kind = "write" /\ db' = Promise!Written(op[c])
        \/ op[c].kind = "delete" /\ Promise!Deleted(c, db')
    BY SameOperations DEF Promise!Written
  <1>. QED
    BY <1>1, <1>2, <1>3 DEF Promise!TakeEffect, InFlight, Applied

\* A deletion removes what it matched in its view, and whatever came to have one
\* of those keys since; both match.
LEMMA DeleteDeletes ==
    ASSUME BadgerIInv, NEW c \in Calls, job[c] = "open", op[c].kind = "delete"
    PROVE  LET keys == Keys(MarkedForDeletion(op[c], view[c]))
           IN  Promise!Deleted(c, {e \in db : makeKey(e) \notin keys})
  <1>. DEFINE marked == MarkedForDeletion(op[c], view[c])
              kept   == {e \in db : makeKey(e) \notin Keys(marked)}
  <1>. USE DEF BadgerIInv
  <1>1. \A e \in view[c] : KeyTime(e.ts) = e.ts
    BY KeyTimeExact DEF Fitting
  <1>2. marked = {e \in view[c] : Matches(op[c], e)}
    BY <1>1 DEF MarkedForDeletion, Matches
  <1>3. ASSUME NEW e \in db \ kept
        PROVE  Matches(op[c], e)
    <2>1. PICK f \in marked : makeKey(e) = makeKey(f)
      BY <1>3 DEF Keys
    <2>2. e.ts \in -KeyRange .. KeyRange - 1 /\ f.ts \in -KeyRange .. KeyRange - 1
      BY <1>2, <1>3, <2>1 DEF Fitting
    <2>3. e.ts = f.ts /\ e.res = f.res
      BY <2>1, <2>2, KeyDetermines
    <2>. QED
      BY <1>2, <2>1, <2>3 DEF Matches
  <1>4. ASSUME NEW e \in present[c] \cap kept
        PROVE  ~ Matches(op[c], e)
    <2>1. e \in view[c]
      BY <1>4 DEF Views
    <2>. QED
      BY <1>2, <1>4, <2>1 DEF Keys
  <1>. HIDE DEF marked
  <1>. QED
    BY <1>3, <1>4, SameOperations DEF Promise!Deleted, marked

\* A crash keeps what was committed and gives up all work in flight.
LEMMA CrashRefines ==
    ASSUME BadgerIInv, BadgerCrash
    PROVE  Promise!Restart
  <1>. USE DEF BadgerIInv, Shapes, BadgerCrash, CallsLost, Unfinished
  <1>1. InFlight' = {}
    BY DEF InFlight
  <1>2. Applied' = Applied
    BY DEF Applied
  <1>3. present = [c \in Calls |-> present[c] \cap db]
    BY DEF Views
  <1>. QED
    BY <1>1, <1>2, <1>3 DEF Promise!Restart, InFlight, Applied

\* The store starts empty in both.
LEMMA InitRefines == BadgerInit => Promise!Init
  BY SameOperations DEF BadgerInit, CallsInit, Promise!Init, Unfinished

\* Each action is an action of the promise or changes nothing it can see.
LEMMA StepRefines ==
    BadgerIInv /\ [BadgerNext]_badgerVars => [Promise!Next]_(Promise!vars)
  <1>1. ASSUME BadgerIInv, NEW c \in Calls, BadgerStep(c)
        PROVE  [Promise!Next]_(Promise!vars)
    <2>1. CASE BadgerReturn(c)
      BY <1>1, <2>1, ReturnRefines DEF Promise!Next
    <2>2. CASE Cancelled(c)
      BY <1>1, <2>2, CancelledRefines DEF Promise!Next
    <2>3. CASE ReadView(c)
      BY <1>1, <2>3, ReadRefines DEF Promise!Next
    <2>4. CASE BeginDelete(c)
      BY <1>1, <2>4, BeginRefines
    <2>5. CASE Abort(c) \/ DeleteConflicts(c)
      BY <1>1, <2>5, FailRefines DEF Promise!Next
    <2>6. CASE CommitWrite(c)
      BY <1>1, <2>6, CommitRefines DEF CommitWrite, Promise!Next
    <2>7. CASE CommitDelete(c)
      BY <1>1, <2>7, CommitRefines, DeleteDeletes DEF CommitDelete, Promise!Next
    <2>. QED
      BY <1>1, <2>1, <2>2, <2>3, <2>4, <2>5, <2>6, <2>7 DEF BadgerStep
  <1>2. ASSUME BadgerIInv, NEW c \in Calls, NEW o \in Operations,
               BadgerCall(c, o) \/ CallExpired(c, o)
        PROVE  Promise!Next
    BY <1>2, CallRefines, RefuseRefines DEF Promise!Next
  <1>3. ASSUME UNCHANGED badgerVars
        PROVE  UNCHANGED Promise!vars
    BY <1>3 DEF badgerVars, calls, past, txns, Promise!vars, Unfinished
  <1>. QED
    BY <1>1, <1>2, <1>3, CrashRefines DEF BadgerNext, Promise!Next

\* The Badger store implements what storage.Storage promises.
THEOREM BadgerKeepsPromise == BadgerSpec => Promise!Spec
  BY InitRefines, StepRefines, BadgerInvariant, PTL DEF BadgerSpec, Promise!Spec

-----------------------------------------------------------------------------
(***************************************************************************)
(* Slices.                                                                 *)
(***************************************************************************)
\* Appending adds one element.
LEMMA AppendElements ==
    ASSUME NEW S, NEW s \in Seq(S), NEW e \in S
    PROVE  ToSet(Append(s, e)) = ToSet(s) \cup {e}
  <1>. DEFINE t == Append(s, e)
  <1>1. Len(s) \in Nat /\ DOMAIN s = 1 .. Len(s) /\ DOMAIN t = 1 .. Len(s) + 1
    OBVIOUS
  <1>2. t[Len(s) + 1] = e /\ \A i \in 1 .. Len(s) : t[i] = s[i]
    OBVIOUS
  <1>. HIDE DEF t
  <1>. QED
    BY <1>1, <1>2 DEF ToSet

\* Concatenation joins the elements.
LEMMA ConcatElements ==
    ASSUME NEW S, NEW s \in Seq(S), NEW t \in Seq(S)
    PROVE  ToSet(s \o t) = ToSet(s) \cup ToSet(t)
  <1>. DEFINE u == s \o t
  <1>1. /\ Len(s) \in Nat /\ Len(t) \in Nat
        /\ DOMAIN s = 1 .. Len(s) /\ DOMAIN t = 1 .. Len(t) /\ DOMAIN u = 1 .. Len(s) + Len(t)
    OBVIOUS
  <1>2. \A i \in 1 .. Len(s) : u[i] = s[i]
    OBVIOUS
  <1>3. \A i \in 1 .. Len(t) : u[Len(s) + i] = t[i]
    OBVIOUS
  <1>4. \A i \in 1 .. Len(s) + Len(t) : i > Len(s) => u[i] = t[i - Len(s)]
    OBVIOUS
  <1>. HIDE DEF u
  <1>5. \A i \in DOMAIN u : u[i] \in ToSet(s) \cup ToSet(t)
    BY <1>1, <1>2, <1>4 DEF ToSet
  <1>6. \A i \in DOMAIN s : s[i] \in ToSet(u)
    BY <1>1, <1>2 DEF ToSet
  <1>7. \A i \in DOMAIN t : t[i] \in ToSet(u)
    <2>. TAKE i \in DOMAIN t
    <2>1. Len(s) + i \in DOMAIN u
      BY <1>1
    <2>. QED
      BY <1>1, <1>3, <2>1 DEF ToSet
  <1>8. ToSet(u) \subseteq ToSet(s) \cup ToSet(t)
    BY <1>5 DEF ToSet
  <1>9. ToSet(s) \subseteq ToSet(u) /\ ToSet(t) \subseteq ToSet(u)
    BY <1>6, <1>7 DEF ToSet
  <1>. QED
    BY <1>8, <1>9 DEF u

\* The slice the loop of Among builds, entry by entry: the function exists.
LEMMA AmongLoop ==
    ASSUME NEW S, NEW slice \in Seq(S), NEW set
    PROVE  \E kept :
             /\ kept[0] = << >>
             /\ \A n \in 1 .. Len(slice) : kept[n] =
                    IF slice[n] \in set THEN Append(kept[n - 1], slice[n]) ELSE kept[n - 1]
             /\ Among(slice, set) = kept[Len(slice)]
  <1>. DEFINE Longer(k, i) == IF slice[i] \in set THEN Append(k, slice[i]) ELSE k
              Kept(k, n) == k = [i \in 0 .. n |-> IF i = 0 THEN << >> ELSE Longer(k[i - 1], i)]
              Exists(n) == \E k : Kept(k, n)
              T == {n \in Nat : Exists(n)}
  <1>1. Exists(0)
    <2>1. Kept([i \in 0 .. 0 |-> << >>], 0)
      OBVIOUS
    <2>. QED
      BY <2>1
  <1>2. ASSUME NEW n \in Nat, Exists(n)
        PROVE  Exists(n + 1)
    <2>1. PICK k : Kept(k, n)
      BY <1>2
    <2>. DEFINE more == [i \in 0 .. n + 1 |-> IF i = n + 1 THEN Longer(k[n], n + 1) ELSE k[i]]
    <2>2. \A i \in 0 .. n : more[i] = k[i]
      OBVIOUS
    <2>3. more[n + 1] = Longer(more[n], n + 1)
      BY <2>2
    <2>4. \A i \in 0 .. n : k[i] = IF i = 0 THEN << >> ELSE Longer(k[i - 1], i)
      BY <2>1
    <2>. HIDE DEF Longer
    <2>5. ASSUME NEW i \in 0 .. n + 1
          PROVE  more[i] = IF i = 0 THEN << >> ELSE Longer(more[i - 1], i)
      <3>1. CASE i = n + 1
        BY <2>3, <3>1
      <3>2. CASE i \in 0 .. n
        <4>1. i # 0 => i - 1 \in 0 .. n
          BY <3>2
        <4>. QED
          BY <2>2, <2>4, <3>2, <4>1
      <3>. QED
        BY <3>1, <3>2
    <2>6. Kept(more, n + 1)
      BY <2>5
    <2>. HIDE DEF more, Kept
    <2>. QED
      BY <2>6
  <1>3. Exists(Len(slice))
    <2>. HIDE DEF Exists
    <2>1. 0 \in T
      BY <1>1
    <2>2. ASSUME NEW n \in Nat, n \in T
          PROVE  n + 1 \in T
      BY <1>2, <2>2
    <2>3. Nat \subseteq T
      <3>. HIDE DEF T
      <3>. QED
        BY <2>1, <2>2, SetInduction
    <2>. QED
      BY <2>3
  <1>. DEFINE kept == CHOOSE k : Kept(k, Len(slice))
  <1>4. Kept(kept, Len(slice))
    <2>. HIDE DEF Kept
    <2>. QED
      BY <1>3
  <1>5. Among(slice, set) = kept[Len(slice)]
    BY DEF Among
  <1>. HIDE DEF kept
  <1>6. /\ kept[0] = << >>
        /\ \A n \in 1 .. Len(slice) : kept[n] = Longer(kept[n - 1], n)
    <2>1. Len(slice) \in Nat
      OBVIOUS
    <2>2. \A i \in 0 .. Len(slice) : kept[i] = IF i = 0 THEN << >> ELSE Longer(kept[i - 1], i)
      BY <1>4
    <2>. HIDE DEF Longer
    <2>. QED
      BY <2>1, <2>2
  <1>. QED
    BY <1>5, <1>6

\* The elements of the result are those of the slice that are in the set, and it is no
\* longer than the slice.
LEMMA AmongElements ==
    ASSUME NEW S, NEW slice \in Seq(S), NEW set
    PROVE  /\ Among(slice, set) \in Seq(S)
           /\ Len(Among(slice, set)) <= Len(slice)
           /\ ToSet(Among(slice, set)) = ToSet(slice) \cap set
  <1>1. PICK kept :
             /\ kept[0] = << >>
             /\ \A n \in 1 .. Len(slice) : kept[n] =
                    IF slice[n] \in set THEN Append(kept[n - 1], slice[n]) ELSE kept[n - 1]
             /\ Among(slice, set) = kept[Len(slice)]
    BY AmongLoop
  <1>. DEFINE Good(n) == /\ kept[n] \in Seq(S) /\ Len(kept[n]) <= n
                         /\ ToSet(kept[n]) = {slice[j] : j \in 1 .. n} \cap set
              T == {n \in Nat : n <= Len(slice) => Good(n)}
  <1>2. Len(slice) \in Nat /\ \A n \in 1 .. Len(slice) : slice[n] \in S
    OBVIOUS
  <1>3. Good(0)
    BY <1>1 DEF ToSet
  <1>4. ASSUME NEW n \in Nat, Good(n), n + 1 <= Len(slice)
        PROVE  Good(n + 1)
    <2>1. kept[n + 1] = IF slice[n + 1] \in set THEN Append(kept[n], slice[n + 1]) ELSE kept[n]
      BY <1>1, <1>2, <1>4
    <2>2. slice[n + 1] \in S
      BY <1>2, <1>4
    <2>3. {slice[j] : j \in 1 .. n + 1} = {slice[j] : j \in 1 .. n} \cup {slice[n + 1]}
      OBVIOUS
    <2>4. ToSet(Append(kept[n], slice[n + 1])) = ToSet(kept[n]) \cup {slice[n + 1]}
      BY <1>4, <2>2, AppendElements
    <2>. QED
      BY <1>4, <2>1, <2>2, <2>3, <2>4
  <1>5. Good(Len(slice))
    <2>. HIDE DEF Good
    <2>1. 0 \in T
      BY <1>3
    <2>2. ASSUME NEW n \in Nat, n \in T
          PROVE  n + 1 \in T
      BY <1>2, <1>4, <2>2
    <2>3. Nat \subseteq T
      <3>. HIDE DEF T
      <3>. QED
        BY <2>1, <2>2, SetInduction
    <2>. QED
      BY <1>2, <2>3
  <1>6. ToSet(slice) = {slice[j] : j \in 1 .. Len(slice)}
    BY DEF ToSet
  <1>. QED
    BY <1>1, <1>5, <1>6
-----------------------------------------------------------------------------
(***************************************************************************)
(* The calls, whichever store serves them.  A call is made, answered, works *)
(* on the contents, or is lost in a restart: this is all that what follows *)
(* needs to know of a step of either store.                                *)
(***************************************************************************)
Asked(c, o) ==
    /\ caller[c] = "new"
    /\ op' = [op EXCEPT ![c] = o]
    /\ \E outcome \in {"waiting", "error"} : Reply(c, outcome)
    /\ \E state \in {"running", "failed"} : Work(c, state)
    /\ Remember(c, o, Contents)
    /\ Contents' = Contents
    /\ UNCHANGED <<answer, crashes, backend>>

Replied(c) ==
    /\ caller[c] = "waiting"
    /\ Reply(c, "error") \/ (job[c] = "done" /\ Reply(c, "ok"))
    /\ Contents' = Contents
    /\ UNCHANGED <<op, job, answer, crashes, past, backend>>

\* What disappears is what the operation may remove, and a write that is done has
\* put its entries there.
Worked(c) ==
    /\ Unfinished(c)
    /\ \E state \in {"open", "done", "failed"} : Work(c, state)
    /\ \E a : answer' = [answer EXCEPT ![c] = a]
    /\ job'[c] = "done" => IsUpdate(op[c]) \/ answer'[c] # NoAnswer
    /\ Contents' \subseteq Contents \cup (IF op[c].kind = "write" THEN ToSet(op[c].batch) ELSE {})
    /\ \A e \in Contents \ Contents' : Removes(op[c], e)
    /\ op[c].kind = "write" /\ job'[c] = "done" =>
            LastOfEachKey(op[c].batch) \subseteq Contents'
    /\ present' = [d \in Calls |-> present[d] \cap Contents']
    /\ UNCHANGED <<op, caller, over, crashes, backend>>

Lost ==
    /\ CallsLost
    /\ Contents' = IF backend = "badger" THEN Contents ELSE {}
    /\ present' = [d \in Calls |-> present[d] \cap Contents']
    /\ UNCHANGED backend

Idle == Contents' = Contents /\ UNCHANGED <<calls, past, crashes, backend>>

CallStep ==
    \/ \E c \in Calls : (\E o \in Operations : Asked(c, o)) \/ Replied(c) \/ Worked(c)
    \/ Lost \/ Idle

\* The types of what the calls share.
CallTypes ==
    /\ caller \in [Calls -> {"new", "waiting", "ok", "error"}]
    /\ job \in [Calls -> {"none", "running", "open", "done", "failed"}]
    /\ op \in [Calls -> Operations \cup {NoOp}]
    /\ answer = [c \in Calls |-> answer[c]]
    /\ present \in [Calls -> SUBSET Contents]
    /\ over \in [Calls -> SUBSET Calls]
    /\ crashes \in 0 .. MaxCrashes
    /\ Contents \subseteq Writable
    /\ backend \in {"badger", "memory"}

\* How far a call is: success is reported of finished work only, and what was over
\* at the call of a write stays over.
Outcomes ==
    /\ \A c \in Calls : caller[c] = "new" => job[c] = "none" /\ op[c] = NoOp
    /\ \A c \in Calls : caller[c] # "new" => job[c] # "none" /\ op[c] \in Operations
    /\ \A c \in Calls : job[c] = "done" => IsUpdate(op[c]) \/ answer[c] # NoAnswer
    /\ \A c \in Calls : caller[c] = "ok" => job[c] = "done"
    /\ \A c \in Calls : \A d \in over[c] : job[d] \in {"done", "failed"}

\* AcknowledgedStays, of a write that is done, from the moment it is.
DoneStays ==
    \A c \in Calls : job[c] = "done" /\ op[c].kind = "write" =>
        \A e \in LastOfEachKey(op[c].batch) :
            \/ e \in Contents
            \/ Disturbed(c, e)
            \/ backend = "memory" /\ crashes > 0

CallsInvariant == CallTypes /\ Outcomes /\ DoneStays

\* What a call does to the record of the others.
LEMMA AskedInv ==
    ASSUME CallsInvariant, NEW c \in Calls, NEW o \in Operations, Asked(c, o)
    PROVE  CallsInvariant'
  <1>. USE DEF CallsInvariant, CallTypes
  <1>1. job[c] = "none" /\ op[c] = NoOp
    BY DEF Asked, Outcomes
  <1>2. PICK outcome \in {"waiting", "error"}, state \in {"running", "failed"} :
            /\ caller' = [caller EXCEPT ![c] = outcome]
            /\ job' = [job EXCEPT ![c] = state]
            /\ op' = [op EXCEPT ![c] = o]
    BY DEF Asked, Reply, Work
  <1>3. /\ Contents' = Contents
        /\ UNCHANGED <<answer, crashes, backend>>
    BY DEF Asked
  <1>4. /\ present' \in [Calls -> SUBSET Contents]
        /\ over' \in [Calls -> SUBSET Calls]
        /\ \A d \in Calls \ {c} : over'[d] = over[d]
        /\ \A d \in over'[c] : d # c /\ IsUpdate(op[d]) /\ ~ Unfinished(d)
    BY DEF Asked, Remember
  <1>5. CallTypes'
    BY <1>2, <1>3, <1>4
  <1>6. Outcomes'
    <2>1. ASSUME NEW d \in over'[c]
          PROVE  job'[d] \in {"done", "failed"}
      <3>1. d \in Calls /\ d # c /\ op[d] # NoOp /\ ~ Unfinished(d)
        BY <1>4, <2>1 DEF NoOp, IsUpdate
      <3>2. job[d] \in {"done", "failed"}
        BY <3>1 DEF Outcomes, Unfinished
      <3>. QED
        BY <1>2, <3>1, <3>2
    <2>2. ASSUME NEW b \in Calls \ {c}, NEW d \in over'[b]
          PROVE  job'[d] \in {"done", "failed"}
      <3>1. d \in Calls /\ job[d] \in {"done", "failed"}
        BY <1>4, <2>2 DEF Outcomes
      <3>. QED
        BY <1>1, <1>2, <3>1
    <2>. QED
      BY <1>1, <1>2, <1>3, <2>1, <2>2 DEF Outcomes
  <1>7. DoneStays'
    <2>. SUFFICES ASSUME NEW b \in Calls, job'[b] = "done", op'[b].kind = "write",
                         NEW e \in LastOfEachKey(op'[b].batch), e \notin Contents',
                         ~ (backend = "memory" /\ crashes > 0)'
                  PROVE  Disturbed(b, e)'
      BY DEF DoneStays
    <2>1. b # c /\ job[b] = "done" /\ op'[b] = op[b] /\ over'[b] = over[b]
      BY <1>2, <1>4
    <2>2. Disturbed(b, e)
      BY <1>3, <2>1 DEF DoneStays
    <2>3. PICK d \in Calls \ (over[b] \cup {b}) : Removes(op[d], e)
      BY <2>2 DEF Disturbed
    <2>4. d # c
      BY <1>1, <2>3 DEF Removes, NoOp
    <2>. QED
      BY <1>2, <2>1, <2>3, <2>4 DEF Disturbed
  <1>. QED
    BY <1>5, <1>6, <1>7

\* The answer of a call changes nothing else.
LEMMA RepliedInv ==
    ASSUME CallsInvariant, NEW c \in Calls, Replied(c)
    PROVE  CallsInvariant'
  <1>. USE DEF CallsInvariant, CallTypes, Replied, Reply, past
  <1>1. CallTypes'
    OBVIOUS
  <1>2. Outcomes'
    BY DEF Outcomes
  <1>3. DoneStays'
    BY DEF DoneStays, Disturbed
  <1>. QED
    BY <1>1, <1>2, <1>3

\* The work of a call removes nothing of a finished write without being counted
\* among what may disturb it.
LEMMA WorkedInv ==
    ASSUME CallsInvariant, NEW c \in Calls, Worked(c)
    PROVE  CallsInvariant'
  <1>. USE DEF CallsInvariant
  <1>1. PICK state \in {"open", "done", "failed"} : job' = [job EXCEPT ![c] = state]
    BY DEF Worked, Work
  <1>2. PICK a : answer' = [answer EXCEPT ![c] = a]
    BY DEF Worked
  <1>3. /\ UNCHANGED <<op, caller, over, crashes, backend>>
        /\ job[c] \in {"running", "open"}
        /\ job'[c] = "done" => IsUpdate(op[c]) \/ answer'[c] # NoAnswer
        /\ present' = [d \in Calls |-> present[d] \cap Contents']
    BY DEF Worked, Unfinished
  <1>4. CallTypes'
    <2>1. op[c] \in Operations
      BY <1>3 DEF CallTypes, Outcomes
    <2>2. op[c].kind = "write" => ToSet(op[c].batch) \subseteq Writable
      BY <2>1, BatchFits
    <2>3. Contents' \subseteq Writable
      BY <2>2 DEF Worked, CallTypes
    <2>. QED
      BY <1>1, <1>2, <1>3, <2>3 DEF CallTypes
  <1>5. Outcomes'
    BY <1>1, <1>2, <1>3 DEF Outcomes, CallTypes
  <1>6. DoneStays'
    <2>. SUFFICES ASSUME NEW b \in Calls, job'[b] = "done", op[b].kind = "write",
                         NEW e \in LastOfEachKey(op[b].batch), e \notin Contents',
                         ~ (backend = "memory" /\ crashes > 0)
                  PROVE  Disturbed(b, e)
      BY <1>3 DEF DoneStays, Disturbed
    <2>1. b # c
      BY DEF Worked
    <2>2. job[b] = "done"
      BY <1>1, <2>1 DEF CallTypes
    <2>3. CASE e \in Contents
      <3>1. Removes(op[c], e)
        BY <2>3 DEF Worked
      <3>2. c \notin over[b]
        BY <1>3 DEF Outcomes
      <3>. QED
        BY <2>1, <3>1, <3>2 DEF Disturbed
    <2>4. CASE e \notin Contents
      BY <2>2, <2>4 DEF DoneStays
    <2>. QED
      BY <2>3, <2>4
  <1>. QED
    BY <1>4, <1>5, <1>6

\* A restart ends what was in flight; only the memory store forgets.
LEMMA LostInv ==
    ASSUME CallsInvariant, Lost
    PROVE  CallsInvariant'
  <1>. USE DEF CallsInvariant, CallTypes, Lost, CallsLost, Unfinished
  <1>1. crashes' \in 0 .. MaxCrashes /\ crashes' > 0
    BY BadgerConstants
  <1>2. CallTypes'
    BY <1>1
  <1>3. Outcomes'
    BY DEF Outcomes
  <1>4. DoneStays'
    <2>1. CASE backend = "memory"
      BY <1>1, <2>1 DEF DoneStays
    <2>2. CASE backend = "badger"
      <3>1. \A c \in Calls : job'[c] = "done" => job[c] = "done"
        OBVIOUS
      <3>2. Contents' = Contents /\ UNCHANGED <<op, over, backend>>
        BY <2>2
      <3>. QED
        BY <2>2, <3>1, <3>2 DEF DoneStays, Disturbed
    <2>. QED
      BY <2>1, <2>2
  <1>. QED
    BY <1>2, <1>3, <1>4

\* The calls keep their invariant whatever happens.
LEMMA CallStepInv == CallsInvariant /\ CallStep => CallsInvariant'
  <1>1. ASSUME CallsInvariant, Idle
        PROVE  CallsInvariant'
    BY <1>1 DEF CallsInvariant, CallTypes, Outcomes, DoneStays, Disturbed, Idle, calls, past
  <1>. QED
    BY <1>1, AskedInv, RepliedInv, WorkedInv, LostInv DEF CallStep

\* What was asked is not forgotten, and an answer is not taken back.
LEMMA CallStepKeeps ==
    ASSUME CallsInvariant, CallStep, NEW c \in Calls
    PROVE  /\ caller[c] # "new" => op'[c] = op[c] /\ caller'[c] # "new"
           /\ caller[c] = "ok" => caller'[c] = "ok"
  <1>. USE DEF CallsInvariant, CallTypes
  <1>1. ASSUME NEW d \in Calls, NEW o \in Operations, Asked(d, o)
        PROVE  /\ caller[c] # "new" => op'[c] = op[c] /\ caller'[c] # "new"
               /\ caller[c] = "ok" => caller'[c] = "ok"
    BY <1>1 DEF Asked, Reply
  <1>2. ASSUME NEW d \in Calls, Replied(d)
        PROVE  /\ caller[c] # "new" => op'[c] = op[c] /\ caller'[c] # "new"
               /\ caller[c] = "ok" => caller'[c] = "ok"
    BY <1>2 DEF Replied, Reply
  <1>3. CASE Lost
    BY <1>3 DEF Lost, CallsLost
  <1>. QED
    BY <1>1, <1>2, <1>3 DEF CallStep, Worked, Idle, calls

-----------------------------------------------------------------------------
(***************************************************************************)
(* A step of the Badger store is a step of its calls.                      *)
(***************************************************************************)
\* What is not an update ends without a change of the contents.
LEMMA WorkedQuietly ==
    ASSUME CallsInvariant, NEW c \in Calls, Unfinished(c), Contents' = Contents,
           NEW state \in {"open", "done", "failed"}, Work(c, state),
           NEW a, answer' = [answer EXCEPT ![c] = a],
           state = "done" => ~ IsUpdate(op[c]) /\ a # NoAnswer,
           UNCHANGED <<op, caller, over, crashes, backend>>,
           present' = present \/ present' = [d \in Calls |-> present[d] \cap Contents']
    PROVE  Worked(c)
  <1>. USE DEF CallsInvariant, CallTypes
  <1>1. job'[c] = state /\ answer'[c] = a
    BY DEF Work
  <1>2. present' = [d \in Calls |-> present[d] \cap Contents']
    OBVIOUS
  <1>3. op[c].kind = "write" => IsUpdate(op[c])
    BY DEF IsUpdate
  <1>. QED
    BY <1>1, <1>2, <1>3 DEF Worked

\* The commit of an update.
LEMMA CommitWorks ==
    ASSUME CallsInvariant, BadgerIInv, backend = "badger", UNCHANGED backend,
           NEW c \in Calls, CommitWrite(c) \/ CommitDelete(c)
    PROVE  Worked(c)
  <1>. USE DEF CallsInvariant, CallTypes
  <1>1. Contents = db /\ Contents' = db'
    BY DEF Contents
  <1>2. Unfinished(c) /\ IsUpdate(op[c]) /\ op[c].kind \in {"write", "delete"}
    BY DEF CommitWrite, CommitDelete, Unfinished, IsUpdate
  <1>3. /\ job' = [job EXCEPT ![c] = "done"]
        /\ present' = [d \in Calls |-> present[d] \cap Contents']
        /\ UNCHANGED <<op, caller, answer, over, crashes>>
    BY <1>1 DEF CommitWrite, CommitDelete, Commit, Work, Keep
  <1>4. /\ db' \subseteq db \cup (IF op[c].kind = "write" THEN ToSet(op[c].batch) ELSE {})
        /\ \A e \in db \ db' : Removes(op[c], e)
        /\ op[c].kind = "write" => LastOfEachKey(op[c].batch) \subseteq db'
    <2>1. CASE CommitWrite(c)
      <3>1. op[c].kind = "write" /\ db' = Put(db, LastOfEachKey(op[c].batch))
        BY <2>1 DEF CommitWrite, Commit
      <3>2. LastOfEachKey(op[c].batch) \subseteq ToSet(op[c].batch)
        <4>1. op[c] \in Operations
          BY <2>1 DEF Outcomes, CommitWrite
        <4>. QED
          BY <3>1, <4>1, BatchFits
      <3>3. ASSUME NEW e \in db \ db'
            PROVE  Removes(op[c], e)
        <4>1. PICK n \in LastOfEachKey(op[c].batch) : SameKey(e, n)
          BY <3>1, <3>3 DEF Put
        <4>2. n # e
          BY <3>1, <3>3 DEF Put
        <4>3. SameKey(n, e)
          BY <4>1 DEF SameKey
        <4>. QED
          BY <3>1, <3>2, <4>1, <4>2, <4>3 DEF Removes
      <3>. QED
        BY <3>1, <3>2, <3>3 DEF Put
    <2>2. CASE CommitDelete(c)
      <3>1. job[c] = "open" /\ op[c].kind = "delete"
        BY <2>2 DEF CommitDelete
      <3>2. db' = {e \in db : makeKey(e) \notin Keys(MarkedForDeletion(op[c], view[c]))}
        BY <2>2 DEF CommitDelete, Commit
      <3>3. Promise!Deleted(c, db')
        BY <3>1, <3>2, DeleteDeletes
      <3>4. db' \subseteq db /\ \A e \in db \ db' : Matches(op[c], e)
        BY <3>3, SameOperations DEF Promise!Deleted
      <3>. QED
        BY <3>1, <3>4 DEF Removes
    <2>. QED
      BY <2>1, <2>2
  <1>5. answer' = [answer EXCEPT ![c] = answer[c]]
    BY <1>3
  <1>. QED
    BY <1>1, <1>2, <1>3, <1>4, <1>5 DEF Worked, Work

\* Every other step of a transaction.
LEMMA BadgerWorks ==
    ASSUME CallsInvariant, BadgerIInv, backend = "badger", UNCHANGED backend,
           NEW c \in Calls, BadgerStep(c)
    PROVE  CallStep
  <1>1. Contents = db /\ Contents' = db'
    BY DEF Contents
  <1>2. answer = [answer EXCEPT ![c] = answer[c]]
    BY DEF CallsInvariant, CallTypes
  <1>3. CASE BadgerReturn(c)
    <2>1. Replied(c)
      BY <1>1, <1>3 DEF BadgerReturn, Return, Replied, past
    <2>. QED
      BY <2>1 DEF CallStep
  <1>4. CASE Cancelled(c)
    <2>1. Replied(c)
      BY <1>1, <1>4 DEF Cancelled, Replied, past
    <2>. QED
      BY <2>1 DEF CallStep
  <1>5. CASE ReadView(c)
    <2>1. Unfinished(c) /\ ~ IsUpdate(op[c])
      BY <1>5 DEF ReadView, Unfinished, IsUpdate
    <2>2. PICK a : answer' = [answer EXCEPT ![c] = a] /\ a # NoAnswer
      BY <1>5 DEF ReadView, Found, Stats, Counted, NoAnswer
    <2>3. Worked(c)
      BY <1>1, <1>5, <2>1, <2>2, WorkedQuietly DEF ReadView, past, Work
    <2>. QED
      BY <2>3 DEF CallStep
  <1>6. CASE BeginDelete(c)
    <2>1. Unfinished(c) /\ Contents' = Contents /\ Work(c, "open")
      BY <1>1, <1>6 DEF BeginDelete, Unfinished
    <2>2. Worked(c)
      BY <1>2, <1>6, <2>1, WorkedQuietly DEF BeginDelete, past
    <2>. QED
      BY <2>2 DEF CallStep
  <1>7. CASE Abort(c) \/ DeleteConflicts(c)
    <2>1. Unfinished(c) /\ Contents' = Contents /\ Work(c, "failed")
      BY <1>1, <1>7 DEF Abort, DeleteConflicts, Unfinished
    <2>2. Worked(c)
      BY <1>2, <1>7, <2>1, WorkedQuietly DEF Abort, DeleteConflicts, past
    <2>. QED
      BY <2>2 DEF CallStep
  <1>8. CASE CommitWrite(c) \/ CommitDelete(c)
    BY <1>8, CommitWorks DEF CallStep
  <1>. QED
    BY <1>3, <1>4, <1>5, <1>6, <1>7, <1>8 DEF BadgerStep

\* A step of the Badger store is a step of its calls.
LEMMA BadgerCallStep ==
    ASSUME CallsInvariant, BadgerIInv, backend = "badger", UNCHANGED backend,
           [BadgerNext]_badgerVars
    PROVE  CallStep
  <1>1. Contents = db /\ Contents' = db'
    BY DEF Contents
  <1>2. ASSUME NEW c \in Calls, NEW o \in Operations, BadgerCall(c, o) \/ CallExpired(c, o)
        PROVE  Asked(c, o)
    BY <1>1, <1>2 DEF BadgerCall, CallExpired, Call, Reply, Work, Asked
  <1>3. ASSUME BadgerCrash
        PROVE  Lost
    BY <1>1, <1>3 DEF BadgerCrash, Lost, BadgerIInv, Shapes, Views
  <1>4. ASSUME UNCHANGED badgerVars
        PROVE  Idle
    BY <1>1, <1>4 DEF badgerVars, Idle
  <1>. QED
    BY <1>2, <1>3, <1>4, BadgerWorks DEF BadgerNext, CallStep

-----------------------------------------------------------------------------
(***************************************************************************)
(* The memory store.                                                       *)
(***************************************************************************)
MemoryNext ==
    \/ \E c \in Calls : (\E o \in Operations : MemoryCall(c, o)) \/ MemoryStep(c)
    \/ MemoryCrash

\* The slice holds what was written, up to its limit; no transaction is open.
MemoryIInv ==
    /\ metrics \in Seq(Writable)
    /\ MemoryTypeOK

\* The limit is a number, whether it is given or the default.
LEMMA MaxMetricsType == maxMetrics \in Nat
  BY MemoryConstants DEF maxMetrics

\* What a deletion leaves and what a query finds.
LEMMA SliceOperations ==
    ASSUME metrics \in Seq(Writable), NEW o
    PROVE  /\ Remaining(o) \in Seq(Writable)
           /\ Len(Remaining(o)) <= Len(metrics)
           /\ ToSet(Remaining(o)) = {e \in Stored : ~ Matches(o, e)}
           /\ o.limit \in Nat =>
                /\ ToSet(Filter(o)) \subseteq Selected(o, Stored)
                /\ o.limit = 0 => ToSet(Filter(o)) = Selected(o, Stored)
                /\ o.limit # 0 => Cardinality(ToSet(Filter(o))) <= o.limit
  <1>1. Stored = ToSet(metrics)
    BY DEF Stored
  <1>2. ToSet(metrics) \cap {e \in Stored : ~ Matches(o, e)} = {e \in Stored : ~ Matches(o, e)}
    BY <1>1
  <1>. DEFINE matching == Among(metrics, Selected(o, Stored))
  <1>3. matching \in Seq(Writable) /\ ToSet(matching) = Selected(o, Stored)
    <2>1. ToSet(metrics) \cap Selected(o, Stored) = Selected(o, Stored)
      BY <1>1 DEF Selected, InRange
    <2>. QED
      BY <2>1, AmongElements
  <1>4. ASSUME o.limit \in Nat
        PROVE  /\ ToSet(Filter(o)) \subseteq Selected(o, Stored)
               /\ o.limit = 0 => ToSet(Filter(o)) = Selected(o, Stored)
               /\ o.limit # 0 => Cardinality(ToSet(Filter(o))) <= o.limit
    <2>. HIDE DEF matching
    <2>1. Len(matching) \in Nat
      BY <1>3
    <2>2. CASE o.limit = 0
      BY <1>3, <2>2 DEF Filter, matching
    <2>3. CASE o.limit # 0 /\ Len(matching) <= o.limit
      <3>1. Filter(o) = matching
        BY <2>3 DEF Filter, matching
      <3>2. IsFiniteSet(ToSet(matching)) /\ Cardinality(ToSet(matching)) <= Len(matching)
        BY <1>3, ElementCount
      <3>3. Cardinality(ToSet(matching)) \in Nat
        BY <3>2, FS_CardinalityType
      <3>. QED
        BY <1>3, <1>4, <2>1, <2>3, <3>1, <3>2, <3>3
    <2>4. CASE o.limit # 0 /\ ~ (Len(matching) <= o.limit)
      <3>1. Filter(o) = SubSeq(matching, 1, o.limit)
        BY <2>4 DEF Filter, matching
      <3>. DEFINE cut == SubSeq(matching, 1, o.limit)
      <3>2. cut \in Seq(Writable) /\ Len(cut) = o.limit
            /\ \A i \in 1 .. o.limit : cut[i] = matching[i] /\ i \in 1 .. Len(matching)
        BY <1>3, <1>4, <2>1, <2>4
      <3>3. ToSet(cut) \subseteq ToSet(matching)
        <4>. HIDE DEF cut
        <4>1. DOMAIN cut = 1 .. o.limit /\ DOMAIN matching = 1 .. Len(matching)
          BY <1>3, <3>2
        <4>. QED
          BY <3>2, <4>1 DEF ToSet
      <3>4. IsFiniteSet(ToSet(cut)) /\ Cardinality(ToSet(cut)) <= o.limit
        <4>. HIDE DEF cut
        <4>. QED
          BY <3>2, ElementCount
      <3>. QED
        BY <1>3, <2>4, <3>1, <3>3, <3>4
    <2>. QED
      BY <2>2, <2>3, <2>4
  <1>. QED
    BY <1>2, <1>4, AmongElements DEF Remaining

\* What a write makes of the slice.
LEMMA SliceAppended ==
    ASSUME metrics \in Seq(Writable), NEW o \in Operations, o.kind = "write"
    PROVE  /\ Appended(o.batch) \in Seq(Writable)
           /\ Len(Appended(o.batch)) = Len(metrics) + Len(o.batch)
           /\ ToSet(Appended(o.batch)) = Stored \cup ToSet(o.batch)
  <1>1. o.batch \in Seq(Writable)
    BY BatchFits
  <1>2. ToSet(metrics \o o.batch) = ToSet(metrics) \cup ToSet(o.batch)
    BY <1>1, ConcatElements
  <1>. QED
    BY <1>1, <1>2 DEF Appended, Stored

\* The work of a call under the lock keeps the slice within its limit.
LEMMA MemoryWorks ==
    ASSUME CallsInvariant, MemoryIInv, backend = "memory", UNCHANGED backend,
           NEW c \in Calls,
           MemoryWrite(c) \/ MemoryDelete(c) \/ MemoryQuery(c) \/ MemoryStats(c)
    PROVE  Worked(c) /\ MemoryIInv'
  <1>. USE DEF CallsInvariant, CallTypes
  <1>1. Contents = Stored /\ Contents' = Stored' /\ Stored = ToSet(metrics)
        /\ Stored' = ToSet(metrics')
    BY DEF Contents, Stored
  <1>2. /\ job[c] = "running" /\ Unfinished(c) /\ op[c] \in Operations
        /\ present' = [d \in Calls |-> present[d] \cap Contents']
        /\ UNCHANGED <<op, caller, crashes, over>>
    BY <1>1 DEF MemoryWrite, MemoryDelete, MemoryQuery, MemoryStats, UnderLock, Keep,
                Outcomes, Unfinished
  <1>3. /\ metrics \in Seq(Writable) /\ Len(metrics) \in Nat /\ Len(metrics) <= maxMetrics
        /\ \A d \in Calls : job[d] # "open"
    BY DEF MemoryIInv, MemoryTypeOK
  <1>4. answer = [answer EXCEPT ![c] = answer[c]]
    OBVIOUS
  <1>5. ASSUME UNCHANGED metrics, NEW state \in {"done", "failed"}, Work(c, state)
        PROVE  MemoryIInv'
    BY <1>3, <1>5 DEF MemoryIInv, MemoryTypeOK, Work
  <1>6. CASE MemoryWrite(c)
    <2>1. op[c].kind = "write" /\ IsUpdate(op[c])
      BY <1>6 DEF MemoryWrite, IsUpdate
    <2>2. CASE Exceeds(op[c].batch)
      <3>1. UNCHANGED <<metrics, answer>> /\ Work(c, "failed")
        BY <1>6, <2>2 DEF MemoryWrite
      <3>. QED
        BY <1>1, <1>2, <1>4, <1>5, <3>1, WorkedQuietly
    <2>3. CASE ~ Exceeds(op[c].batch)
      <3>1. metrics' = Appended(op[c].batch) /\ Work(c, "done") /\ UNCHANGED answer
        BY <1>6, <2>3 DEF MemoryWrite
      <3>2. /\ metrics' \in Seq(Writable)
            /\ Len(metrics') = Len(metrics) + Len(op[c].batch)
            /\ ToSet(metrics') = Stored \cup ToSet(op[c].batch)
        BY <1>2, <1>3, <2>1, <3>1, SliceAppended
      <3>3. /\ Len(op[c].batch) \in Nat
            /\ LastOfEachKey(op[c].batch) \subseteq ToSet(op[c].batch)
        <4>. DEFINE b == op[c].batch
        <4>1. b \in Seq(Writable) /\ LastOfEachKey(b) \subseteq ToSet(b)
          BY <1>2, <2>1, BatchFits
        <4>. HIDE DEF b
        <4>2. Len(b) \in Nat
          BY <4>1
        <4>. QED
          BY <4>1, <4>2 DEF b
      <3>4. Len(metrics') <= maxMetrics
        BY <1>3, <2>3, <3>2, <3>3, MaxMetricsType DEF Exceeds
      <3>5. MemoryIInv'
        BY <1>3, <3>1, <3>2, <3>4 DEF MemoryIInv, MemoryTypeOK, Work
      <3>. QED
        BY <1>1, <1>2, <1>4, <2>1, <3>1, <3>2, <3>3, <3>5 DEF Worked, Work
    <2>. QED
      BY <2>2, <2>3
  <1>7. CASE MemoryDelete(c)
    <2>1. op[c].kind = "delete" /\ IsUpdate(op[c]) /\ Work(c, "done") /\ UNCHANGED answer
      BY <1>7 DEF MemoryDelete, IsUpdate
    <2>2. /\ metrics' \in Seq(Writable)
          /\ Len(metrics') <= Len(metrics)
          /\ ToSet(metrics') = {e \in Stored : ~ Matches(op[c], e)}
      BY <1>3, <1>7, SliceOperations DEF MemoryDelete
    <2>3. MemoryIInv'
      BY <1>3, <2>1, <2>2, MaxMetricsType DEF MemoryIInv, MemoryTypeOK, Work
    <2>4. \A e \in Contents \ Contents' : Removes(op[c], e)
      BY <1>1, <2>1, <2>2 DEF Removes
    <2>. QED
      BY <1>1, <1>2, <1>4, <2>1, <2>2, <2>3, <2>4 DEF Worked, Work
  <1>8. CASE MemoryQuery(c) \/ MemoryStats(c)
    <2>1. ~ IsUpdate(op[c]) /\ UNCHANGED metrics /\ Work(c, "done")
      BY <1>8 DEF MemoryQuery, MemoryStats, IsUpdate
    <2>2. PICK a : answer' = [answer EXCEPT ![c] = a] /\ a # NoAnswer
      BY <1>8 DEF MemoryQuery, MemoryStats, Found, Counted, NoAnswer
    <2>. QED
      BY <1>1, <1>2, <1>5, <2>1, <2>2, WorkedQuietly
  <1>. QED
    BY <1>6, <1>7, <1>8

\* A step of the memory store is a step of its calls.
LEMMA MemoryCallStep ==
    ASSUME CallsInvariant, MemoryIInv, backend = "memory", UNCHANGED backend,
           [MemoryNext]_<<calls, past, crashes, metrics>>
    PROVE  CallStep /\ MemoryIInv'
  <1>. USE DEF CallsInvariant, CallTypes
  <1>1. Contents = Stored /\ Contents' = Stored' /\ Stored = ToSet(metrics)
        /\ Stored' = ToSet(metrics')
    BY DEF Contents, Stored
  <1>2. ASSUME NEW c \in Calls, NEW o \in Operations, MemoryCall(c, o)
        PROVE  CallStep /\ MemoryIInv'
    <2>1. Asked(c, o)
      BY <1>1, <1>2 DEF MemoryCall, Call, Reply, Work, Asked
    <2>2. MemoryIInv'
      BY <1>2 DEF MemoryCall, Call, Work, MemoryIInv, MemoryTypeOK
    <2>. QED
      BY <2>1, <2>2 DEF CallStep
  <1>3. ASSUME NEW c \in Calls, MemoryReturn(c)
        PROVE  CallStep /\ MemoryIInv'
    <2>1. Replied(c)
      BY <1>1, <1>3 DEF MemoryReturn, Return, Replied, past
    <2>2. MemoryIInv'
      BY <1>3 DEF MemoryReturn, Return, MemoryIInv, MemoryTypeOK
    <2>. QED
      BY <2>1, <2>2 DEF CallStep
  <1>4. ASSUME MemoryCrash
        PROVE  CallStep /\ MemoryIInv'
    <2>1. Contents' = {}
      BY <1>1, <1>4 DEF MemoryCrash, ToSet
    <2>2. Lost
      BY <1>4, <2>1 DEF MemoryCrash, Keep, Lost
    <2>3. MemoryIInv'
      BY <1>4, MaxMetricsType DEF MemoryCrash, CallsLost, Unfinished, MemoryIInv, MemoryTypeOK
    <2>. QED
      BY <2>2, <2>3 DEF CallStep
  <1>5. ASSUME UNCHANGED <<calls, past, crashes, metrics>>
        PROVE  CallStep /\ MemoryIInv'
    <2>1. Idle
      BY <1>1, <1>5 DEF Idle
    <2>2. MemoryIInv'
      BY <1>5 DEF calls, MemoryIInv, MemoryTypeOK
    <2>. QED
      BY <2>1, <2>2 DEF CallStep
  <1>6. ASSUME NEW c \in Calls, MemoryStep(c)
        PROVE  CallStep /\ MemoryIInv'
    BY <1>3, <1>6, MemoryWorks DEF MemoryStep, CallStep
  <1>. QED
    BY <1>2, <1>4, <1>5, <1>6 DEF MemoryNext

-----------------------------------------------------------------------------
(***************************************************************************)
(* The importer.                                                           *)
(***************************************************************************)
BatchStored(n) == \E c \in Calls : op[c] = WriteOf(Batch(n)) /\ caller[c] = "ok"

\* The batch being written is the one its call asked for, and those before it were
\* reported as written.
Importing ==
    /\ import \in {"idle", "batch", "writing", "done", "failed"}
    /\ batch \in 0 .. BatchCount + 1
    /\ used \in 0 .. Len(ImportCalls)
    /\ import \in {"batch", "writing"} =>
            batch \in 1 .. BatchCount /\ \A n \in 1 .. batch - 1 : BatchStored(n)
    /\ import = "writing" =>
            used > 0 /\ caller[LastCall] # "new" /\ op[LastCall] = WriteOf(Batch(batch))
    /\ import = "done" => \A n \in 1 .. BatchCount : BatchStored(n)

\* A place between two others is in what is cut out there.
LEMMA CutElement ==
    ASSUME NEW S, NEW s \in Seq(S), NEW i \in 1 .. Len(s),
           NEW a \in 1 .. i, NEW b \in i .. Len(s)
    PROVE  s[i] \in ToSet(SubSeq(s, a, b))
  <1>. DEFINE cut == SubSeq(s, a, b)
              k   == i - a + 1
  <1>1. Len(cut) = b - a + 1 /\ DOMAIN cut = 1 .. b - a + 1
    OBVIOUS
  <1>2. k \in 1 .. b - a + 1 /\ a + k - 1 = i
    OBVIOUS
  <1>3. cut[k] = s[a + k - 1]
    BY <1>2
  <1>. HIDE DEF cut, k
  <1>. QED
    BY <1>1, <1>2, <1>3 DEF ToSet, cut

\* The accepted metrics are those of the file that are importable, and there are
\* enough batches for each of them.
LEMMA Batches ==
    /\ BatchCount \in Nat
    /\ \A e \in ToSet(Backup) \cap Importable : \E n \in 1 .. BatchCount : e \in ToSet(Batch(n))
  <1>. DEFINE L == Len(validMetrics)
              m == MaxImportBatchSize
  <1>1. /\ validMetrics \in Seq(ToSet(Backup))
        /\ ToSet(validMetrics) = ToSet(Backup) \cap Importable
    BY ClientConstants, AmongElements DEF validMetrics
  <1>2. L \in Nat /\ m \in Nat \ {0}
    BY <1>1, ClientConstants
  <1>3. BatchCount = (L + m - 1) \div m
    BY DEF BatchCount
  <1>. HIDE DEF L, m
  <1>4. \A a \in Nat : a \div m \in Nat /\ m * (a \div m) <= a /\ a < m * (a \div m) + m
    <2>. TAKE a \in Nat
    <2>1. a \div m \in Int /\ a % m \in 0 .. m - 1 /\ a = m * (a \div m) + (a % m)
      BY <1>2, Z3
    <2>2. a \div m >= 0
      BY <1>2, Z3
    <2>. QED
      BY <1>2, <2>1, <2>2, Z3
  <1>5. BatchCount \in Nat
    <2>1. L + m - 1 \in Nat
      BY <1>2
    <2>. QED
      BY <1>3, <1>4, <2>1
  <1>6. ASSUME NEW e \in ToSet(Backup) \cap Importable
        PROVE  \E n \in 1 .. BatchCount : e \in ToSet(Batch(n))
    <2>1. PICK i \in 1 .. L : e = validMetrics[i]
      <3>1. e \in ToSet(validMetrics) /\ DOMAIN validMetrics = 1 .. L
        BY <1>1, <1>6 DEF L
      <3>. QED
        BY <3>1 DEF ToSet
    <2>. DEFINE k == (i - 1) \div m
                n == k + 1
    <2>2. k \in Nat /\ m * k <= i - 1 /\ i - 1 < m * k + m
      BY <1>2, <1>4
    <2>. HIDE DEF k
    <2>3. k * m = m * k /\ n * m = m * k + m /\ (n - 1) * m = m * k /\ m * k \in Nat
      BY <1>2, <2>2
    <2>4. n \in 1 .. BatchCount
      <3>. DEFINE q == (L + m - 1) \div m
      <3>1. q \in Nat /\ L + m - 1 < m * q + m
        BY <1>2, <1>4
      <3>. HIDE DEF q
      <3>2. m * k < m * q
        <4>1. m * q \in Nat
          BY <1>2, <3>1
        <4>. QED
          BY <1>2, <2>2, <2>3, <3>1, <4>1
      <3>3. k < q
        <4>. SUFFICES ASSUME q <= k PROVE FALSE
          BY <2>2, <3>1
        <4>1. m * q <= m * k
          BY <1>2, <2>2, <3>1, Z3
        <4>. QED
          BY <1>2, <2>2, <2>3, <3>1, <3>2, <4>1
      <3>. QED
        BY <1>3, <2>2, <3>1, <3>3 DEF q
    <2>5. Min({n * m, L}) \in Nat /\ i <= Min({n * m, L}) /\ Min({n * m, L}) <= L
      <3>1. \A a, b \in Nat : Min({a, b}) = IF a <= b THEN a ELSE b
        BY DEF Min
      <3>2. n * m \in Nat /\ i <= n * m /\ i <= L
        BY <1>2, <2>2, <2>3
      <3>. HIDE DEF n
      <3>. QED
        BY <1>2, <3>1, <3>2
    <2>6. (n - 1) * m + 1 \in 1 .. i /\ Min({n * m, L}) \in i .. L
      BY <1>2, <2>1, <2>2, <2>3, <2>5
    <2>. HIDE DEF n
    <2>7. e \in ToSet(Batch(n))
      <3>. DEFINE first == (n - 1) * m + 1
                  last  == Min({n * m, L})
      <3>1. /\ Batch(n) = SubSeq(validMetrics, first, last)
            /\ first \in 1 .. i /\ last \in i .. L
        <4>1. Batch(n) = SubSeq(validMetrics, first, last)
          BY DEF Batch, L, m
        <4>2. first \in 1 .. i /\ last \in i .. L
          BY <2>6
        <4>. QED
          BY <4>1, <4>2
      <3>. HIDE DEF first, last
      <3>2. e \in ToSet(SubSeq(validMetrics, first, last))
        BY <1>1, <1>2, <2>1, <3>1, CutElement DEF L
      <3>. QED
        BY <3>1, <3>2
    <2>. QED
      BY <2>4, <2>7
  <1>. QED
    BY <1>5, <1>6

-----------------------------------------------------------------------------
(***************************************************************************)
(* The store and its clients.                                              *)
(***************************************************************************)
Transactions ==
    /\ view \in [Calls -> SUBSET Writable]
    /\ DOMAIN written = Calls

ClientIInv ==
    /\ CallsInvariant
    /\ backend = "badger" => BadgerIInv /\ metrics = << >>
    /\ backend = "memory" => MemoryIInv /\ db = {}
    /\ Transactions
    /\ Importing

\* Nothing is stored, asked or imported at first.
LEMMA ClientInit == Init => ClientIInv
  <1>. SUFFICES ASSUME Init PROVE ClientIInv
    OBVIOUS
  <1>1. Contents = {}
    BY DEF Init, Contents, Stored, ToSet, BadgerInit
  <1>2. CallsInvariant
    BY <1>1, BadgerConstants DEF Init, BadgerInit, CallsInit, CallsInvariant, CallTypes,
            Outcomes, DoneStays
  <1>3. BadgerIInv
    BY InitInv DEF Init
  <1>4. MemoryIInv
    BY MaxMetricsType DEF Init, BadgerInit, CallsInit, MemoryIInv, MemoryTypeOK
  <1>5. Importing
    BY Batches, ClientConstants DEF Init, Importing
  <1>. QED
    BY <1>2, <1>3, <1>4, <1>5 DEF ClientIInv, Init, BadgerInit, Transactions

\* A step is a step of the implementation in use, and leaves the other alone.
LEMMA BackendStep ==
    ASSUME ClientIInv, [Next]_vars
    PROVE  /\ UNCHANGED backend
           /\ backend = "badger" => [BadgerNext]_badgerVars /\ UNCHANGED metrics
           /\ backend = "memory" =>
                [MemoryNext]_<<calls, past, crashes, metrics>> /\ UNCHANGED <<db, txns>>
  <1>. DEFINE Goal ==
           /\ UNCHANGED backend
           /\ backend = "badger" => [BadgerNext]_badgerVars /\ UNCHANGED metrics
           /\ backend = "memory" =>
                [MemoryNext]_<<calls, past, crashes, metrics>> /\ UNCHANGED <<db, txns>>
  <1>1. ASSUME Badger
        PROVE  Goal
    <2>1. backend = "badger" /\ UNCHANGED <<metrics, backend>>
      BY <1>1 DEF Badger
    <2>2. BadgerNext
      <3>1. PICK c \in Calls :
                \/ c \in DOMAIN Asks /\ \E o \in Asks[c] : BadgerCall(c, o) \/ CallExpired(c, o)
                \/ BadgerStep(c)
        BY <1>1 DEF Badger
      <3>. QED
        BY <3>1, ClientConstants DEF BadgerNext
    <2>. QED
      BY <2>1, <2>2
  <1>2. ASSUME Memory
        PROVE  Goal
    <2>1. backend = "memory" /\ UNCHANGED <<db, txns, backend>>
      BY <1>2 DEF Memory
    <2>2. MemoryNext
      <3>1. PICK c \in Calls :
                \/ c \in DOMAIN Asks /\ \E o \in Asks[c] : MemoryCall(c, o)
                \/ MemoryStep(c)
        BY <1>2 DEF Memory
      <3>. QED
        BY <3>1, ClientConstants DEF MemoryNext
    <2>. QED
      BY <2>1, <2>2
  <1>3. ASSUME Crash
        PROVE  Goal
    BY <1>3 DEF Crash, BadgerNext, MemoryNext
  <1>4. ASSUME NEW c \in Calls, WriteBatch(c)
        PROVE  Goal
    <2>1. WriteOf(Batch(batch)) \in Operations
      BY <1>4, ImportIsAsked DEF WriteBatch, ClientIInv, Importing
    <2>. QED
      BY <1>4, <2>1 DEF WriteBatch, BadgerNext, MemoryNext
  <1>5. ASSUME StartImport \/ BatchWritten \/ BatchFailed \/ UNCHANGED vars
        PROVE  Goal
    BY <1>5 DEF StartImport, BatchWritten, BatchFailed, vars, badgerVars
  <1>. QED
    BY <1>1, <1>2, <1>3, <1>4, <1>5 DEF Next

\* The views hold what was written.
LEMMA TransactionsStep ==
    ASSUME ClientIInv, backend = "badger", [BadgerNext]_badgerVars
    PROVE  Transactions'
  <1>. USE DEF Transactions
  <1>1. db \subseteq Writable /\ Transactions
    BY DEF ClientIInv, CallsInvariant, CallTypes, Contents
  <1>2. ASSUME NEW c \in Calls, BadgerStep(c)
        PROVE  Transactions'
    <2>1. CASE BadgerReturn(c) \/ Cancelled(c) \/ ReadView(c)
      BY <1>1, <2>1 DEF BadgerReturn, Cancelled, ReadView, txns
    <2>2. CASE BeginDelete(c)
      BY <1>1, <2>2 DEF BeginDelete
    <2>3. CASE Abort(c) \/ DeleteConflicts(c)
      BY <1>1, <2>3 DEF Abort, DeleteConflicts, Discard
    <2>4. CASE CommitWrite(c) \/ CommitDelete(c)
      BY <1>1, <2>4 DEF CommitWrite, CommitDelete, Commit
    <2>. QED
      BY <1>2, <2>1, <2>2, <2>3, <2>4 DEF BadgerStep
  <1>3. ASSUME NEW c \in Calls, NEW o \in Operations, BadgerCall(c, o) \/ CallExpired(c, o)
        PROVE  Transactions'
    BY <1>1, <1>3 DEF BadgerCall, CallExpired, txns
  <1>4. ASSUME BadgerCrash
        PROVE  Transactions'
    BY <1>4 DEF BadgerCrash
  <1>5. ASSUME UNCHANGED badgerVars
        PROVE  Transactions'
    BY <1>1, <1>5 DEF badgerVars, txns
  <1>. QED
    BY <1>2, <1>3, <1>4, <1>5 DEF BadgerNext

\* The import goes on to the next batch only after the one before it was reported.
LEMMA ImportStep ==
    ASSUME ClientIInv, CallStep, [Next]_vars
    PROVE  Importing'
  <1>. USE DEF Importing
  <1>0. Importing /\ BatchCount \in Nat /\ Len(ImportCalls) \in Nat
    BY Batches, ClientConstants DEF ClientIInv
  <1>1. \A c \in Calls : /\ caller[c] # "new" => op'[c] = op[c] /\ caller'[c] # "new"
                         /\ caller[c] = "ok" => caller'[c] = "ok"
    BY CallStepKeeps DEF ClientIInv
  <1>2. \A n : BatchStored(n) => BatchStored(n)'
    BY <1>1 DEF BatchStored
  <1>3. \A k \in 1 .. Len(ImportCalls) : ImportCalls[k] \in Calls
    BY ClientConstants
  <1>4. ASSUME UNCHANGED importer
        PROVE  Importing'
    <2>1. import = "writing" => LastCall \in Calls /\ LastCall' = LastCall
      BY <1>0, <1>3, <1>4 DEF importer, LastCall
    <2>. QED
      BY <1>0, <1>1, <1>2, <1>4, <2>1 DEF importer, LastCall
  <1>5. ASSUME Crash
        PROVE  Importing'
    BY <1>0, <1>2, <1>5 DEF Crash
  <1>6. ASSUME StartImport
        PROVE  Importing'
    BY <1>0, <1>6 DEF StartImport
  <1>7. ASSUME BatchWritten
        PROVE  Importing'
    <2>1. LastCall \in Calls
      BY <1>0, <1>3, <1>7 DEF BatchWritten, LastCall
    <2>2. BatchStored(batch)
      BY <1>0, <1>7, <2>1 DEF BatchWritten, BatchStored
    <2>3. /\ batch \in 1 .. BatchCount /\ batch' = batch + 1
          /\ import' = IF batch = BatchCount THEN "done" ELSE "batch"
          /\ used' = used
      BY <1>0, <1>7 DEF BatchWritten
    <2>4. \A n \in 1 .. batch : BatchStored(n)'
      BY <1>0, <1>2, <1>7, <2>2, <2>3 DEF BatchWritten
    <2>. QED
      BY <1>0, <2>3, <2>4
  <1>8. ASSUME BatchFailed
        PROVE  Importing'
    BY <1>0, <1>8 DEF BatchFailed
  <1>9. ASSUME NEW c \in Calls, WriteBatch(c)
        PROVE  Importing'
    <2>1. /\ import = "batch" /\ import' = "writing" /\ batch' = batch
          /\ used' = used + 1 /\ used < Len(ImportCalls) /\ c = ImportCalls[used + 1]
      BY <1>9 DEF WriteBatch
    <2>2. LastCall' = c
      BY <2>1 DEF LastCall
    <2>3. op' = [op EXCEPT ![c] = WriteOf(Batch(batch))]
          /\ caller' \in {[caller EXCEPT ![c] = "waiting"], [caller EXCEPT ![c] = "error"]}
      BY <1>9 DEF WriteBatch, BadgerCall, CallExpired, MemoryCall, Call, Reply
    <2>4. caller \in [Calls -> {"new", "waiting", "ok", "error"}] /\ DOMAIN op = Calls
      BY DEF ClientIInv, CallsInvariant, CallTypes
    <2>5. op'[c] = WriteOf(Batch(batch')) /\ caller'[c] # "new"
      BY <2>1, <2>3, <2>4
    <2>. QED
      BY <1>0, <1>2, <2>1, <2>2, <2>5 DEF LastCall
  <1>. QED
    BY <1>4, <1>5, <1>6, <1>7, <1>8, <1>9 DEF Next, Badger, Memory, vars

\* Every step keeps the invariant.
LEMMA ClientStep == ClientIInv /\ [Next]_vars => ClientIInv' /\ CallStep
  <1>. SUFFICES ASSUME ClientIInv, [Next]_vars PROVE ClientIInv' /\ CallStep
    OBVIOUS
  <1>1. UNCHANGED backend /\ backend \in {"badger", "memory"}
    BY BackendStep DEF ClientIInv, CallsInvariant, CallTypes
  <1>2. CASE backend = "badger"
    <2>1. BadgerIInv /\ [BadgerNext]_badgerVars /\ UNCHANGED metrics /\ metrics = << >>
      BY <1>2, BackendStep DEF ClientIInv
    <2>2. CallStep
      BY <1>1, <1>2, <2>1, BadgerCallStep DEF ClientIInv
    <2>3. BadgerIInv'
      BY <2>1, StepInv
    <2>4. Transactions'
      BY <1>2, <2>1, TransactionsStep
    <2>. QED
      BY <1>1, <1>2, <2>1, <2>2, <2>3, <2>4, CallStepInv, ImportStep DEF ClientIInv
  <1>3. CASE backend = "memory"
    <2>1. /\ MemoryIInv /\ db = {} /\ UNCHANGED <<db, txns>>
          /\ [MemoryNext]_<<calls, past, crashes, metrics>>
      BY <1>3, BackendStep DEF ClientIInv
    <2>2. CallStep /\ MemoryIInv'
      BY <1>1, <1>3, <2>1, MemoryCallStep DEF ClientIInv
    <2>3. Transactions'
      BY <2>1 DEF ClientIInv, Transactions, txns
    <2>. QED
      BY <1>1, <1>3, <2>1, <2>2, <2>3, CallStepInv, ImportStep DEF ClientIInv
  <1>. QED
    BY <1>1, <1>2, <1>3

\* The invariant holds in every reachable state of the store and its clients.
THEOREM ClientInvariant == Spec => []ClientIInv
  BY ClientInit, ClientStep, PTL DEF Spec

\* The state keeps its types: the slice within its limit, the batch within the file.
THEOREM StoreTypes == Spec => []TypeOK
  <1>1. ClientIInv => TypeOK
    <2>. SUFFICES ASSUME ClientIInv PROVE TypeOK
      OBVIOUS
    <2>1. CallTypes /\ Transactions /\ Importing
      BY DEF ClientIInv, CallsInvariant
    <2>2. db \subseteq Writable /\ Contents \subseteq Writable
      BY <2>1 DEF ClientIInv, CallTypes, Contents
    <2>3. present \in [Calls -> SUBSET Writable]
      BY <2>1, <2>2 DEF CallTypes
    <2>4. BadgerTypeOK
      BY <2>1, <2>2, <2>3 DEF BadgerTypeOK, CallTypes, Transactions
    <2>. QED
      BY <2>1, <2>4 DEF TypeOK, ClientIInv, MemoryIInv, Importing
  <1>. QED
    BY <1>1, ClientInvariant, PTL

\* A write whose success was reported stays, in either store, unless something that was
\* still under way at its call, or came later, removes it.
THEOREM WritesStay == Spec => []AcknowledgedStays
  <1>1. ClientIInv => AcknowledgedStays
    BY DEF ClientIInv, CallsInvariant, Outcomes, DoneStays, AcknowledgedStays
  <1>. QED
    BY <1>1, ClientInvariant, PTL

\* An import that reports success has stored every metric it accepted.
THEOREM ImportsComplete == Spec => []ImportIsComplete
  <1>1. ClientIInv => ImportIsComplete
    <2>. SUFFICES ASSUME ClientIInv, import = "done",
                         NEW e \in ToSet(Backup) \cap Importable
                  PROVE  \/ e \in Contents
                         \/ \E c \in Calls : Removes(op[c], e)
                         \/ backend = "memory" /\ crashes > 0
      BY DEF ImportIsComplete
    <2>1. PICK n \in 1 .. BatchCount : e \in ToSet(Batch(n))
      BY Batches
    <2>2. PICK c \in Calls : op[c] = WriteOf(Batch(n)) /\ caller[c] = "ok"
      BY <2>1 DEF ClientIInv, Importing, BatchStored
    <2>3. /\ job[c] = "done" /\ op[c].kind = "write" /\ e \in ToSet(op[c].batch)
          /\ op[c] \in Operations
      BY <2>1, <2>2 DEF ClientIInv, CallsInvariant, Outcomes, WriteOf
    <2>4. CASE e \in LastOfEachKey(op[c].batch)
      <3>1. \/ e \in Contents
            \/ Disturbed(c, e)
            \/ backend = "memory" /\ crashes > 0
        BY <2>3, <2>4 DEF ClientIInv, CallsInvariant, DoneStays
      <3>. QED
        BY <3>1 DEF Disturbed
    <2>5. CASE e \notin LastOfEachKey(op[c].batch)
      <3>1. \E f \in ToSet(op[c].batch) : f # e /\ SameKey(f, e)
        BY <2>3, <2>5, BatchFits, KeptOrReplaced
      <3>. QED
        BY <2>3, <3>1 DEF Removes
    <2>. QED
      BY <2>4, <2>5
  <1>. QED
    BY <1>1, ClientInvariant, PTL

-----------------------------------------------------------------------------
(***************************************************************************)
(* Either implementation keeps the promise.                                *)
(***************************************************************************)
\* The promise of the store in use is stated with the same operations, too.
LEMMA StorageOperations ==
    /\ Storage!NoOp = NoOp /\ Storage!NoAnswer = NoAnswer
    /\ \A store, new : Storage!Put(store, new) = Put(store, new)
    /\ \A slice : Storage!LastOfEachKey(slice) = LastOfEachKey(slice)
    /\ \A slice : Storage!ToSet(slice) = ToSet(slice)
    /\ \A o, e : Storage!Matches(o, e) = Matches(o, e)
    /\ \A o, store : Storage!Selected(o, store) = Selected(o, store)
    /\ \A set : Storage!Cardinality(set) = Cardinality(set)
    /\ \A set : Storage!Min(set) = Min(set)
    /\ \A n, store, times :
            Storage!Counted(n, store, times) = Counted(n, store, times)
  <1>1. Storage!NoOp = NoOp /\ Storage!NoAnswer = NoAnswer
    BY DEF NoOp, NoAnswer, Storage!NoOp, Storage!NoAnswer
  <1>2. \A store, new : Storage!Put(store, new) = Put(store, new)
    BY DEF Put, SameKey, ResolutionRaw, Storage!Put, Storage!SameKey,
           Storage!ResolutionRaw
  <1>3. \A o, e : Storage!Matches(o, e) = Matches(o, e)
    BY DEF Matches, AnyResolution, Storage!Matches, Storage!AnyResolution
  <1>4. \A o, store : Storage!Selected(o, store) = Selected(o, store)
    BY DEF Selected, InRange, Storage!Selected, Storage!InRange
  <1>5. \A set : Storage!Cardinality(set) = Cardinality(set)
    BY DEF Cardinality, Storage!Cardinality
  <1>6. \A set : Storage!Min(set) = Min(set) /\ Storage!Max(set) = Max(set)
    BY DEF Min, Max, Storage!Min, Storage!Max
  <1>7. \A e : Storage!SeriesHash(e) = SeriesHash(e)
    BY DEF SeriesHash, ResolutionRaw, Storage!SeriesHash, Storage!ResolutionRaw
  <1>8. \A n, store, times :
            Storage!Counted(n, store, times) = Counted(n, store, times)
    BY <1>5, <1>6, <1>7 DEF Counted, Extremes, Storage!Counted, Storage!Extremes
  <1>9. \A slice : Storage!LastOfEachKey(slice) = LastOfEachKey(slice)
    BY DEF LastOfEachKey, SameKey, ResolutionRaw, Storage!LastOfEachKey, Storage!SameKey,
           Storage!ResolutionRaw
  <1>10. \A slice : Storage!ToSet(slice) = ToSet(slice)
    BY DEF ToSet, Storage!ToSet
  <1>. QED
    BY <1>1, <1>2, <1>3, <1>4, <1>5, <1>6, <1>8, <1>9, <1>10

\* For the Badger store it is the promise proved above.
LEMMA BadgerStorage ==
    ASSUME backend = "badger", UNCHANGED backend
    PROVE  [Promise!Next]_(Promise!vars) => [Storage!Next]_(Storage!vars)
  <1>. USE DEF InFlight, Applied
  <1>1. Contents = db /\ Contents' = db'
    BY DEF Contents
  <1>2. ASSUME NEW c \in Calls, NEW o \in Operations, Promise!Call(c, o)
        PROVE  Storage!Call(c, o)
    BY <1>1, <1>2 DEF Promise!Call, Storage!Call, Promise!Reply, Storage!Reply
  <1>3. ASSUME NEW c \in Calls, NEW o \in Operations, Promise!Refuse(c, o)
        PROVE  Storage!Refuse(c, o)
    BY <1>1, <1>3 DEF Promise!Refuse, Storage!Refuse, Promise!Reply, Storage!Reply
  <1>4. ASSUME NEW c \in Calls, Promise!TakeEffect(c)
        PROVE  Storage!TakeEffect(c)
    <2>1. op[c].kind = "write" /\ db' = Promise!Written(op[c]) =>
            Contents' = Storage!Written(op[c])
      BY <1>1, SameOperations, StorageOperations DEF Promise!Written, Storage!Written
    <2>2. Promise!Deleted(c, db') => Storage!Deleted(c, Contents')
      BY <1>1, SameOperations, StorageOperations DEF Promise!Deleted, Storage!Deleted
    <2>. QED
      BY <1>1, <1>4, <2>1, <2>2 DEF Promise!TakeEffect, Storage!TakeEffect
  <1>5. ASSUME NEW c \in Calls, Promise!Read(c)
        PROVE  Storage!Read(c)
    <2>1. \A o, a : Promise!Lists(o, a) => Storage!Lists(o, a)
      BY <1>1, SameOperations, StorageOperations DEF Promise!Lists, Storage!Lists
    <2>2. \A a : Promise!Counts(a) => Storage!Counts(a)
      BY <1>1, SameOperations, StorageOperations DEF Promise!Counts, Storage!Counts
    <2>. QED
      BY <1>1, <1>5, <2>1, <2>2 DEF Promise!Read, Storage!Read
  <1>6. ASSUME NEW c \in Calls, Promise!GiveUp(c)
        PROVE  Storage!GiveUp(c)
    BY <1>1, <1>6 DEF Promise!GiveUp, Storage!GiveUp
  <1>7. ASSUME NEW c \in Calls, Promise!Succeed(c)
        PROVE  Storage!Succeed(c)
    BY <1>1, <1>7, SameOperations, StorageOperations
       DEF Promise!Succeed, Storage!Succeed, Promise!Reply, Storage!Reply
  <1>8. ASSUME NEW c \in Calls, Promise!Fail(c)
        PROVE  Storage!Fail(c)
    BY <1>1, <1>8 DEF Promise!Fail, Storage!Fail, Promise!Reply, Storage!Reply
  <1>9. ASSUME Promise!Restart
        PROVE  Storage!Restart
    BY <1>1, <1>9 DEF Promise!Restart, Storage!Restart
  <1>10. ASSUME UNCHANGED Promise!vars
         PROVE  UNCHANGED Storage!vars
    BY <1>1, <1>10 DEF Promise!vars, Storage!vars
  <1>. QED
    BY <1>2, <1>3, <1>4, <1>5, <1>6, <1>7, <1>8, <1>9, <1>10 DEF Promise!Next, Storage!Next

\* Under the lock an update takes effect, or is refused, at one moment, and a query
\* reads what is there at one moment.
LEMMA MemoryStorage ==
    ASSUME CallsInvariant, MemoryIInv, backend = "memory", UNCHANGED backend,
           [MemoryNext]_<<calls, past, crashes, metrics>>
    PROVE  [Storage!Next]_(Storage!vars)
  <1>. USE DEF CallsInvariant, CallTypes
  <1>0. /\ Contents = Stored /\ Contents' = Stored'
        /\ Stored = ToSet(metrics) /\ Stored' = ToSet(metrics')
        /\ metrics \in Seq(Writable)
    BY DEF Contents, Stored, MemoryIInv
  <1>1. ASSUME NEW c \in Calls, NEW o \in Operations, MemoryCall(c, o)
        PROVE  Storage!Call(c, o)
    <2>1. job[c] = "none"
      BY <1>1 DEF MemoryCall, Call, Outcomes
    <2>2. InFlight' = InFlight \cup {c} /\ Applied' = Applied
      BY <1>1, <2>1 DEF MemoryCall, Call, Work, InFlight, Applied, Unfinished
    <2>. QED
      BY <1>0, <1>1, <2>2 DEF MemoryCall, Call, Reply, Remember, Storage!Call, Storage!Reply,
                              InFlight, Applied
  <1>2. ASSUME NEW c \in Calls, MemoryReturn(c)
        PROVE  Storage!Succeed(c) \/ Storage!Fail(c)
    <2>1. InFlight' = InFlight /\ Applied' = Applied
      BY <1>2 DEF MemoryReturn, Return, InFlight, Applied, Unfinished
    <2>2. job[c] = "done" => c \in Applied \/ answer[c] # Storage!NoAnswer
      BY StorageOperations DEF Outcomes, Applied
    <2>. QED
      BY <1>0, <1>2, <2>1, <2>2 DEF MemoryReturn, Return, Reply, past, InFlight, Applied,
            Storage!Succeed, Storage!Fail, Storage!Reply
  <1>3. ASSUME NEW c \in Calls,
               MemoryWrite(c) \/ MemoryDelete(c) \/ MemoryQuery(c) \/ MemoryStats(c)
        PROVE  /\ c \in InFlight /\ op[c] \in Operations
               /\ UNCHANGED <<op, caller, backend>>
               /\ present' = [d \in Calls |-> present[d] \cap Contents']
    BY <1>0, <1>3 DEF MemoryWrite, MemoryDelete, MemoryQuery, MemoryStats, UnderLock, Keep,
            InFlight, Unfinished, Outcomes
  <1>4. ASSUME NEW c \in Calls, NEW state \in {"done", "failed"}, Work(c, state),
               c \in InFlight, UNCHANGED op
        PROVE  /\ InFlight' = InFlight \ {c}
               /\ Applied' = IF state = "done" /\ IsUpdate(op[c])
                             THEN Applied \cup {c} ELSE Applied
    BY <1>4 DEF Work, InFlight, Applied, Unfinished
  <1>5. ASSUME NEW c \in Calls, MemoryWrite(c)
        PROVE  Storage!TakeEffect(c) \/ Storage!GiveUp(c)
    <2>1. op[c].kind = "write" /\ IsUpdate(op[c]) /\ UNCHANGED answer
      BY <1>5 DEF MemoryWrite, IsUpdate
    <2>2. CASE Exceeds(op[c].batch)
      <3>1. UNCHANGED metrics /\ Work(c, "failed")
        BY <1>5, <2>2 DEF MemoryWrite
      <3>2. Contents' = Contents /\ present' = present
        BY <1>0, <1>3, <1>5, <3>1
      <3>3. InFlight' = InFlight \ {c} /\ Applied' = Applied
        BY <1>3, <1>4, <1>5, <3>1
      <3>. QED
        BY <1>3, <1>5, <2>1, <3>2, <3>3 DEF Storage!GiveUp, InFlight, Applied
    <2>3. CASE ~ Exceeds(op[c].batch)
      <3>1. metrics' = Appended(op[c].batch) /\ Work(c, "done")
        BY <1>5, <2>3 DEF MemoryWrite
      <3>2. Contents' = Storage!Written(op[c])
        BY <1>0, <1>3, <1>5, <2>1, <3>1, SliceAppended, StorageOperations DEF Storage!Written
      <3>3. InFlight' = InFlight \ {c} /\ Applied' = Applied \cup {c}
        BY <1>3, <1>4, <1>5, <2>1, <3>1
      <3>. QED
        BY <1>3, <1>5, <2>1, <3>2, <3>3 DEF Storage!TakeEffect, InFlight, Applied
    <2>. QED
      BY <2>2, <2>3
  <1>6. ASSUME NEW c \in Calls, MemoryDelete(c)
        PROVE  Storage!TakeEffect(c)
    <2>1. /\ op[c].kind = "delete" /\ IsUpdate(op[c])
          /\ UNCHANGED answer /\ Work(c, "done") /\ metrics' = Remaining(op[c])
      BY <1>6 DEF MemoryDelete, IsUpdate
    <2>2. Contents' = {e \in Contents : ~ Matches(op[c], e)}
      BY <1>0, <2>1, SliceOperations
    <2>3. Storage!Deleted(c, Contents')
      BY <2>2, StorageOperations DEF Storage!Deleted
    <2>4. InFlight' = InFlight \ {c} /\ Applied' = Applied \cup {c}
      BY <1>3, <1>4, <1>6, <2>1
    <2>. QED
      BY <1>3, <1>6, <2>1, <2>3, <2>4 DEF Storage!TakeEffect, InFlight, Applied
  <1>7. ASSUME NEW c \in Calls, MemoryQuery(c) \/ MemoryStats(c)
        PROVE  Storage!Read(c)
    <2>1. /\ op[c].kind \in {"query", "stats"} /\ ~ IsUpdate(op[c])
          /\ UNCHANGED metrics /\ Work(c, "done")
      BY <1>7 DEF MemoryQuery, MemoryStats, IsUpdate
    <2>2. InFlight' = InFlight \ {c} /\ Applied' = Applied
      BY <1>3, <1>4, <1>7, <2>1
    <2>3. Contents' = Contents /\ present' = present
      BY <1>0, <1>3, <1>7, <2>1
    <2>4. answer' = [answer EXCEPT ![c] = answer'[c]]
      BY <1>7 DEF MemoryQuery, MemoryStats
    <2>5. \/ op[c].kind = "query" /\ Storage!Lists(op[c], answer'[c])
          \/ op[c].kind = "stats" /\ Storage!Counts(answer'[c])
      <3>1. CASE MemoryQuery(c)
        <4>1. op[c].kind = "query" /\ answer'[c] = Found(ToSet(Filter(op[c])))
          BY <3>1 DEF MemoryQuery
        <4>2. op[c].limit \in Nat
          BY <1>3, <1>7, <4>1, OperationsFit
        <4>3. Storage!Lists(op[c], Found(ToSet(Filter(op[c]))))
          BY <1>0, <4>2, SliceOperations, StorageOperations DEF Storage!Lists, Found
        <4>. QED
          BY <4>1, <4>3
      <3>2. CASE MemoryStats(c)
        <4>1. op[c].kind = "stats"
              /\ answer'[c] = Counted(Len(metrics), Contents, {e.ts : e \in Contents})
          BY <1>0, <3>2 DEF MemoryStats
        <4>2. Cardinality(Contents) <= Len(metrics) /\ Cardinality(Contents) \in Nat
              /\ Len(metrics) \in Nat
          BY <1>0, ElementCount, FS_CardinalityType
        <4>3. answer'[c].kind = "stats" /\ answer'[c].total = Len(metrics)
          BY <4>1 DEF Counted
        <4>. QED
          BY <4>1, <4>2, <4>3, StorageOperations DEF Storage!Counts
      <3>. QED
        BY <1>7, <3>1, <3>2
    <2>. QED
      BY <1>3, <1>7, <2>1, <2>2, <2>3, <2>4, <2>5 DEF Storage!Read, InFlight, Applied,
            MemoryQuery, MemoryStats, UnderLock
  <1>8. ASSUME MemoryCrash
        PROVE  Storage!Restart
    <2>1. Contents' = {}
      BY <1>0, <1>8 DEF MemoryCrash, ToSet
    <2>2. InFlight' = {} /\ Applied' = Applied
      BY <1>8 DEF MemoryCrash, CallsLost, InFlight, Applied, Unfinished
    <2>. QED
      BY <1>8, <2>1, <2>2 DEF MemoryCrash, CallsLost, Keep, Storage!Restart, InFlight, Applied
  <1>9. ASSUME UNCHANGED <<calls, past, crashes, metrics>>
        PROVE  UNCHANGED Storage!vars
    BY <1>0, <1>9 DEF calls, past, Storage!vars, Unfinished
  <1>. QED
    BY <1>1, <1>2, <1>5, <1>6, <1>7, <1>8, <1>9 DEF MemoryNext, MemoryStep, Storage!Next

\* The store is empty at first in the promise, too.
LEMMA StorageInit == Init => Storage!Init
  <1>. SUFFICES ASSUME Init PROVE Storage!Init
    OBVIOUS
  <1>1. Contents = {} /\ (backend = "badger") \in BOOLEAN
    BY DEF Init, Contents, Stored, ToSet, BadgerInit
  <1>. QED
    BY <1>1, StorageOperations DEF Init, BadgerInit, CallsInit, Storage!Init, Unfinished

\* Either implementation keeps what storage.Storage promises its callers, whatever calls
\* overlap, run out of time or are cut off by a restart.
THEOREM StoreKeepsPromise == Spec => ImplementsStorage
  <1>1. ClientIInv /\ [Next]_vars => [Storage!Next]_(Storage!vars)
    <2>. SUFFICES ASSUME ClientIInv, [Next]_vars PROVE [Storage!Next]_(Storage!vars)
      OBVIOUS
    <2>1. UNCHANGED backend /\ backend \in {"badger", "memory"}
      BY BackendStep DEF ClientIInv, CallsInvariant, CallTypes
    <2>2. CASE backend = "badger"
      BY <2>1, <2>2, BackendStep, StepRefines, BadgerStorage DEF ClientIInv
    <2>3. CASE backend = "memory"
      BY <2>1, <2>3, BackendStep, MemoryStorage DEF ClientIInv
    <2>. QED
      BY <2>1, <2>2, <2>3
  <1>. QED
    BY <1>1, StorageInit, ClientInvariant, PTL DEF Spec, Storage!Spec, ImplementsStorage
=============================================================================
