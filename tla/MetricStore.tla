---------------------------- MODULE MetricStore ----------------------------
(***************************************************************************)
(* What storage.Storage promises to its callers, whatever is behind it.    *)
(*                                                                         *)
(* An update takes effect at most once, in one piece, at some moment after *)
(* it is called.  Success is reported only afterwards; a failure says      *)
(* nothing: the update may have taken effect, may still do so, or never    *)
(* will.  A query is answered from the contents of one moment between its  *)
(* call and its answer.  A deletion removes only what it matches, and all  *)
(* of that which was there from the call on.  A restart ends every call in *)
(* flight.                                                                 *)
(*                                                                         *)
(* A durable store keeps one entry per key and survives a restart; the     *)
(* other is a list in memory, where a key can have several entries.        *)
(***************************************************************************)
EXTENDS StoreOperations

CONSTANTS
    Calls,        \* the calls made on the store, one operation each
    Operations    \* what may be asked of it

VARIABLES
    contents,     \* the entries stored
    durable,      \* which of the two stores it is
    op,           \* per call: what was asked
    caller,       \* per call: what its caller knows
    inFlight,     \* calls that may still take effect
    applied,      \* updates that have
    answer,       \* per call: what a query found
    present       \* per deletion: entries stored ever since it was called

vars == <<contents, durable, op, caller, inFlight, applied, answer, present>>

Reply(c, outcome) == caller' = [caller EXCEPT ![c] = outcome]

Init ==
    /\ contents = {}
    /\ durable \in BOOLEAN
    /\ op = [c \in Calls |-> NoOp]
    /\ caller = [c \in Calls |-> "new"]
    /\ inFlight = {}
    /\ applied = {}
    /\ answer = [c \in Calls |-> NoAnswer]
    /\ present = [c \in Calls |-> {}]

Call(c, o) ==
    /\ caller[c] = "new"
    /\ op' = [op EXCEPT ![c] = o]
    /\ Reply(c, "waiting")
    /\ inFlight' = inFlight \cup {c}
    /\ present' = [present EXCEPT ![c] = IF o.kind = "delete" THEN contents ELSE {}]
    /\ UNCHANGED <<contents, durable, applied, answer>>

\* The call is turned down at once.
Refuse(c, o) ==
    /\ caller[c] = "new"
    /\ op' = [op EXCEPT ![c] = o]
    /\ Reply(c, "error")
    /\ present' = [present EXCEPT ![c] = IF o.kind = "delete" THEN contents ELSE {}]
    /\ UNCHANGED <<contents, durable, inFlight, applied, answer>>

\* What a write makes of the contents.
Written(o) ==
    IF durable THEN Put(contents, LastOfEachKey(o.batch)) ELSE contents \cup ToSet(o.batch)

Deleted(c, new) ==
    /\ new \subseteq contents
    /\ \A e \in contents \ new : Matches(op[c], e)
    /\ \A e \in present[c] \cap new : ~ Matches(op[c], e)

TakeEffect(c) ==
    /\ c \in inFlight
    /\ inFlight' = inFlight \ {c}
    /\ applied' = applied \cup {c}
    /\ \/ op[c].kind = "write" /\ contents' = Written(op[c])
       \/ op[c].kind = "delete" /\ Deleted(c, contents')
    /\ present' = [d \in Calls |-> present[d] \cap contents']
    /\ UNCHANGED <<durable, op, caller, answer>>

\* A limited query may leave out entries, once it has found as many as it may.
Lists(o, a) ==
    LET all == Selected(o, contents)
    IN  /\ a.kind = "entries"
        /\ a.entries \subseteq all
        /\ o.limit = 0 => a.entries = all
        /\ o.limit # 0 => Cardinality(a.entries) <= o.limit
        /\ durable /\ o.limit # 0 =>
                Cardinality(a.entries) = Min({o.limit, Cardinality(all)})

Counts(a) ==
    /\ a.kind = "stats"
    /\ a = Counted(a.total, contents, {e.ts : e \in contents})
    /\ a.total >= Cardinality(contents)
    /\ durable => a.total = Cardinality(contents)

\* A query reads; it may read again, and answers with what it read last.
Read(c) ==
    /\ c \in inFlight
    /\ answer' = [answer EXCEPT ![c] = answer'[c]]
    /\ \/ op[c].kind = "query" /\ Lists(op[c], answer'[c])
       \/ op[c].kind = "stats" /\ Counts(answer'[c])
    /\ inFlight' \in {inFlight, inFlight \ {c}}
    /\ UNCHANGED <<contents, durable, op, caller, applied, present>>

\* The call will not take effect any more.
GiveUp(c) ==
    /\ c \in inFlight
    /\ inFlight' = inFlight \ {c}
    /\ UNCHANGED <<contents, durable, op, caller, applied, answer, present>>

Succeed(c) ==
    /\ caller[c] = "waiting"
    /\ c \in applied \/ answer[c] # NoAnswer
    /\ Reply(c, "ok")
    /\ UNCHANGED <<contents, durable, op, inFlight, applied, answer, present>>

Fail(c) ==
    /\ caller[c] = "waiting"
    /\ Reply(c, "error")
    /\ UNCHANGED <<contents, durable, op, inFlight, applied, answer, present>>

Restart ==
    /\ contents' = IF durable THEN contents ELSE {}
    /\ caller' = [c \in Calls |-> IF caller[c] = "waiting" THEN "error" ELSE caller[c]]
    /\ inFlight' = {}
    /\ present' = [c \in Calls |-> present[c] \cap contents']
    /\ UNCHANGED <<durable, op, applied, answer>>

Next ==
    \/ \E c \in Calls :
        \/ \E o \in Operations : Call(c, o) \/ Refuse(c, o)
        \/ TakeEffect(c) \/ Read(c) \/ GiveUp(c) \/ Succeed(c) \/ Fail(c)
    \/ Restart

Spec == Init /\ [][Next]_vars
=============================================================================
