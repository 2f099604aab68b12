----------------------------- MODULE StoreCalls -----------------------------
(***************************************************************************)
(* The calls made on a store, as both implementations of storage.Storage   *)
(* see them.  Each call is made once, by a goroutine of its own.           *)
(*                                                                         *)
(* A name ending in "_" and a word is a mutated form of the next           *)
(* definition, used to show that a property can fail.                      *)
(***************************************************************************)
EXTENDS StoreOperations

CONSTANTS
    Calls,         \* the calls made on the store, one operation each
    contextOf,     \* of each call: the kind of context it is made with
    MaxCrashes     \* bound: how often the server restarts

VARIABLES
    op,            \* per call: what was asked
    caller,        \* per call: what its caller knows
    job,           \* per call: how far the work behind it is
    answer,        \* per call: what a query or a count found
    crashes,
    present,       \* auxiliary, per deletion: entries stored ever since the call
    over           \* auxiliary, per write: updates whose work had ended by then

\* The handlers of ingest and of the dashboard give their calls a deadline; queries,
\* import and export pass on the context of the request, which ends with the
\* connection and not before; the compactor's is context.Background(), which
\* never ends.
ASSUME ContextConstants == contextOf \in [Calls -> {"deadline", "request", "background"}]

MayEnd(c) == contextOf[c] # "background"

calls == <<op, caller, job, answer>>
past  == <<present, over>>

CallsInit ==
    /\ op = [c \in Calls |-> NoOp]
    /\ caller = [c \in Calls |-> "new"]
    /\ job = [c \in Calls |-> "none"]
    /\ answer = [c \in Calls |-> NoAnswer]
    /\ crashes = 0
    /\ present = [c \in Calls |-> {}]
    /\ over = [c \in Calls |-> {}]

Reply(c, outcome) == caller' = [caller EXCEPT ![c] = outcome]

Work(c, state) == job' = [job EXCEPT ![c] = state]

Unfinished(c) == job[c] \in {"running", "open"}

\* What was so when the call was made.
Remember(c, o, contents) ==
    LET noted(kind, set) == IF o.kind = kind THEN set ELSE {}
        updates == {d \in Calls \ {c} : IsUpdate(op[d])}
    IN  /\ present' = [present EXCEPT ![c] = noted("delete", contents)]
        /\ over' = [over EXCEPT ![c] = noted("write", {d \in updates : ~ Unfinished(d)})]

\* An update changes the contents.
Keep(contents) == present' = [d \in Calls |-> present[d] \cap contents]

Call(c, o, contents) ==
    /\ caller[c] = "new"
    /\ op' = [op EXCEPT ![c] = o]
    /\ Reply(c, "waiting")
    /\ Work(c, "running")
    /\ Remember(c, o, contents)
    /\ UNCHANGED <<answer, crashes>>

\* The caller takes the result of the work.
Return(c) ==
    /\ caller[c] = "waiting"
    /\ \/ job[c] = "done" /\ Reply(c, "ok")
       \/ job[c] = "failed" /\ Reply(c, "error")
    /\ UNCHANGED <<op, job, answer, crashes, past>>

\* The process dies: what is not done will not be.
CallsLost ==
    /\ crashes < MaxCrashes
    /\ crashes' = crashes + 1
    /\ caller' = [c \in Calls |-> IF caller[c] = "waiting" THEN "error" ELSE caller[c]]
    /\ job' = [c \in Calls |-> IF Unfinished(c) THEN "failed" ELSE job[c]]
    /\ UNCHANGED <<op, answer, over>>
=============================================================================
