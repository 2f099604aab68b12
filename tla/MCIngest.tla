------------------------------ MODULE MCIngest ------------------------------
(***************************************************************************)
(* An instance of Ingest for TLC: two requests at a time, batches of at    *)
(* most two metrics, limits of two series and of one per metric name.      *)
(* Enough series exist to exceed both bounds of SeenBounded by one: six in *)
(* all, five of one name.  The batches hold new series, shared ones, a     *)
(* repeated one and one of either name.  In MCNameInKey the name m2 is     *)
(* m1, a comma and more, so a rebuild reads it as m1.                      *)
(***************************************************************************)
EXTENDS Ingest, TLC

CONSTANTS m1, m2, a, b, c, d, e, f, g, r1, r2

MCMetricNames == {m1, m2}
MCSeries == {a, b, c, d, e, f, g}
MCNameOf == [s \in MCSeries |-> IF s \in {f, g} THEN m2 ELSE m1]
MCRequests == {r1, r2}
MCBatches == {<<e, e>>, <<a, b>>, <<c, d>>, <<f, g>>, <<a, f>>, << >>}
MCNameInKey == [s \in MCSeries |-> m1]

Symmetry == Permutations(MCRequests)
=============================================================================
