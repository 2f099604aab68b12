---------------------------- MODULE MCSdkMetrics ----------------------------
(***************************************************************************)
(* A small instance of SdkMetrics for TLC: a counter called twice, and a   *)
(* histogram of one bucket, observed at its bound and above, with labels   *)
(* and without, that sends one report.                                     *)
(***************************************************************************)
EXTENDS SdkMetrics

CONSTANTS a1, a2, h1, o1, o2, o3, Observations, labels, none

MCMetrics      == {a1, a2, h1}
MCReportMetric == [n \in {1} |-> h1]
MCObserved     == [o \in Observations |-> IF o = o1 THEN 2 ELSE 3]
\* One goroutine observes, in this order.
MCBefore       == [o \in Observations |-> CASE o = o1 -> {} [] o = o2 -> {o1} [] o = o3 -> {o1, o2}]
MCLabels       == [o \in Observations |-> IF o = o3 THEN none ELSE labels]
=============================================================================
