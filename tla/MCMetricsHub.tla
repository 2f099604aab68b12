---------------------------- MODULE MCMetricsHub ----------------------------
(***************************************************************************)
(* Small instances of MetricsHub for TLC.                                  *)
(***************************************************************************)
EXTENDS MetricsHub

CONSTANTS c1, c2

TwoConns == {c1, c2}
=============================================================================
