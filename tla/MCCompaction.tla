---------------------------- MODULE MCCompaction ----------------------------
(***************************************************************************)
(* Instances of Compaction for TLC.  One clock unit stands for the finest  *)
(* distinction the windows make; the two bucket widths, the delays, the    *)
(* lookbacks and the retentions keep the order they have in the code.      *)
(***************************************************************************)
EXTENDS Compaction, TLC

CONSTANTS s1, c1, c2

MCSeries == {s1}
MCUserSeries == [s \in MCSeries |-> s]
MCSeriesKeys == [s \in MCSeries |-> <<s>>]
OneCompactor == {c1}
TwoCompactors == {c1, c2}
CompactorSymmetry == Permutations(TwoCompactors)

\* Every sample has the same value, as an idle gauge has.
ConstantValues == [t \in SampleTimes |-> {1}]

\* A gauge at rest, that may have moved once: aggregates of one sample each
\* are then equal or differ.
RestingValues == [t \in SampleTimes |-> IF t = 1 THEN {1, 2} ELSE {1}]

\* Different samples, hence different sets of samples, have different sums.
DistinctValues == [t \in SampleTimes |-> {2 ^ t}]

EveryInstant == 0 .. MaxClock

\* Scheduled runs.  A window then ends in the middle of a 4-unit bucket and
\* never at the timestamp of a sample.
HourlySchedule == {i \in 0 .. MaxClock : i % 4 = 0}
OddTimes == {1, 3, 5}
EarlyTimes == {0, 1, 3}
=============================================================================
