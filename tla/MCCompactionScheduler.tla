----------------------- MODULE MCCompactionScheduler -----------------------
(***************************************************************************)
(* Small instances of CompactionScheduler for TLC.                         *)
(***************************************************************************)
EXTENDS CompactionScheduler

CONSTANTS h1, h2

TwoRequests == {h1, h2}
OneRequest == {h1}
=============================================================================
