--------------------------- MODULE MCStoreClients ---------------------------
(***************************************************************************)
(* An instance of StoreClients for TLC.  The backup holds three samples,   *)
(* one of which is refused, in batches of one: a retry of the import has a *)
(* call left for its first batch.  Beside it a request overwrites one of   *)
(* its keys and sends a sample of another series whose labels join to the  *)
(* same string, the compactor deletes raw samples, and one call reads: an  *)
(* export, a limited query or a count.                                     *)
(***************************************************************************)
EXTENDS StoreClients

CONSTANTS i1, i2, w, d, q, s1, s2, s3

MCCalls == {i1, i2, w, d, q}
MCImportCalls == <<i1, i2>>

\* Series s3 has other labels than s1, joined to the same string.
MCSeriesKeys == [s \in {s1, s2, s3} |-> IF s = s3 THEN s1 ELSE s]

MCContexts ==
    [c \in MCCalls |->
        CASE c = w -> "deadline"
          [] c = d -> "background"
          [] OTHER -> "request"]

MCBackup == <<RawEntry(s1, 1, 1), RawEntry(s1, 9, 1), RawEntry(s2, 2, 1)>>
MCImportable == {e \in {MCBackup[i] : i \in 1 .. 3} : e.ts < 5}

Posted == <<RawEntry(s1, 1, 2), RawEntry(s1, 2, 2), RawEntry(s3, 2, 1)>>

MCAsks ==
    [c \in {w, d, q} |->
        CASE c = w -> {WriteOf(Posted)}
          [] c = d -> {DeleteOf(2, ResolutionRaw)}
          [] c = q -> {QueryOf({s1, s2}, 1, 2, 0), QueryOf({s1}, 1, 2, 1), CountOf}]

MCOperations ==
    UNION {MCAsks[c] : c \in DOMAIN MCAsks}
        \cup {WriteOf(<<MCBackup[1]>>), WriteOf(<<MCBackup[3]>>)}
=============================================================================
