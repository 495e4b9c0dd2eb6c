-------------------------------- MODULE MCWal --------------------------------
(* Wal for TLC.                                                            *)
EXTENDS Wal, TLC

CONSTANTS t1, t2
MCThreads == {t1, t2}

\* Exactly half a segment, and less: a segment ends full, or with a gap.
HalfOrLess == {4, 5}
=============================================================================
