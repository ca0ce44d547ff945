----------------------------- MODULE MCOsalCond -----------------------------
(* Three threads: two may wait while the third sets.                       *)
EXTENDS OsalCond

CONSTANTS t1, t2, t3

ThreeThreads == {t1, t2, t3}
=============================================================================
