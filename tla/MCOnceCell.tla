----------------------------- MODULE MCOnceCell -----------------------------
(* The lazy cell with three threads: one that constructs, two that race.    *)
EXTENDS OnceCell
CONSTANTS t1, t2, t3

ThreeThreads == {t1, t2, t3}
=============================================================================
