----------------------------- MODULE MCJobQueue -----------------------------
(* Small instances of JobQueue for TLC; see the cfg files that use it.      *)
EXTENDS JobQueue

CONSTANTS j1, j2, k1, k2, w1, w2
=============================================================================
