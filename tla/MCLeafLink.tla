----------------------------- MODULE MCLeafLink -----------------------------
(* The leaf list without readers: three threads that insert and remove.    *)
EXTENDS LeafLink

CONSTANTS t1, t2, t3, a, b, c, d
=============================================================================
