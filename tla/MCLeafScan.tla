----------------------------- MODULE MCLeafScan -----------------------------
(* The leaf list with one scan, forward or reverse.                        *)
EXTENDS LeafScan, TLC

CONSTANTS t1, t2, a, b, c, s

Symmetric == Permutations(Threads)
=============================================================================
