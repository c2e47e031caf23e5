------------------------------ MODULE LeafScan ------------------------------
(***************************************************************************)
(* Range scans over the leaves of one layer (src/masstree_scan.hh), run    *)
(* against the inserts and removes of LeafLink.  A scan takes no lock: it  *)
(* reads a leaf's version, then its permutation, and emits an item only if *)
(* the version has not changed since.                                      *)
(***************************************************************************)
EXTENDS LeafLink

VARIABLES
  reverse,     \* the scans that use reverse_scan_helper (rscan)
  at,          \* [Scans -> leaf or NoLeaf]: n_
  spc,         \* [Scans -> ScanPCs]
  ka,          \* [Scans -> Int]: the key last emitted, or a leaf's bound
  open,        \* scans whose ka is a leaf's bound (ka.length() == 0)
  gone,        \* scans whose v_ has deleted_bit
  snap,        \* [Scans -> set of keys]: perm_
  missing      \* history: [Scans -> keys in the table ever since it began
               \* and not emitted yet]

scanVars == <<reverse, at, spc, ka, open, gone, snap, missing>>
vars == <<linkVars, scanVars>>

ScanPCs == {"start", "retry", "leaf", "advance", "stable", "hop", "done"}

(* The keys of the table.                                                  *)
Present == UNION {perm[n] : n \in used}

(* has_changed: another version than the one the scan read.                *)
Unchanged(s) == <<s, at[s]>> \in watch
Watch(s, n) == watch' = {w \in watch : w[1] # s} \cup {<<s, n>>}

(* The items of perm_ that is_duplicate does not skip.                    *)
Rest(s) == {j \in snap[s] : IF s \in reverse THEN j < ka[s] ELSE j > ka[s]}
Nearest(s, j) == \A i \in Rest(s) : IF s \in reverse THEN i <= j ELSE j <= i

(* find_initial and find_retry: the leaf for ka, a stable version of it    *)
(* and its permutation.                                                    *)
Find(s) == \E n \in tree :
  /\ spc[s] \in {"start", "retry"}
  /\ Reaches(ka[s], n) /\ n \notin dirty \cup deleted
  /\ at' = [at EXCEPT ![s] = n] /\ Watch(s, n) /\ gone' = gone \ {s}
  /\ snap' = [snap EXCEPT ![s] = perm[n]]
  /\ missing' = IF spc[s] = "start" THEN [missing EXCEPT ![s] = Present] ELSE missing
  /\ spc' = [spc EXCEPT ![s] = "leaf"]
  /\ UNCHANGED <<ka, open>>

(* find_next with an item left: it is emitted.                             *)
Emit(s) == \E j \in Rest(s) :
  /\ spc[s] = "leaf" /\ s \notin gone /\ Nearest(s, j) /\ Unchanged(s)
  /\ missing' = [missing EXCEPT ![s] = @ \ {j}]
  /\ ka' = [ka EXCEPT ![s] = j] /\ open' = open \ {s}
  /\ UNCHANGED <<watch, at, spc, gone, snap>>

(* ... with none: the version is checked, then the scan moves on.          *)
LeafDone(s) ==
  /\ spc[s] = "leaf" /\ s \notin gone /\ Rest(s) = {} /\ Unchanged(s)
  /\ spc' = [spc EXCEPT ![s] = "advance"]
  /\ UNCHANGED <<watch, at, ka, open, gone, snap, missing>>

(* ... of a leaf that changed: back to a stable version of it.             *)
Changed(s) ==
  /\ spc[s] = "leaf" /\ s \notin gone /\ ~Unchanged(s)
  /\ spc' = [spc EXCEPT ![s] = "stable"]
  /\ UNCHANGED <<watch, at, ka, open, gone, snap, missing>>

(* ... of a deleted leaf: scan_retry.                                      *)
Retry(s) ==
  /\ spc[s] = "leaf" /\ s \in gone
  /\ spc' = [spc EXCEPT ![s] = "retry"]
  /\ UNCHANGED <<watch, at, ka, open, gone, snap, missing>>

(* helper.advance: safe_next, or prev_ with ka moved to the bound.         *)
Advance(s) ==
  LET to == IF s \in reverse THEN prev[at[s]] ELSE next[at[s]] IN
  /\ spc[s] = "advance"
  /\ IF s \in reverse
       THEN ka' = [ka EXCEPT ![s] = bound[at[s]]] /\ open' = open \cup {s}
       ELSE UNCHANGED <<ka, open>>
  /\ at' = [at EXCEPT ![s] = to]
  /\ spc' = [spc EXCEPT ![s] = IF to = NoLeaf THEN "done" ELSE "stable"]
  /\ snap' = [snap EXCEPT ![s] = {}] /\ watch' = {w \in watch : w[1] # s}
  /\ UNCHANGED <<gone, missing>>

(* helper.stable waits for a clean version; forward scans then take the    *)
(* permutation.                                                            *)
Stable(s) ==
  /\ spc[s] = "stable" /\ at[s] \notin dirty
  /\ Watch(s, at[s])
  /\ gone' = IF at[s] \in deleted THEN gone \cup {s} ELSE gone \ {s}
  /\ IF s \in reverse
       THEN spc' = [spc EXCEPT ![s] = "hop"] /\ UNCHANGED snap
       ELSE spc' = [spc EXCEPT ![s] = "leaf"] /\ snap' = [snap EXCEPT ![s] = perm[at[s]]]
  /\ UNCHANGED <<at, ka, open, missing>>

(* reverse_scan_helper::stable: a leaf split off on the right of this one  *)
(* is the place to go on as long as its bound is below ka.                 *)
MutStaysLeftOf(s, n) == TRUE
StaysLeftOf(s, n) == ka[s] < bound[n] \/ (ka[s] = bound[n] /\ s \in open)
Hop(s) ==
  LET n == next[at[s]] IN
  /\ spc[s] = "hop"
  /\ IF n = NoLeaf \/ StaysLeftOf(s, n)
       THEN /\ spc' = [spc EXCEPT ![s] = "leaf"]
            /\ snap' = [snap EXCEPT ![s] = perm[at[s]]]
            /\ UNCHANGED at
       ELSE /\ spc' = [spc EXCEPT ![s] = "stable"]
            /\ at' = [at EXCEPT ![s] = n]
            /\ UNCHANGED snap
  /\ UNCHANGED <<watch, ka, open, gone, missing>>

-----------------------------------------------------------------------------
(* A forward scan starts below every key, a reverse one above.             *)
Init ==
  /\ LinkInit
  /\ reverse \in SUBSET Scans
  /\ at = [s \in Scans |-> NoLeaf] /\ spc = [s \in Scans |-> "start"]
  /\ ka = [s \in Scans |-> IF s \in reverse THEN MaxKey + 1 ELSE 0]
  /\ open = {} /\ gone = {}
  /\ snap = [s \in Scans |-> {}]
  /\ missing = [s \in Scans |-> {}]

ScanStep(s) ==
  /\ Find(s) \/ Emit(s) \/ LeafDone(s) \/ Changed(s) \/ Retry(s) \/ Advance(s)
       \/ Stable(s) \/ Hop(s)
  /\ UNCHANGED <<next, marked, prev, bound, perm, used, deleted, dirty, shrunk, tree, locals, reverse>>

Update ==
  /\ LinkNext
  /\ missing' = [s \in Scans |-> missing[s] \cap Present']
  /\ UNCHANGED <<reverse, at, spc, ka, open, gone, snap>>

Next == Update \/ \E s \in Scans : ScanStep(s)

Spec == Init /\ [][Next]_vars

-----------------------------------------------------------------------------
(* A scan that reaches the end of the list has emitted every key that was  *)
(* in the table all along, whatever splits and removals of leaves it met   *)
(* (find_next): a forward scan along next_, and a reverse scan along       *)
(* prev_, which arrives left of leaves that were split meanwhile.          *)
ScansComplete == \A s \in Scans : spc[s] = "done" => missing[s] = {}
=============================================================================
