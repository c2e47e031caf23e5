------------------------------ MODULE LeafLink ------------------------------
(***************************************************************************)
(* The leaves of one tree layer and the doubly linked list they form       *)
(* (btree_leaflink<N, true> in src/btree_leaflink.hh), with the inserts    *)
(* that split a leaf (src/masstree_insert.hh, src/masstree_split.hh) and   *)
(* the removes that take an empty leaf out (src/masstree_remove.hh).       *)
(*                                                                         *)
(* A leaf's next_ pointer carries a mark bit that serves as the lock of    *)
(* that pointer; link_split and unlink of different leaves run             *)
(* concurrently, and readers follow next_ and prev_ without any lock.      *)
(* Every load, store and compare-and-swap of a shared pointer is one step. *)
(*                                                                         *)
(* Abstracted: the slots of a leaf (an insert finds a free slot or splits, *)
(* and a split may choose any mid point: a superset of what the 15 slots   *)
(* allow) and the internodes (reach_leaf finds the leaf in the tree with   *)
(* the largest bound not above the key).                                   *)
(***************************************************************************)
EXTENDS Integers

CONSTANTS
  Threads,     \* threads that insert and remove keys
  Leaves,      \* leaves ever allocated: each is used once
  First,       \* the layer's first leaf
  NoLeaf,      \* the null pointer
  Scans,       \* readers that scan the leaves (module LeafScan)
  MaxKey       \* bound: keys are 1..MaxKey

ASSUME LeafLinkAssumption ==
  First \in Leaves /\ NoLeaf \notin Leaves /\ MaxKey \in Nat \ {0}

VARIABLES
  next,        \* [Leaves -> leaf or NoLeaf]: next_.ptr without the mark bit
  marked,      \* the leaves whose next_.ptr has the mark bit
  prev,        \* [Leaves -> leaf or NoLeaf]: prev_
  bound,       \* [Leaves -> 0..MaxKey]: ikey_bound(), 0 for the first leaf
  perm,        \* [Leaves -> set of keys]: what permutation_ makes visible
  used,        \* leaves allocated so far
  deleted,     \* leaves whose version has deleted_bit
  dirty,       \* leaves whose version has inserting_bit or splitting_bit
  shrunk,      \* leaves with modstate_ == modstate_remove
  tree,        \* leaves some internode (or the root pointer) refers to
  watch,       \* <<scan, leaf>>: the scan's v_ is still the leaf's version
  pc,          \* [Threads -> PCs]
  node, made,  \* the leaf a thread works on, and the one it split off
  key,         \* the key it inserts
  succ, pred   \* local variables next and prev of link_split and unlink

links == <<next, marked, prev>>
versions == <<deleted, dirty, shrunk, watch>>
locals == <<pc, node, made, key, succ, pred>>
linkVars == <<next, marked, prev, bound, perm, used, deleted, dirty, shrunk, tree,
              watch, pc, node, made, key, succ, pred>>

Keys == 1..MaxKey
Pointer == Leaves \cup {NoLeaf}

PCs == {"idle", "split_lock", "split_back", "split_fwd", "split_parent",
        "split_strip", "split_release", "split_finish",
        "unlink_lock", "unlink_read", "unlink_cas", "unlink_back", "unlink_fwd",
        "unlink_parent"}

(* A leaf lock is held by the thread that works on the leaf; the thread    *)
(* that split a leaf holds both halves until it releases one of them.      *)
Locks(t) ==
  CASE pc[t] = "idle" -> {}
    [] pc[t] = "split_finish" -> IF key[t] < bound[made[t]] THEN {node[t]} ELSE {made[t]}
    [] OTHER -> {node[t], made[t]}

Locked(n) == \E t \in Threads : n \in Locks(t)

(* A change of a leaf's version is seen by every scan that holds it.       *)
Touch(n) == watch' = {w \in watch : w[2] # n}

(* reach_leaf and advance_to_key: n is the leaf responsible for key k.     *)
Reaches(k, n) == /\ n \in tree /\ bound[n] <= k
                 /\ \A m \in tree : bound[m] <= k => bound[m] <= bound[n]

(* The leaf find_locked finds and locks for key k.                         *)
Owner(k, n) == Reaches(k, n) /\ ~Locked(n) /\ n \notin deleted

(* leaf::make.  Fresh leaves are alike, so one of them stands for all.     *)
Fresh == IF used = Leaves THEN NoLeaf ELSE CHOOSE n \in Leaves : n \notin used

Goto(t, to) == pc' = [pc EXCEPT ![t] = to]

(* The operation returns and its local variables are gone.                 *)
Return(t) ==
  /\ pc' = [pc EXCEPT ![t] = "idle"]
  /\ node' = [node EXCEPT ![t] = NoLeaf] /\ made' = [made EXCEPT ![t] = NoLeaf]
  /\ key' = [key EXCEPT ![t] = 1]
  /\ succ' = [succ EXCEPT ![t] = NoLeaf] /\ pred' = [pred EXCEPT ![t] = NoLeaf]

-----------------------------------------------------------------------------
(* Inserts.                                                                *)

(* find_insert, the key finds a slot: only a change of modstate_ shows in  *)
(* the version.                                                            *)
Insert(t, n, k) ==
  /\ pc[t] = "idle" /\ Owner(k, n) /\ k \notin perm[n]
  /\ perm' = [perm EXCEPT ![n] = @ \cup {k}]
  /\ IF n \in shrunk THEN Touch(n) ELSE UNCHANGED watch
  /\ shrunk' = shrunk \ {n}
  /\ UNCHANGED <<links, bound, used, deleted, dirty, tree, locals>>

(* The new leaf nr gets the items from b on, and n keeps them for now.     *)
SplitPerm(n, nr, b) == [perm EXCEPT ![nr] = {j \in perm[n] : j >= b}]

(* make_split up to link_split: nr gets the version of n, and the inserted *)
(* key stays invisible.                                                    *)
SplitBegin(t, n, k, b) ==
  LET nr == Fresh IN
  /\ pc[t] = "idle" /\ Owner(k, n) /\ k \notin perm[n]
  /\ nr # NoLeaf
  /\ b \in perm[n] \cup {k} /\ \E j \in perm[n] \cup {k} : j < b
  /\ used' = used \cup {nr}
  /\ bound' = [bound EXCEPT ![nr] = b]
  /\ perm' = SplitPerm(n, nr, b)
  /\ prev' = [prev EXCEPT ![nr] = n]
  /\ dirty' = IF n \in shrunk THEN dirty \cup {n, nr} ELSE dirty
  /\ IF n \in shrunk THEN Touch(n) ELSE UNCHANGED watch
  /\ shrunk' = shrunk \ {n}
  /\ node' = [node EXCEPT ![t] = n] /\ made' = [made EXCEPT ![t] = nr]
  /\ key' = [key EXCEPT ![t] = k]
  /\ Goto(t, "split_lock")
  /\ UNCHANGED <<next, marked, deleted, tree, succ, pred>>

(* lock_next: returns at once on a null pointer, without marking it; a     *)
(* marked pointer makes the caller spin.                                   *)
MutCanLockNext(n) == TRUE
CanLockNext(n) == next[n] = NoLeaf \/ n \notin marked
LockNext(n) ==
  /\ CanLockNext(n)
  /\ marked' = IF next[n] = NoLeaf THEN marked ELSE marked \cup {n}

SplitLock(t) ==
  /\ pc[t] = "split_lock"
  /\ LockNext(node[t])
  /\ succ' = [succ EXCEPT ![t] = next[node[t]]]
  /\ next' = [next EXCEPT ![made[t]] = next[node[t]]]
  /\ Goto(t, "split_back")
  /\ UNCHANGED <<prev, bound, perm, used, versions, tree, node, made, key, pred>>

(* A successor's prev_ is redirected before the forward pointer.           *)
BackLink(t, to) ==
  prev' = IF succ[t] = NoLeaf THEN prev ELSE [prev EXCEPT ![succ[t]] = to]
MutSplitBack(t) ==
  /\ pc[t] = "split_back"
  /\ Goto(t, "split_fwd")
  /\ UNCHANGED <<next, marked, prev, bound, perm, used, versions, tree, node, made, key, succ,
                 pred>>
SplitBack(t) ==
  /\ pc[t] = "split_back"
  /\ BackLink(t, made[t])
  /\ Goto(t, "split_fwd")
  /\ UNCHANGED <<next, marked, bound, perm, used, versions, tree, node, made, key, succ, pred>>

SplitFwd(t) ==
  /\ pc[t] = "split_fwd"
  /\ next' = [next EXCEPT ![node[t]] = made[t]]
  /\ marked' = marked \ {node[t]}
  /\ Goto(t, "split_parent")
  /\ UNCHANGED <<prev, bound, perm, used, versions, tree, node, made, key, succ, pred>>

(* The parent learns of the new leaf.                                      *)
SplitParent(t) ==
  /\ pc[t] = "split_parent"
  /\ tree' = tree \cup {made[t]}
  /\ Goto(t, "split_strip")
  /\ UNCHANGED <<links, bound, perm, used, versions, node, made, key, succ, pred>>

(* mark_split, and only then the left leaf gives up the moved items.       *)
SplitStrip(t) ==
  /\ pc[t] = "split_strip"
  /\ dirty' = dirty \cup {node[t]}
  /\ Touch(node[t])
  /\ perm' = [perm EXCEPT ![node[t]] = {j \in @ : j < bound[made[t]]}]
  /\ Goto(t, "split_release")
  /\ UNCHANGED <<links, bound, used, deleted, shrunk, tree, node, made, key, succ, pred>>

(* The half that does not take the key is unlocked first.                  *)
SplitRelease(t) ==
  /\ pc[t] = "split_release"
  /\ dirty' = dirty \ (IF key[t] < bound[made[t]] THEN {made[t]} ELSE {node[t]})
  /\ Goto(t, "split_finish")
  /\ UNCHANGED <<links, bound, perm, used, deleted, shrunk, watch, tree, node, made, key, succ,
                 pred>>

(* finish_insert and unlock.                                               *)
SplitFinish(t) ==
  LET n == IF key[t] < bound[made[t]] THEN node[t] ELSE made[t] IN
  /\ pc[t] = "split_finish"
  /\ perm' = [perm EXCEPT ![n] = @ \cup {key[t]}]
  /\ dirty' = dirty \ {n}
  /\ Return(t)
  /\ UNCHANGED <<links, bound, used, deleted, shrunk, watch, tree>>

-----------------------------------------------------------------------------
(* Removes.                                                                *)

(* finish_remove: a leaf that keeps an item, or that has no predecessor,   *)
(* is unlocked again.                                                      *)
Remove(t, n, k) ==
  /\ pc[t] = "idle" /\ Owner(k, n) /\ k \in perm[n]
  /\ perm[n] # {k} \/ prev[n] = NoLeaf
  /\ perm' = [perm EXCEPT ![n] = @ \ {k}]
  /\ IF n \in shrunk THEN UNCHANGED watch ELSE Touch(n)
  /\ shrunk' = shrunk \cup {n}
  /\ UNCHANGED <<links, bound, used, deleted, dirty, tree, locals>>

(* remove_leaf: mark_deleted before the leaf is unlinked.                  *)
UnlinkBegin(t, n, k) ==
  /\ pc[t] = "idle" /\ Owner(k, n) /\ perm[n] = {k} /\ prev[n] # NoLeaf
  /\ perm' = [perm EXCEPT ![n] = {}]
  /\ shrunk' = shrunk \cup {n}
  /\ deleted' = deleted \cup {n} /\ dirty' = dirty \cup {n}
  /\ Touch(n)
  /\ node' = [node EXCEPT ![t] = n] /\ made' = [made EXCEPT ![t] = NoLeaf]
  /\ Goto(t, "unlink_lock")
  /\ UNCHANGED <<links, bound, used, tree, key, succ, pred>>

UnlinkLock(t) ==
  /\ pc[t] = "unlink_lock"
  /\ LockNext(node[t])
  /\ succ' = [succ EXCEPT ![t] = next[node[t]]]
  /\ Goto(t, "unlink_read")
  /\ UNCHANGED <<next, prev, bound, perm, used, versions, tree, node, made, key, pred>>

UnlinkRead(t) ==
  /\ pc[t] = "unlink_read"
  /\ pred' = [pred EXCEPT ![t] = prev[node[t]]]
  /\ Goto(t, "unlink_cas")
  /\ UNCHANGED <<links, bound, perm, used, versions, tree, node, made, key, succ>>

(* The predecessor's pointer is marked if it still is n, unmarked;         *)
(* otherwise the predecessor is read again.                                *)
MutCasSucceeds(t) == pred[t] \notin marked
CasSucceeds(t) == next[pred[t]] = node[t] /\ pred[t] \notin marked
UnlinkCas(t) ==
  /\ pc[t] = "unlink_cas"
  /\ IF CasSucceeds(t)
       THEN marked' = marked \cup {pred[t]} /\ Goto(t, "unlink_back")
       ELSE UNCHANGED marked /\ Goto(t, "unlink_read")
  /\ UNCHANGED <<next, prev, bound, perm, used, versions, tree, node, made, key, succ, pred>>

UnlinkBack(t) ==
  /\ pc[t] = "unlink_back"
  /\ BackLink(t, pred[t])
  /\ Goto(t, "unlink_fwd")
  /\ UNCHANGED <<next, marked, bound, perm, used, versions, tree, node, made, key, succ, pred>>

MutUnlinkFwd(t) ==
  /\ pc[t] = "unlink_fwd"
  /\ next' = [next EXCEPT ![pred[t]] = succ[t]]
  /\ Goto(t, "unlink_parent")
  /\ UNCHANGED <<prev, marked, bound, perm, used, versions, tree, node, made, key, succ, pred>>
UnlinkFwd(t) ==
  /\ pc[t] = "unlink_fwd"
  /\ next' = [next EXCEPT ![pred[t]] = succ[t]]
  /\ marked' = marked \ {pred[t]}
  /\ Goto(t, "unlink_parent")
  /\ UNCHANGED <<prev, bound, perm, used, versions, tree, node, made, key, succ, pred>>

(* The parent forgets the leaf, which is then unlocked.                    *)
UnlinkParent(t) ==
  /\ pc[t] = "unlink_parent"
  /\ tree' = tree \ {node[t]}
  /\ dirty' = dirty \ {node[t]}
  /\ Return(t)
  /\ UNCHANGED <<links, bound, perm, used, deleted, shrunk, watch>>

-----------------------------------------------------------------------------
LinkInit ==
  /\ next = [n \in Leaves |-> NoLeaf] /\ marked = {}
  /\ prev = [n \in Leaves |-> NoLeaf]
  /\ bound = [n \in Leaves |-> 0]
  /\ perm = [n \in Leaves |-> {}]
  /\ used = {First} /\ tree = {First}
  /\ deleted = {} /\ dirty = {} /\ shrunk = {} /\ watch = {}
  /\ pc = [t \in Threads |-> "idle"]
  /\ node = [t \in Threads |-> NoLeaf] /\ made = [t \in Threads |-> NoLeaf]
  /\ key = [t \in Threads |-> 1]
  /\ succ = [t \in Threads |-> NoLeaf] /\ pred = [t \in Threads |-> NoLeaf]

Continue(t) ==
  \/ SplitLock(t) \/ SplitBack(t) \/ SplitFwd(t) \/ SplitParent(t) \/ SplitStrip(t)
  \/ SplitRelease(t) \/ SplitFinish(t)
  \/ UnlinkLock(t) \/ UnlinkRead(t) \/ UnlinkCas(t) \/ UnlinkBack(t) \/ UnlinkFwd(t)
  \/ UnlinkParent(t)

LinkNext ==
  \E t \in Threads :
    \/ \E n \in Leaves, k \in Keys :
         \/ Insert(t, n, k) \/ Remove(t, n, k) \/ UnlinkBegin(t, n, k)
         \/ \E b \in Keys : SplitBegin(t, n, k, b)
    \/ Continue(t)

(* A thread inside link_split or unlink is a running thread that holds     *)
(* locks: it keeps taking steps.                                           *)
Fairness == \A t \in Threads : WF_linkVars(Continue(t))

LinkSpec == LinkInit /\ [][LinkNext]_linkVars /\ Fairness

-----------------------------------------------------------------------------
(* The leaves a walk along nextOf, a function from leaves to pointers,     *)
(* visits from the first one on: they are in every set that holds the      *)
(* first leaf and is closed under nextOf.                                  *)
ClosedUnder(nextOf, S) == \A n \in S : nextOf[n] \in S \cup {NoLeaf}
Reachable(nextOf) ==
  {n \in Leaves : \A S \in SUBSET Leaves : First \in S /\ ClosedUnder(nextOf, S) => n \in S}

(* The list as the two pointers together define it: a leaf that was split  *)
(* off belongs to it as soon as its successor points back to it, because   *)
(* from then on an unlink of the successor redirects the new leaf's next_, *)
(* not the old one's.                                                      *)
Splits(t, n) == pc[t] = "split_fwd" /\ node[t] = n
After == [n \in Leaves |-> IF \E t \in Threads : Splits(t, n)
                             THEN made[CHOOSE t \in Threads : Splits(t, n)]
                             ELSE next[n]]
Chain == [n \in Reachable(After) |-> After[n]]

(* link_split "ensures that all next pointers are always valid" and unlink *)
(* "works even in the presence of concurrent splits and deletes"           *)
(* (src/btree_leaflink.hh): each of them takes effect in one step on one   *)
(* list of leaves.                                                         *)
List == INSTANCE LeafList WITH after <- Chain
ImplementsList == List!Spec

(* A walk along next_ meets the leaves in key order and misses none that   *)
(* the tree still leads to: a descent to a leaf and a walk from a leaf on  *)
(* its left (advance_to_key, scans) agree.                                 *)
WalkFindsLeaves ==
  /\ \A n \in Reachable(next) : next[n] # NoLeaf => bound[n] < bound[next[n]]
  /\ tree \ deleted \subseteq Reachable(next)

(* prev_ is the inverse of next_ wherever no link_split or unlink holds    *)
(* the pointer: the compare-and-swap of the next unlink of that leaf would *)
(* otherwise never succeed.                                                *)
BackLinksExact ==
  \A n \in DOMAIN Chain : next[n] # NoLeaf /\ n \notin marked => prev[next[n]] = n

(* No two operations wait for each other's pointer locks forever: every    *)
(* link_split and unlink that began ends (the spin loops of lock_next and  *)
(* unlink terminate).                                                      *)
OperationsFinish == \A t \in Threads : pc[t] # "idle" ~> pc[t] = "idle"
=============================================================================
