--------------------------- MODULE LeafLinkProofs ---------------------------
(***************************************************************************)
(* The leaf list is right for any number of threads, leaves and keys: the  *)
(* pointers form one sorted list at every moment, splits and unlinks       *)
(* implement the abstract list of LeafList, and no key is ever in a leaf   *)
(* whose range does not hold it.  Scans are complete for any number of     *)
(* scans, in either direction: a walk along next_ never jumps over a key,  *)
(* and a leaf's keys are the ones next to its bound.                       *)
(***************************************************************************)
EXTENDS LeafScan, TLAPS

(* Every variable has its type: pointers are leaves or null, bounds and    *)
(* keys are in range.                                                      *)
TypeOK ==
  /\ next \in [Leaves -> Pointer] /\ prev \in [Leaves -> Pointer]
  /\ bound \in [Leaves -> 0..MaxKey] /\ perm \in [Leaves -> SUBSET Keys]
  /\ marked \subseteq Leaves /\ used \subseteq Leaves /\ deleted \subseteq Leaves
  /\ tree \subseteq Leaves
  /\ dirty \subseteq Leaves /\ shrunk \subseteq Leaves /\ watch \subseteq Scans \X Leaves
  /\ pc \in [Threads -> PCs] /\ key \in [Threads -> Keys]
  /\ node \in [Threads -> Pointer] /\ made \in [Threads -> Pointer]
  /\ succ \in [Threads -> Pointer] /\ pred \in [Threads -> Pointer]

(* The steps of an insert that splits while it holds both halves; the      *)
(* steps of a remove whose leaf is still in the list; the steps that own   *)
(* the mark of their leaf's next_ (if it is not null), and those that own  *)
(* the predecessor's as well.                                              *)
BothLocked == {"split_lock", "split_back", "split_fwd", "split_parent", "split_strip",
               "split_release"}
Linked == {"unlink_lock", "unlink_read", "unlink_cas", "unlink_back", "unlink_fwd"}
NextHeld == {"split_back", "split_fwd", "unlink_read", "unlink_cas", "unlink_back", "unlink_fwd"}
PredHeld == {"unlink_back", "unlink_fwd"}

(* A leaf that was split off and that no other leaf points to yet, a leaf  *)
(* that is unlinked for good, and the leaves of the list.                  *)
Hidden == {n \in Leaves : \E t \in Threads : made[t] = n /\ pc[t] \in {"split_lock", "split_back"}}
Dead == {n \in deleted : \A t \in Threads : ~(node[t] = n /\ pc[t] \in Linked)}
Members == used \ (Hidden \cup Dead)

(* No two threads hold the lock of one leaf.                               *)
LocksExclusive ==
  \A t, u \in Threads : \A n \in Leaves : n \in Locks(t) /\ n \in Locks(u) => t = u

(* What a thread that works on a leaf knows of it: a split's two halves    *)
(* are in use, in order and not deleted as long as it holds them, and the  *)
(* inserted key belongs to one of them; a leaf to be unlinked is not the   *)
(* first.                                                                  *)
ThreadsHoldLeaves ==
  \A t \in Threads :
    /\ pc[t] \in BothLocked \cup {"split_finish"} =>
         /\ node[t] \in used /\ made[t] \in used
         /\ bound[node[t]] < bound[made[t]] /\ bound[node[t]] <= key[t]
    /\ pc[t] \in BothLocked => node[t] \notin deleted /\ made[t] \notin deleted
    /\ pc[t] = "split_finish" =>
         IF key[t] < bound[made[t]] THEN node[t] \notin deleted ELSE made[t] \notin deleted
    /\ pc[t] \in Linked \cup {"unlink_parent"} =>
         node[t] \in deleted /\ node[t] # First /\ made[t] = NoLeaf

(* Leaves in use refer to leaves in use, next_ to one with a higher bound  *)
(* and prev_ never to a leaf that is still hidden.                         *)
LeavesInUse ==
  /\ First \in used /\ bound[First] = 0 /\ prev[First] = NoLeaf
  /\ First \notin deleted
  /\ deleted \subseteq used /\ tree \subseteq used
  /\ \A n \in Leaves : next[n] # NoLeaf =>
       n \in used /\ next[n] \in used /\ bound[n] < bound[next[n]]
  /\ \A n \in used \ {First} : prev[n] \in used \ Hidden

(* What the local variables of link_split and unlink say of the shared     *)
(* pointers: the mark of next_ protects the value that lock_next returned, *)
(* the mark of the predecessor's next_ the edge between the two.           *)
PointersHeld ==
  \A t \in Threads :
    /\ pc[t] \in {"split_lock", "split_back", "split_fwd"} =>
         prev[made[t]] = node[t] /\ \A n \in Leaves : next[n] # made[t]
    /\ pc[t] \in NextHeld =>
         next[node[t]] = succ[t] /\ (succ[t] # NoLeaf => node[t] \in marked)
    /\ pc[t] = "split_back" => next[made[t]] = succ[t]
    /\ pc[t] \in {"split_parent", "split_strip", "split_release"} => next[node[t]] = made[t]
    /\ pc[t] = "unlink_cas" => pred[t] \in used \ Hidden
    /\ pc[t] \in PredHeld =>
         pred[t] \in Members /\ pred[t] \in marked /\ next[pred[t]] = node[t]
    /\ pc[t] = "unlink_fwd" /\ succ[t] # NoLeaf => prev[succ[t]] = pred[t]

(* One thread owns a mark, and an unlinked leaf keeps its mark, so that    *)
(* the compare-and-swap of a thread that still sees it as a predecessor    *)
(* fails.                                                                  *)
MarksExclusive ==
  /\ \A t, u \in Threads : pc[t] \in NextHeld /\ pc[u] \in PredHeld => node[t] # pred[u]
  /\ \A n \in Dead : next[n] # NoLeaf => n \in marked

(* The set M and the successor function f form one list: it starts with    *)
(* the first leaf, is closed under f, gives no leaf two predecessors, and  *)
(* every set that holds the first leaf and is closed under f contains all  *)
(* of it.                                                                  *)
Shape(M, f) ==
  /\ First \in M
  /\ \A n \in M : f[n] \in (M \ {First}) \cup {NoLeaf}
  /\ \A n, m \in M : f[n] = f[m] /\ f[n] # NoLeaf => n = m
  /\ \A S \in SUBSET Leaves :
       First \in S /\ (\A n \in S \cap M : f[n] \in S \cup {NoLeaf}) => M \subseteq S

(* prev_ inverts next_ where next_ is not marked.                          *)
BackLinks == \A n \in Members : n \notin marked /\ next[n] # NoLeaf => prev[next[n]] = n

(* While a split is between its two pointer stores, its leaf's next_ may   *)
(* lead to leaves that are unlinked meanwhile; through them it still leads *)
(* to the leaf behind the new one.                                         *)
StalePath ==
  \A t \in Threads : pc[t] = "split_fwd" =>
    \A S \in SUBSET Leaves :
      /\ next[node[t]] \in S \cup {NoLeaf}
      /\ \A n \in S \cap Dead : next[n] \in S \cup {NoLeaf}
      => next[made[t]] \in S \cup {NoLeaf}

(* The tree leads to every leaf of the list but those whose split has not  *)
(* told the parent yet.                                                    *)
TreeLeads ==
  /\ \A t \in Threads :
       pc[t] \in {"split_lock", "split_back", "split_fwd", "split_parent"} => made[t] \notin tree
  /\ \A n \in Members \ tree :
       \E t \in Threads : made[t] = n /\ pc[t] \in {"split_fwd", "split_parent"}

(* A key below a leaf's bound; there is no bound at the end of the list.   *)
Below(k, n) == n # NoLeaf => k < bound[n]

(* The keys of a leaf are not below its bound ...                          *)
KeysAbove == \A n \in Leaves : \A k \in perm[n] : bound[n] <= k

(* ... and below the bound of the next leaf, unless the leaf was split and *)
(* not stripped of the moved keys yet.                                     *)
KeysBelow ==
  \A n \in Members : \A k \in perm[n] :
    \/ Below(k, next[n])
    \/ \E t \in Threads : node[t] = n /\ pc[t] \in {"split_fwd", "split_parent", "split_strip"}

(* The keys a split moves, and the one it inserts, stay below the bound of *)
(* the leaf behind the new one.                                            *)
SplitKeys(t) ==
  /\ pc[t] = "split_lock" =>
       \A k \in perm[made[t]] \cup {bound[made[t]], key[t]} : Below(k, next[node[t]])
  /\ pc[t] = "split_back" => \A k \in perm[made[t]] : Below(k, next[made[t]])
  /\ pc[t] \in {"split_back", "split_fwd", "split_parent", "split_strip"} =>
       \A k \in perm[node[t]] : Below(k, next[made[t]])
  /\ pc[t] \in {"split_back", "split_fwd", "split_parent", "split_strip", "split_release"} =>
       Below(key[t], next[made[t]])
  /\ pc[t] = "split_finish" =>
       IF key[t] < bound[made[t]] THEN Below(key[t], next[node[t]])
                                  ELSE Below(key[t], next[made[t]])

(* All of the above: no key is ever in the wrong leaf.                     *)
KeysFit == KeysAbove /\ KeysBelow /\ \A t \in Threads : SplitKeys(t)

(* The inductive invariant.  Locks and marks are needed to show that the   *)
(* local variables stay true, the shape of the list rests on both, and the *)
(* order of the bounds rests on where the keys are.                        *)
IInv ==
  /\ TypeOK /\ LocksExclusive /\ ThreadsHoldLeaves /\ LeavesInUse /\ PointersHeld
  /\ MarksExclusive /\ Shape(Members, After) /\ BackLinks /\ StalePath /\ TreeLeads /\ KeysFit

(* One step of thread t.                                                   *)
Step(t) ==
  \/ \E n \in Leaves, k \in Keys :
       \/ Insert(t, n, k) \/ Remove(t, n, k) \/ UnlinkBegin(t, n, k)
       \/ \E b \in Keys : SplitBegin(t, n, k, b)
  \/ Continue(t)

-----------------------------------------------------------------------------

(* leaf::make returns a leaf that was never used.                          *)
LEMMA FreshLeaf ==
  TypeOK /\ Fresh # NoLeaf => Fresh \in Leaves \ used
<1> SUFFICES ASSUME TypeOK, Fresh # NoLeaf PROVE Fresh \in Leaves \ used
  OBVIOUS
<1>1. used # Leaves /\ used \subseteq Leaves
  BY DEF Fresh, TypeOK
<1>2. \E n \in Leaves : n \notin used
  BY <1>1
<1>3. Fresh = CHOOSE n \in Leaves : n \notin used
  BY <1>1 DEF Fresh
<1> QED BY <1>2, <1>3

(* Every step keeps the types.                                             *)
LEMMA TypeStep ==
  ASSUME TypeOK, PointersHeld, ThreadsHoldLeaves, NEW t \in Threads, Step(t)
  PROVE  TypeOK'
<1> USE LeafLinkAssumption DEF TypeOK, links, versions, locals, Pointer, Keys, Goto, Touch, PCs
<1>1. ASSUME NEW n \in Leaves, NEW k \in Keys, Insert(t, n, k) PROVE TypeOK'
  BY <1>1 DEF Insert
<1>2. ASSUME NEW n \in Leaves, NEW k \in Keys, Remove(t, n, k) PROVE TypeOK'
  BY <1>2 DEF Remove
<1>3. ASSUME NEW n \in Leaves, NEW k \in Keys, UnlinkBegin(t, n, k) PROVE TypeOK'
  BY <1>3 DEF UnlinkBegin
<1>4. ASSUME NEW n \in Leaves, NEW k \in Keys, NEW b \in Keys, SplitBegin(t, n, k, b) PROVE TypeOK'
  <2> DEFINE nr == Fresh
  <2>1. nr \in Leaves
    BY <1>4, FreshLeaf DEF SplitBegin
  <2> HIDE DEF nr
  <2>2. QED BY <1>4, <2>1 DEF SplitBegin, SplitPerm, nr
<1>5. CASE SplitLock(t)
  BY <1>5 DEF SplitLock, LockNext, ThreadsHoldLeaves, BothLocked
<1>6. CASE SplitBack(t)
  BY <1>6 DEF SplitBack, BackLink
<1>7. CASE SplitFwd(t)
  BY <1>7 DEF SplitFwd
<1>8. CASE SplitParent(t)
  BY <1>8 DEF SplitParent, ThreadsHoldLeaves, BothLocked
<1>9. CASE SplitStrip(t)
  BY <1>9 DEF SplitStrip, ThreadsHoldLeaves, BothLocked
<1>10. CASE SplitRelease(t)
  BY <1>10 DEF SplitRelease
<1>11. CASE SplitFinish(t)
  BY <1>11 DEF SplitFinish, Return, ThreadsHoldLeaves, BothLocked
<1>12. CASE UnlinkLock(t)
  BY <1>12 DEF UnlinkLock, LockNext, ThreadsHoldLeaves, Linked
<1>13. CASE UnlinkRead(t)
  BY <1>13 DEF UnlinkRead, ThreadsHoldLeaves, Linked
<1>14. CASE UnlinkCas(t)
  BY <1>14 DEF UnlinkCas, PointersHeld
<1>15. CASE UnlinkBack(t)
  BY <1>15 DEF UnlinkBack, BackLink
<1>16. CASE UnlinkFwd(t)
  BY <1>16 DEF UnlinkFwd
<1>17. CASE UnlinkParent(t)
  BY <1>17 DEF UnlinkParent, Return
<1> QED BY <1>1, <1>2, <1>3, <1>4, <1>5, <1>6, <1>7, <1>8, <1>9, <1>10, <1>11, <1>12, <1>13,
   <1>14, <1>15, <1>16, <1>17 DEF Step, Continue

(* A leaf is locked only when it is free, and a new leaf is locked by its  *)
(* maker.                                                                  *)
LEMMA LocksStep ==
  ASSUME IInv, NEW t \in Threads, Step(t)
  PROVE  LocksExclusive'
<1> USE LeafLinkAssumption DEF IInv, links, versions, locals, Pointer, Keys, Goto, PCs,
      TypeOK, LocksExclusive, ThreadsHoldLeaves, LeavesInUse, Locks, BothLocked, Linked
<1>1. ASSUME NEW n \in Leaves, NEW k \in Keys, Insert(t, n, k)
     PROVE  LocksExclusive'
  BY <1>1 DEF Insert, Return, Owner, Locked, Reaches
<1>2. ASSUME NEW n \in Leaves, NEW k \in Keys, Remove(t, n, k)
     PROVE  LocksExclusive'
  BY <1>2 DEF Remove, Return, Owner, Locked, Reaches
<1>3. ASSUME NEW n \in Leaves, NEW k \in Keys, UnlinkBegin(t, n, k)
     PROVE  LocksExclusive'
  BY <1>3 DEF UnlinkBegin, Return, Owner, Locked, Reaches
<1>4. ASSUME NEW n \in Leaves, NEW k \in Keys, NEW b \in Keys, SplitBegin(t, n, k, b)
     PROVE  LocksExclusive'
  BY <1>4, FreshLeaf DEF SplitBegin, Owner, Locked
<1>5. CASE SplitLock(t)
  BY <1>5 DEF SplitLock, Return, Owner, Locked, Reaches
<1>6. CASE SplitBack(t)
  BY <1>6 DEF SplitBack, Return, Owner, Locked, Reaches
<1>7. CASE SplitFwd(t)
  BY <1>7 DEF SplitFwd, Return, Owner, Locked, Reaches
<1>8. CASE SplitParent(t)
  BY <1>8 DEF SplitParent, Return, Owner, Locked, Reaches
<1>9. CASE SplitStrip(t)
  BY <1>9 DEF SplitStrip, Return, Owner, Locked, Reaches
<1>10. CASE SplitRelease(t)
  BY <1>10 DEF SplitRelease, Return, Owner, Locked, Reaches
<1>11. CASE SplitFinish(t)
  BY <1>11 DEF SplitFinish, Return, Owner, Locked, Reaches
<1>12. CASE UnlinkLock(t)
  BY <1>12 DEF UnlinkLock, Return, Owner, Locked, Reaches
<1>13. CASE UnlinkRead(t)
  BY <1>13 DEF UnlinkRead, Return, Owner, Locked, Reaches
<1>14. CASE UnlinkCas(t)
  BY <1>14 DEF UnlinkCas, Return, Owner, Locked, Reaches
<1>15. CASE UnlinkBack(t)
  BY <1>15 DEF UnlinkBack, Return, Owner, Locked, Reaches
<1>16. CASE UnlinkFwd(t)
  BY <1>16 DEF UnlinkFwd, Return, Owner, Locked, Reaches
<1>17. CASE UnlinkParent(t)
  BY <1>17 DEF UnlinkParent, Return, Owner, Locked, Reaches
<1> QED
  BY <1>1, <1>2, <1>3, <1>4, <1>5, <1>6, <1>7, <1>8, <1>9,
     <1>10, <1>11, <1>12, <1>13, <1>14, <1>15, <1>16, <1>17 DEF Step, Continue

(* Locked leaves are not deleted by others, and a split point lies above   *)
(* the bound.                                                              *)
LEMMA HoldStep ==
  ASSUME IInv, NEW t \in Threads, Step(t)
  PROVE  ThreadsHoldLeaves'
<1> USE LeafLinkAssumption DEF IInv, links, versions, locals, Pointer, Keys, Goto, PCs,
      TypeOK, LocksExclusive, ThreadsHoldLeaves, LeavesInUse, Locks, BothLocked, Linked
<1>1. ASSUME NEW n \in Leaves, NEW k \in Keys, Insert(t, n, k)
     PROVE  ThreadsHoldLeaves'
  BY <1>1 DEF Insert, Return, Owner, Locked, Reaches
<1>2. ASSUME NEW n \in Leaves, NEW k \in Keys, Remove(t, n, k)
     PROVE  ThreadsHoldLeaves'
  BY <1>2 DEF Remove, Return, Owner, Locked, Reaches
<1>3. ASSUME NEW n \in Leaves, NEW k \in Keys, UnlinkBegin(t, n, k)
     PROVE  ThreadsHoldLeaves'
  BY <1>3 DEF UnlinkBegin, Owner, Reaches, Locked, KeysFit, KeysAbove
<1>4. ASSUME NEW n \in Leaves, NEW k \in Keys, NEW b \in Keys, SplitBegin(t, n, k, b)
     PROVE  ThreadsHoldLeaves'
  BY <1>4, FreshLeaf DEF SplitBegin, Owner, Reaches, KeysFit, KeysAbove
<1>5. CASE SplitLock(t)
  BY <1>5 DEF SplitLock, Return, Owner, Locked, Reaches
<1>6. CASE SplitBack(t)
  BY <1>6 DEF SplitBack, Return, Owner, Locked, Reaches
<1>7. CASE SplitFwd(t)
  BY <1>7 DEF SplitFwd, Return, Owner, Locked, Reaches
<1>8. CASE SplitParent(t)
  BY <1>8 DEF SplitParent, Return, Owner, Locked, Reaches
<1>9. CASE SplitStrip(t)
  BY <1>9 DEF SplitStrip, Return, Owner, Locked, Reaches
<1>10. CASE SplitRelease(t)
  BY <1>10 DEF SplitRelease, Return, Owner, Locked, Reaches
<1>11. CASE SplitFinish(t)
  BY <1>11 DEF SplitFinish, Return, Owner, Locked, Reaches
<1>12. CASE UnlinkLock(t)
  BY <1>12 DEF UnlinkLock, Return, Owner, Locked, Reaches
<1>13. CASE UnlinkRead(t)
  BY <1>13 DEF UnlinkRead, Return, Owner, Locked, Reaches
<1>14. CASE UnlinkCas(t)
  BY <1>14 DEF UnlinkCas, Return, Owner, Locked, Reaches
<1>15. CASE UnlinkBack(t)
  BY <1>15 DEF UnlinkBack, Return, Owner, Locked, Reaches
<1>16. CASE UnlinkFwd(t)
  BY <1>16 DEF UnlinkFwd, Return, Owner, Locked, Reaches
<1>17. CASE UnlinkParent(t)
  BY <1>17 DEF UnlinkParent, Return, Owner, Locked, Reaches
<1> QED
  BY <1>1, <1>2, <1>3, <1>4, <1>5, <1>6, <1>7, <1>8, <1>9,
     <1>10, <1>11, <1>12, <1>13, <1>14, <1>15, <1>16, <1>17 DEF Step, Continue

(* Splits and unlinks store only pointers to leaves in use, in key order.  *)
LEMMA LeavesStep ==
  ASSUME IInv, NEW t \in Threads, Step(t)
  PROVE  LeavesInUse'
<1> USE LeafLinkAssumption DEF IInv, links, versions, locals, Pointer, Keys, Goto, PCs,
      TypeOK, LocksExclusive, ThreadsHoldLeaves, LeavesInUse, BothLocked, Linked,
      PointersHeld, Hidden, NextHeld, PredHeld, LockNext, CanLockNext, BackLink, Below,
      KeysFit, KeysAbove
<1>1. ASSUME NEW n \in Leaves, NEW k \in Keys, Insert(t, n, k)
     PROVE  LeavesInUse'
  BY <1>1 DEF Insert, Return
<1>2. ASSUME NEW n \in Leaves, NEW k \in Keys, Remove(t, n, k)
     PROVE  LeavesInUse'
  BY <1>2 DEF Remove, Return
<1>3. ASSUME NEW n \in Leaves, NEW k \in Keys, UnlinkBegin(t, n, k)
     PROVE  LeavesInUse'
  BY <1>3 DEF UnlinkBegin, Owner, Reaches, Locked
<1>4. ASSUME NEW n \in Leaves, NEW k \in Keys, NEW b \in Keys, SplitBegin(t, n, k, b)
     PROVE  LeavesInUse'
  BY <1>4, FreshLeaf DEF SplitBegin, Owner, Reaches, Members, Dead, TreeLeads, Locks, Locked
<1>5. CASE SplitLock(t)
  BY <1>5 DEF SplitLock, SplitKeys
<1>6. CASE SplitBack(t)
  <2>1. made[t] \in used \ Hidden'
    BY <1>6 DEF SplitBack, Locks
  <2>2. \A n \in Leaves \ Hidden : n \notin Hidden'
    BY <1>6 DEF SplitBack
  <2>3. succ[t] # First
    BY <1>6 DEF SplitBack
  <2>4. \A n \in used \ {First} : prev'[n] \in used \ Hidden'
    BY <1>6, <2>1, <2>2 DEF SplitBack
  <2> QED BY <1>6, <2>3, <2>4 DEF SplitBack
<1>7. CASE SplitFwd(t)
  BY <1>7 DEF SplitFwd, Return
<1>8. CASE SplitParent(t)
  BY <1>8 DEF SplitParent, Return
<1>9. CASE SplitStrip(t)
  BY <1>9 DEF SplitStrip, Return
<1>10. CASE SplitRelease(t)
  BY <1>10 DEF SplitRelease, Return
<1>11. CASE SplitFinish(t)
  BY <1>11 DEF SplitFinish, Return
<1>12. CASE UnlinkLock(t)
  BY <1>12 DEF UnlinkLock, Return
<1>13. CASE UnlinkRead(t)
  BY <1>13 DEF UnlinkRead, Return
<1>14. CASE UnlinkCas(t)
  BY <1>14 DEF UnlinkCas, Return
<1>15. CASE UnlinkBack(t)
  BY <1>15 DEF UnlinkBack, Members
<1>16. CASE UnlinkFwd(t)
  BY <1>16 DEF UnlinkFwd, Members
<1>17. CASE UnlinkParent(t)
  BY <1>17 DEF UnlinkParent, Return
<1> QED
  BY <1>1, <1>2, <1>3, <1>4, <1>5, <1>6, <1>7, <1>8, <1>9,
     <1>10, <1>11, <1>12, <1>13, <1>14, <1>15, <1>16, <1>17 DEF Step, Continue

(* The successors in the list: the new leaf behind a leaf whose split has  *)
(* stored the back pointer, next_ behind every other leaf.                 *)
AfterExact ==
  /\ After \in [Leaves -> Pointer]
  /\ \A t \in Threads : pc[t] = "split_fwd" => After[node[t]] = made[t]
  /\ \A n \in Leaves :
       (\A t \in Threads : ~(pc[t] = "split_fwd" /\ node[t] = n)) => After[n] = next[n]

(* At most one thread splits a leaf, so the successor is determined.       *)
LEMMA AfterIs == TypeOK /\ LocksExclusive /\ ThreadsHoldLeaves => AfterExact
<1> SUFFICES ASSUME TypeOK, LocksExclusive, ThreadsHoldLeaves
             PROVE  AfterExact
  OBVIOUS
<1>1. ASSUME NEW n \in Leaves, NEW t \in Threads, Splits(t, n)
      PROVE  (CHOOSE u \in Threads : Splits(u, n)) = t
  <2>1. \A u \in Threads : Splits(u, n) => u = t
    BY <1>1 DEF Splits, LocksExclusive, Locks
  <2> QED BY <1>1, <2>1
<1>2. ASSUME NEW n \in Leaves, NEW t \in Threads, Splits(t, n)
      PROVE  After[n] = made[t]
  BY <1>1, <1>2 DEF After
<1>3. \A n \in Leaves : (\A t \in Threads : ~Splits(t, n)) => After[n] = next[n]
  BY DEF After
<1>4. ASSUME NEW n \in Leaves PROVE After[n] \in Pointer
  BY <1>2, <1>3 DEF TypeOK
<1>5. After \in [Leaves -> Pointer]
  BY <1>4 DEF After
<1>6. \A t \in Threads : pc[t] = "split_fwd" => After[node[t]] = made[t]
  BY <1>2 DEF Splits, ThreadsHoldLeaves, TypeOK, BothLocked
<1> QED BY <1>3, <1>5, <1>6 DEF Splits, AfterExact

(* A leaf whose next_ a thread owns is in the list, locked by that thread, *)
(* and the thread's copy of next_ is the successor.                        *)
LEMMA NextHolder ==
  IInv => \A t \in Threads :
    pc[t] \in NextHeld =>
      /\ node[t] \in Members /\ node[t] \in Leaves /\ node[t] \in Locks(t)
      /\ pc[t] # "split_fwd" => After[node[t]] = succ[t]
<1> SUFFICES ASSUME IInv, NEW t \in Threads, pc[t] \in NextHeld
             PROVE  /\ node[t] \in Members /\ node[t] \in Leaves /\ node[t] \in Locks(t)
                    /\ pc[t] # "split_fwd" => After[node[t]] = succ[t]
  OBVIOUS
<1>1. node[t] \in used
  BY DEF IInv, ThreadsHoldLeaves, LeavesInUse, NextHeld, BothLocked, Linked
<1>2. node[t] \in Leaves /\ node[t] \in Locks(t)
  BY <1>1 DEF IInv, TypeOK, Locks, NextHeld
<1>3. node[t] \notin Hidden
  BY <1>2 DEF IInv, LocksExclusive, Locks, NextHeld, Hidden, TypeOK, ThreadsHoldLeaves,
         BothLocked, Linked
<1>4. node[t] \notin Dead
  BY DEF IInv, Dead, NextHeld, Linked, BothLocked, ThreadsHoldLeaves
<1>5. ASSUME pc[t] # "split_fwd"
      PROVE  After[node[t]] = succ[t]
  <2>1. \A u \in Threads : pc[u] = "split_fwd" => node[u] # node[t]
    BY <1>2, <1>5 DEF IInv, LocksExclusive, Locks, NextHeld
  <2> QED BY <1>2, <2>1, AfterIs DEF AfterExact, IInv, PointersHeld, NextHeld
<1> QED BY <1>1, <1>2, <1>3, <1>4, <1>5 DEF Members

(* No two threads redirect the back pointer of the same leaf.              *)
LEMMA OnePredecessor ==
  IInv => \A t, u \in Threads :
    /\ pc[t] \in NextHeld \ {"split_fwd"} /\ pc[u] \in NextHeld \ {"split_fwd"}
    /\ succ[t] = succ[u] /\ succ[t] # NoLeaf
    => t = u
<1> SUFFICES ASSUME IInv, NEW t \in Threads, NEW u \in Threads,
                    pc[t] \in NextHeld \ {"split_fwd"}, pc[u] \in NextHeld \ {"split_fwd"},
                    succ[t] = succ[u], succ[t] # NoLeaf
             PROVE  t = u
  OBVIOUS
<1>1. node[t] = node[u]
  BY NextHolder DEF IInv, Shape
<1> QED BY <1>1, NextHolder DEF IInv, LocksExclusive

(* An unmarked next_ is the successor in the list.                         *)
LEMMA UnmarkedAfter ==
  IInv => \A n \in Members : n \notin marked /\ next[n] # NoLeaf => After[n] = next[n]
BY AfterIs DEF AfterExact, IInv, TypeOK, PointersHeld, NextHeld, Members

(* Only two steps change which leaves are in the list: the back pointer    *)
(* store of a split and the forward pointer store of an unlink.            *)
LEMMA MembersStep ==
  ASSUME IInv, NEW t \in Threads, Step(t)
  PROVE  /\ pc[t] = "split_back" =>
              Members' = Members \cup {made[t]} /\ made[t] \in used \ Members
         /\ pc[t] = "unlink_fwd" => Members' = Members \ {node[t]} /\ node[t] \in Members
         /\ pc[t] \notin {"split_back", "unlink_fwd"} => Members' = Members
<1> USE LeafLinkAssumption DEF IInv, links, versions, locals, Pointer, Keys, Goto, PCs,
      TypeOK, LocksExclusive, ThreadsHoldLeaves, LeavesInUse, Locks, BothLocked, Linked,
      Members, Dead, Hidden
<1>1. ASSUME NEW n \in Leaves, NEW k \in Keys, Insert(t, n, k)
     PROVE  Members' = Members /\ pc[t] = "idle"
  BY <1>1 DEF Insert, Return
<1>2. ASSUME NEW n \in Leaves, NEW k \in Keys, Remove(t, n, k)
     PROVE  Members' = Members /\ pc[t] = "idle"
  BY <1>2 DEF Remove, Return
<1>3. ASSUME NEW n \in Leaves, NEW k \in Keys, UnlinkBegin(t, n, k)
     PROVE  Members' = Members /\ pc[t] = "idle"
  BY <1>3 DEF UnlinkBegin, Owner, Locked, Reaches
<1>4. ASSUME NEW n \in Leaves, NEW k \in Keys, NEW b \in Keys, SplitBegin(t, n, k, b)
     PROVE  Members' = Members /\ pc[t] = "idle"
  BY <1>4, FreshLeaf DEF SplitBegin, Owner, Locked, Reaches
<1>5. CASE SplitLock(t)
  BY <1>5 DEF SplitLock, Return
<1>6. CASE SplitBack(t)
  BY <1>6, SMTT(30) DEF SplitBack
<1>7. CASE SplitFwd(t)
  BY <1>7 DEF SplitFwd, Return
<1>8. CASE SplitParent(t)
  BY <1>8 DEF SplitParent, Return
<1>9. CASE SplitStrip(t)
  BY <1>9 DEF SplitStrip, Return
<1>10. CASE SplitRelease(t)
  BY <1>10 DEF SplitRelease, Return
<1>11. CASE SplitFinish(t)
  BY <1>11 DEF SplitFinish, Return
<1>12. CASE UnlinkLock(t)
  BY <1>12 DEF UnlinkLock, Return
<1>13. CASE UnlinkRead(t)
  BY <1>13 DEF UnlinkRead, Return
<1>14. CASE UnlinkCas(t)
  BY <1>14 DEF UnlinkCas, Return
<1>15. CASE UnlinkBack(t)
  BY <1>15 DEF UnlinkBack, Return
<1>16. CASE UnlinkFwd(t)
  BY <1>16, SMTT(30) DEF UnlinkFwd
<1>17. CASE UnlinkParent(t)
  BY <1>17 DEF UnlinkParent, Return
<1> QED
  BY <1>1, <1>2, <1>3, <1>4, <1>5, <1>6, <1>7, <1>8, <1>9,
     <1>10, <1>11, <1>12, <1>13, <1>14, <1>15, <1>16, <1>17 DEF Step, Continue

(* Only the forward pointer store of an unlink takes a leaf out for good.  *)
LEMMA DeadStep ==
  ASSUME IInv, NEW t \in Threads, Step(t)
  PROVE  /\ pc[t] = "unlink_fwd" => Dead' = Dead \cup {node[t]}
         /\ pc[t] # "unlink_fwd" => Dead' = Dead
<1> USE LeafLinkAssumption DEF IInv, links, versions, locals, Pointer, Keys, Goto, PCs,
      TypeOK, LocksExclusive, ThreadsHoldLeaves, LeavesInUse, Locks, BothLocked, Linked,
      Members, Dead, Hidden
<1>1. ASSUME NEW n \in Leaves, NEW k \in Keys, Insert(t, n, k)
     PROVE  Dead' = Dead /\ pc[t] = "idle"
  BY <1>1 DEF Insert, Return
<1>2. ASSUME NEW n \in Leaves, NEW k \in Keys, Remove(t, n, k)
     PROVE  Dead' = Dead /\ pc[t] = "idle"
  BY <1>2 DEF Remove, Return
<1>3. ASSUME NEW n \in Leaves, NEW k \in Keys, UnlinkBegin(t, n, k)
     PROVE  Dead' = Dead /\ pc[t] = "idle"
  BY <1>3 DEF UnlinkBegin, Owner, Locked, Reaches
<1>4. ASSUME NEW n \in Leaves, NEW k \in Keys, NEW b \in Keys, SplitBegin(t, n, k, b)
     PROVE  Dead' = Dead /\ pc[t] = "idle"
  BY <1>4, FreshLeaf DEF SplitBegin, Owner, Locked, Reaches
<1>5. CASE SplitLock(t)
  BY <1>5 DEF SplitLock, Return
<1>6. CASE SplitBack(t)
  BY <1>6 DEF SplitBack, Return
<1>7. CASE SplitFwd(t)
  BY <1>7 DEF SplitFwd, Return
<1>8. CASE SplitParent(t)
  BY <1>8 DEF SplitParent, Return
<1>9. CASE SplitStrip(t)
  BY <1>9 DEF SplitStrip, Return
<1>10. CASE SplitRelease(t)
  BY <1>10 DEF SplitRelease, Return
<1>11. CASE SplitFinish(t)
  BY <1>11 DEF SplitFinish, Return
<1>12. CASE UnlinkLock(t)
  BY <1>12 DEF UnlinkLock, Return
<1>13. CASE UnlinkRead(t)
  BY <1>13 DEF UnlinkRead, Return
<1>14. CASE UnlinkCas(t)
  BY <1>14 DEF UnlinkCas, Return
<1>15. CASE UnlinkBack(t)
  BY <1>15 DEF UnlinkBack, Return
<1>16. CASE UnlinkFwd(t)
  BY <1>16 DEF UnlinkFwd, Return
<1>17. CASE UnlinkParent(t)
  BY <1>17 DEF UnlinkParent, Return
<1> QED
  BY <1>1, <1>2, <1>3, <1>4, <1>5, <1>6, <1>7, <1>8, <1>9,
     <1>10, <1>11, <1>12, <1>13, <1>14, <1>15, <1>16, <1>17 DEF Step, Continue

(* The stores of other threads leave true what a thread knows.             *)
LEMMA PointersStep ==
  ASSUME IInv, NEW t \in Threads, Step(t)
  PROVE  PointersHeld'
<1> USE LeafLinkAssumption DEF IInv, links, versions, locals, Pointer, Keys, Goto, PCs,
      TypeOK, LocksExclusive, ThreadsHoldLeaves, LeavesInUse, BothLocked, Linked,
      PointersHeld, Hidden, NextHeld, PredHeld, LockNext, CanLockNext, BackLink, Members, Dead
<1>1. ASSUME NEW n \in Leaves, NEW k \in Keys, Insert(t, n, k)
     PROVE  PointersHeld'
  BY <1>1 DEF Insert, Return
<1>2. ASSUME NEW n \in Leaves, NEW k \in Keys, Remove(t, n, k)
     PROVE  PointersHeld'
  BY <1>2 DEF Remove, Return
<1>3. ASSUME NEW n \in Leaves, NEW k \in Keys, UnlinkBegin(t, n, k)
     PROVE  PointersHeld'
  BY <1>3 DEF UnlinkBegin, Owner, Reaches, Locked
<1>4. ASSUME NEW n \in Leaves, NEW k \in Keys, NEW b \in Keys, SplitBegin(t, n, k, b)
     PROVE  PointersHeld'
  BY <1>4, FreshLeaf DEF SplitBegin, Owner, Reaches, TreeLeads, Locks, Locked
<1>5. CASE SplitLock(t)
  BY <1>5, SMTT(60) DEF SplitLock, Locks, MarksExclusive
<1>6. CASE SplitBack(t)
  BY <1>6, OnePredecessor DEF SplitBack, Locks
<1>7. CASE SplitFwd(t)
  BY <1>7, SMTT(30) DEF SplitFwd, Locks, MarksExclusive
<1>8. CASE SplitParent(t)
  BY <1>8 DEF SplitParent, Return
<1>9. CASE SplitStrip(t)
  BY <1>9 DEF SplitStrip, Return
<1>10. CASE SplitRelease(t)
  BY <1>10 DEF SplitRelease, Return
<1>11. CASE SplitFinish(t)
  BY <1>11 DEF SplitFinish, Return
<1>12. CASE UnlinkLock(t)
  BY <1>12 DEF UnlinkLock, Return
<1>13. CASE UnlinkRead(t)
  BY <1>13 DEF UnlinkRead, Return
<1>14. CASE UnlinkCas(t)
  <2>1. Hidden' = Hidden /\ Members' = Members
    BY <1>14 DEF UnlinkCas
  <2>2. CASE CasSucceeds(t)
    <3>1. pred[t] \in Members /\ next[pred[t]] = node[t]
      BY <1>14, <2>2 DEF UnlinkCas, CasSucceeds, MarksExclusive
    <3> QED BY <1>14, <2>1, <2>2, <3>1 DEF UnlinkCas
  <2>3. CASE ~CasSucceeds(t)
    BY <1>14, <2>1, <2>3, SMTT(30) DEF UnlinkCas
  <2> QED BY <2>2, <2>3
<1>15. CASE UnlinkBack(t)
  <2>1. Hidden' = Hidden /\ Members' = Members
    BY <1>15 DEF UnlinkBack
  <2>2. ASSUME NEW u \in Threads, pc'[u] = "unlink_fwd", succ[u] # NoLeaf
        PROVE  prev'[succ[u]] = pred[u]
    BY <1>15, <2>2, OnePredecessor DEF UnlinkBack
  <2>3. ASSUME NEW u \in Threads, pc'[u] \in {"split_lock", "split_back", "split_fwd"}
        PROVE  prev'[made[u]] = node[u]
    BY <1>15, <2>3 DEF UnlinkBack
  <2> QED BY <1>15, <2>1, <2>2, <2>3 DEF UnlinkBack
<1>16. CASE UnlinkFwd(t)
  BY <1>16 DEF UnlinkFwd, Locks, MarksExclusive
<1>17. CASE UnlinkParent(t)
  BY <1>17 DEF UnlinkParent, Return
<1> QED
  BY <1>1, <1>2, <1>3, <1>4, <1>5, <1>6, <1>7, <1>8, <1>9,
     <1>10, <1>11, <1>12, <1>13, <1>14, <1>15, <1>16, <1>17 DEF Step, Continue

(* Marks have one owner, and unlinked leaves keep theirs.                  *)
LEMMA MarksStep ==
  ASSUME IInv, NEW t \in Threads, Step(t)
  PROVE  MarksExclusive'
<1> USE LeafLinkAssumption DEF IInv, TypeOK, Pointer, MarksExclusive, PointersHeld, NextHeld,
      PredHeld, links, versions, locals, Goto
<1>1. ASSUME NEW n \in Leaves, NEW k \in Keys, Insert(t, n, k)
     PROVE  MarksExclusive'
  BY <1>1, DeadStep DEF Insert, Return, PCs
<1>2. ASSUME NEW n \in Leaves, NEW k \in Keys, Remove(t, n, k)
     PROVE  MarksExclusive'
  BY <1>2, DeadStep DEF Remove, Return, PCs
<1>3. ASSUME NEW n \in Leaves, NEW k \in Keys, UnlinkBegin(t, n, k)
     PROVE  MarksExclusive'
  BY <1>3, DeadStep DEF UnlinkBegin, Return, PCs
<1>4. ASSUME NEW n \in Leaves, NEW k \in Keys, NEW b \in Keys, SplitBegin(t, n, k, b)
     PROVE  MarksExclusive'
  BY <1>4, DeadStep, FreshLeaf DEF SplitBegin
<1>5. CASE SplitLock(t)
  <2>1. made[t] \notin Dead
    BY <1>5 DEF SplitLock, Dead, ThreadsHoldLeaves, BothLocked
  <2>2. \A u \in Threads : pc[u] \in PredHeld => node[t] # pred[u]
        BY <1>5, LeafLinkAssumption DEF SplitLock, LockNext, CanLockNext, Members,
       ThreadsHoldLeaves, Linked
  <2> QED BY <1>5, <2>1, <2>2, DeadStep DEF SplitLock, LockNext
<1>6. CASE SplitBack(t)
  BY <1>6, DeadStep DEF SplitBack, Return, PCs
<1>7. CASE SplitFwd(t)
  <2>1. node[t] \notin Dead
    BY <1>7 DEF SplitFwd, Dead, ThreadsHoldLeaves, BothLocked
  <2> QED BY <1>7, <2>1, DeadStep DEF SplitFwd
<1>8. CASE SplitParent(t)
  BY <1>8, DeadStep DEF SplitParent, Return, PCs
<1>9. CASE SplitStrip(t)
  BY <1>9, DeadStep DEF SplitStrip, Return, PCs
<1>10. CASE SplitRelease(t)
  BY <1>10, DeadStep DEF SplitRelease, Return, PCs
<1>11. CASE SplitFinish(t)
  BY <1>11, DeadStep DEF SplitFinish, Return, PCs
<1>12. CASE UnlinkLock(t)
  <2>1. \A u \in Threads : pc[u] \in PredHeld => node[t] # pred[u]
        BY <1>12, LeafLinkAssumption DEF UnlinkLock, LockNext, CanLockNext, Members,
       ThreadsHoldLeaves, Linked
  <2> QED BY <1>12, <2>1, DeadStep DEF UnlinkLock, LockNext
<1>13. CASE UnlinkRead(t)
  BY <1>13, DeadStep DEF UnlinkRead, Return, PCs
<1>14. CASE UnlinkCas(t)
  <2>1. CasSucceeds(t) => \A u \in Threads : pc[u] \in NextHeld => node[u] # pred[t]
    BY <1>14 DEF UnlinkCas, CasSucceeds, ThreadsHoldLeaves, Linked, LeavesInUse
  <2> QED BY <1>14, <2>1, DeadStep DEF UnlinkCas
<1>15. CASE UnlinkBack(t)
  BY <1>15, DeadStep DEF UnlinkBack, Return, PCs
<1>16. CASE UnlinkFwd(t)
  <2>1. pred[t] \notin Dead
    BY <1>16 DEF UnlinkFwd, Members
  <2> QED BY <1>16, <2>1, DeadStep DEF UnlinkFwd
<1>17. CASE UnlinkParent(t)
  BY <1>17, DeadStep DEF UnlinkParent, Return, PCs
<1> QED
  BY <1>1, <1>2, <1>3, <1>4, <1>5, <1>6, <1>7, <1>8, <1>9,
     <1>10, <1>11, <1>12, <1>13, <1>14, <1>15, <1>16, <1>17 DEF Step, Continue

(* Putting a new leaf behind n keeps the shape of a list.                  *)
LEMMA ShapeSplit ==
  ASSUME NEW M \in SUBSET Leaves, NEW f \in [Leaves -> Pointer], NEW g \in [Leaves -> Pointer],
         Shape(M, f), NEW n \in M, NEW nr \in Leaves \ M, g[nr] = f[n], g[n] = nr,
         \A m \in M \ {n} : g[m] = f[m]
  PROVE  Shape(M \cup {nr}, g)
<1> DEFINE N == M \cup {nr}
<1>1. First \in N /\ nr # First /\ NoLeaf \notin N
  BY LeafLinkAssumption DEF Shape
<1>2. \A m \in N : g[m] \in (N \ {First}) \cup {NoLeaf}
  BY <1>1 DEF Shape
<1>3. \A m, l \in N : g[m] = g[l] /\ g[m] # NoLeaf => m = l
  BY <1>1 DEF Shape
<1>4. ASSUME NEW S \in SUBSET Leaves, First \in S,
             \A m \in S \cap N : g[m] \in S \cup {NoLeaf}
      PROVE  N \subseteq S
  <2>1. \A m \in S \cap M : f[m] \in S \cup {NoLeaf}
    BY <1>1, <1>4 DEF Shape
  <2>2. M \subseteq S
    BY <1>4, <2>1 DEF Shape
  <2>3. nr \in S
    BY <1>1, <1>4, <2>2 DEF Pointer
  <2> QED BY <2>2, <2>3
<1> QED BY <1>1, <1>2, <1>3, <1>4 DEF Shape

(* Taking out n, whose predecessor is p, keeps the shape of a list.        *)
LEMMA ShapeUnlink ==
  ASSUME NEW M \in SUBSET Leaves, NEW f \in [Leaves -> Pointer], NEW g \in [Leaves -> Pointer],
         Shape(M, f), NEW n \in M \ {First}, NEW p \in M \ {n}, f[p] = n, g[p] = f[n],
         \A m \in M \ {p, n} : g[m] = f[m]
  PROVE  Shape(M \ {n}, g)
<1> DEFINE N == M \ {n}
<1>1. First \in N /\ NoLeaf \notin N /\ n # NoLeaf
  BY LeafLinkAssumption DEF Shape
<1>2. f[n] # n /\ \A m \in N \ {p} : f[m] # n
  BY <1>1 DEF Shape
<1>3. \A m \in N : g[m] \in (N \ {First}) \cup {NoLeaf}
  BY <1>1, <1>2 DEF Shape
<1>4. \A m, l \in N : g[m] = g[l] /\ g[m] # NoLeaf => m = l
  BY <1>1, <1>2 DEF Shape
<1>5. ASSUME NEW S \in SUBSET Leaves, First \in S,
             \A m \in S \cap N : g[m] \in S \cup {NoLeaf}
      PROVE  N \subseteq S
  <2>1. CASE p \in S
    <3> DEFINE Z == S \cup {n}
    <3>1. Z \in SUBSET Leaves /\ First \in Z
      BY <1>5
    <3>2. \A m \in Z \cap M : f[m] \in Z \cup {NoLeaf}
      BY <1>5, <2>1
    <3> HIDE DEF Z
    <3>3. M \subseteq Z
      BY <3>1, <3>2 DEF Shape
    <3> QED BY <3>3 DEF Z
  <2>2. CASE p \notin S
    <3> DEFINE Z == S \ {n}
    <3>1. Z \in SUBSET Leaves /\ First \in Z
      BY <1>5
    <3>2. \A m \in Z \cap M : f[m] \in Z \cup {NoLeaf}
      BY <1>2, <1>5, <2>2
    <3> HIDE DEF Z
    <3>3. M \subseteq Z
      BY <3>1, <3>2 DEF Shape
    <3> QED BY <3>3 DEF Z
  <2> QED BY <2>1, <2>2
<1> QED BY <1>1, <1>3, <1>4, <1>5 DEF Shape

(* The shape depends only on the successors of the members.                *)
LEMMA ShapeKept ==
  ASSUME NEW M \in SUBSET Leaves, NEW f, NEW g, Shape(M, f), \A n \in M : g[n] = f[n]
  PROVE  Shape(M, g)
BY DEF Shape

(* The leaves a walk over the list reaches are its members.                *)
LEMMA ShapeReachable ==
  ASSUME NEW M \in SUBSET Leaves, NEW f \in [Leaves -> Pointer], Shape(M, f)
  PROVE  Reachable(f) = M
<1>1. Reachable(f) \subseteq M
  BY DEF Reachable, ClosedUnder, Shape
<1>2. M \subseteq Reachable(f)
  BY DEF Reachable, ClosedUnder, Shape
<1> QED BY <1>1, <1>2

(* The two steps that change the list change it as the abstract list does, *)
(* and no other step changes the successor of a member.                    *)
LEMMA AfterStep ==
  ASSUME IInv, NEW t \in Threads, Step(t)
  PROVE  /\ pc[t] = "split_back" =>
              /\ node[t] \in Members
              /\ After'[node[t]] = made[t] /\ After'[made[t]] = After[node[t]]
              /\ \A n \in Members \ {node[t]} : After'[n] = After[n]
         /\ pc[t] = "unlink_fwd" =>
              /\ node[t] \in Members /\ pred[t] \in Members \ {node[t]}
              /\ After[pred[t]] = node[t] /\ After'[pred[t]] = After[node[t]]
              /\ \A n \in Members \ {node[t], pred[t]} : After'[n] = After[n]
         /\ pc[t] \notin {"split_back", "unlink_fwd"} => \A n \in Members : After'[n] = After[n]
<1>a. TypeOK' /\ LocksExclusive' /\ ThreadsHoldLeaves'
  BY TypeStep, LocksStep, HoldStep DEF IInv
<1>b. /\ \A u \in Threads : pc'[u] = "split_fwd" => After'[node'[u]] = made'[u]
      /\ \A n \in Leaves :
           (\A u \in Threads : ~(pc'[u] = "split_fwd" /\ node'[u] = n)) => After'[n] = next'[n]
  <2>1. AfterExact'
    BY <1>a, AfterIs, PTL
  <2> QED BY <2>1 DEF AfterExact
<1>c. /\ \A u \in Threads : pc[u] = "split_fwd" => After[node[u]] = made[u]
      /\ \A n \in Leaves :
           (\A u \in Threads : ~(pc[u] = "split_fwd" /\ node[u] = n)) => After[n] = next[n]
  BY AfterIs DEF IInv, AfterExact
<1>d. Members \subseteq Leaves
  BY DEF IInv, TypeOK, Members
<1>e. \A u \in Threads : pc[u] \in BothLocked => node[u] \in Leaves /\ made[u] \in Leaves
  BY DEF IInv, TypeOK, ThreadsHoldLeaves
<1>1. ASSUME NEW n \in Leaves, NEW k \in Keys, Insert(t, n, k)
     PROVE  pc[t] = "idle" /\ \A m \in Members : After'[m] = After[m]
    BY <1>1, <1>a, <1>b, <1>c, <1>d DEF Insert, links, locals, versions, Goto, Return, IInv,
     TypeOK, PCs
<1>2. ASSUME NEW n \in Leaves, NEW k \in Keys, Remove(t, n, k)
     PROVE  pc[t] = "idle" /\ \A m \in Members : After'[m] = After[m]
    BY <1>2, <1>a, <1>b, <1>c, <1>d DEF Remove, links, locals, versions, Goto, Return, IInv,
     TypeOK, PCs
<1>3. ASSUME NEW n \in Leaves, NEW k \in Keys, UnlinkBegin(t, n, k)
     PROVE  pc[t] = "idle" /\ \A m \in Members : After'[m] = After[m]
    BY <1>3, <1>a, <1>b, <1>c, <1>d DEF UnlinkBegin, links, locals, versions, Goto, Return,
     IInv, TypeOK, PCs
<1>4. ASSUME NEW n \in Leaves, NEW k \in Keys, NEW b \in Keys, SplitBegin(t, n, k, b)
     PROVE  pc[t] = "idle" /\ \A m \in Members : After'[m] = After[m]
  BY <1>4, <1>a, <1>b, <1>c, <1>d, FreshLeaf DEF SplitBegin, Goto, IInv, TypeOK, PCs
<1>5. CASE SplitLock(t)
  <2>1. made[t] \notin Members
    BY <1>5, <1>e DEF SplitLock, Members, Hidden, BothLocked
  <2> QED BY <1>5, <2>1, <1>b, <1>c, <1>d DEF SplitLock, Goto, IInv, TypeOK, PCs
<1>6. CASE SplitBack(t)
  <2>1. node[t] \in Members /\ After[node[t]] = succ[t] /\ next[made[t]] = succ[t]
    BY <1>6, NextHolder DEF SplitBack, NextHeld, IInv, PointersHeld
  <2>2. \A u \in Threads : ~(pc'[u] = "split_fwd" /\ node'[u] = made[t])
    BY <1>6, <1>a, <1>e DEF SplitBack, Goto, LocksExclusive, Locks, BothLocked, IInv, TypeOK,
       ThreadsHoldLeaves
    <2> QED BY <1>6, <2>1, <2>2, <1>b, <1>c, <1>d, <1>e DEF SplitBack, Goto, IInv, TypeOK,
     BothLocked
<1>7. CASE SplitFwd(t)
    BY <1>7, <1>a, <1>b, <1>c, <1>d DEF SplitFwd, links, locals, versions, Goto, Return, IInv,
     TypeOK, PCs
<1>8. CASE SplitParent(t)
    BY <1>8, <1>a, <1>b, <1>c, <1>d DEF SplitParent, links, locals, versions, Goto, Return,
     IInv, TypeOK, PCs
<1>9. CASE SplitStrip(t)
    BY <1>9, <1>a, <1>b, <1>c, <1>d DEF SplitStrip, links, locals, versions, Goto, Return, IInv,
     TypeOK, PCs
<1>10. CASE SplitRelease(t)
    BY <1>10, <1>a, <1>b, <1>c, <1>d DEF SplitRelease, links, locals, versions, Goto, Return,
     IInv, TypeOK, PCs
<1>11. CASE SplitFinish(t)
    BY <1>11, <1>a, <1>b, <1>c, <1>d DEF SplitFinish, links, locals, versions, Goto, Return,
     IInv, TypeOK, PCs
<1>12. CASE UnlinkLock(t)
    BY <1>12, <1>a, <1>b, <1>c, <1>d DEF UnlinkLock, links, locals, versions, Goto, Return,
     IInv, TypeOK, PCs
<1>13. CASE UnlinkRead(t)
    BY <1>13, <1>a, <1>b, <1>c, <1>d DEF UnlinkRead, links, locals, versions, Goto, Return,
     IInv, TypeOK, PCs
<1>14. CASE UnlinkCas(t)
    BY <1>14, <1>a, <1>b, <1>c, <1>d DEF UnlinkCas, links, locals, versions, Goto, Return, IInv,
     TypeOK, PCs
<1>15. CASE UnlinkBack(t)
    BY <1>15, <1>a, <1>b, <1>c, <1>d DEF UnlinkBack, links, locals, versions, Goto, Return,
     IInv, TypeOK, PCs
<1>16. CASE UnlinkFwd(t)
  <2>1. /\ node[t] \in Members /\ After[node[t]] = succ[t] /\ next[pred[t]] = node[t]
        /\ pred[t] \in Members /\ pred[t] # node[t] /\ pc[t] \in PredHeld /\ pc[t] \in NextHeld
    BY <1>16, NextHolder DEF UnlinkFwd, NextHeld, PredHeld, IInv, PointersHeld, MarksExclusive
  <2>2. \A u \in Threads : pc[u] = "split_fwd" => node[u] # pred[t]
    BY <2>1 DEF IInv, MarksExclusive, NextHeld
  <2> QED BY <1>16, <2>1, <2>2, <1>b, <1>c, <1>d DEF UnlinkFwd, Goto, IInv, TypeOK
<1>17. CASE UnlinkParent(t)
    BY <1>17, <1>a, <1>b, <1>c, <1>d DEF UnlinkParent, links, locals, versions, Goto, Return,
     IInv, TypeOK, PCs
<1> QED
  BY <1>1, <1>2, <1>3, <1>4, <1>5, <1>6, <1>7, <1>8, <1>9,
     <1>10, <1>11, <1>12, <1>13, <1>14, <1>15, <1>16, <1>17 DEF Step, Continue

(* The leaves form one list after every step.                              *)
LEMMA ShapeStep ==
  ASSUME IInv, NEW t \in Threads, Step(t)
  PROVE  Shape(Members, After)'
<1>1. Members \in SUBSET Leaves /\ Members' \in SUBSET Leaves
  BY TypeStep DEF IInv, TypeOK, Members
<1>2. After \in [Leaves -> Pointer]
  BY AfterIs DEF IInv, AfterExact
<1>3. After' \in [Leaves -> Pointer]
  <2>1. TypeOK' /\ LocksExclusive' /\ ThreadsHoldLeaves'
    BY TypeStep, LocksStep, HoldStep DEF IInv
  <2>2. AfterExact'
    BY <2>1, AfterIs, PTL
  <2> QED BY <2>2 DEF AfterExact
<1>4. Shape(Members, After)
  BY DEF IInv
<1>5. Shape(Members', After')
  <2>1. CASE pc[t] = "split_back"
    <3>1. made[t] \in Leaves
      BY <2>1 DEF IInv, TypeOK, ThreadsHoldLeaves, BothLocked
    <3> QED BY <1>1, <1>2, <1>3, <1>4, <2>1, <3>1, MembersStep, AfterStep, ShapeSplit
  <2>2. CASE pc[t] = "unlink_fwd"
    <3>1. node[t] # First
      BY <2>2 DEF IInv, ThreadsHoldLeaves, Linked
    <3> QED BY <1>1, <1>2, <1>3, <1>4, <2>2, <3>1, MembersStep, AfterStep, ShapeUnlink
  <2>3. CASE pc[t] \notin {"split_back", "unlink_fwd"}
    BY <1>1, <1>4, <2>3, MembersStep, AfterStep, ShapeKept
  <2> QED BY <2>1, <2>2, <2>3
<1> QED BY <1>5 DEF Shape

(* Back pointers are redirected only to leaves whose next_ is owned, and   *)
(* are right again when the mark is cleared.                               *)
LEMMA BackStep ==
  ASSUME IInv, NEW t \in Threads, Step(t)
  PROVE  BackLinks'
<1> USE LeafLinkAssumption DEF IInv, links, versions, locals, Goto, TypeOK
<1>1. ASSUME NEW n \in Leaves, NEW k \in Keys, Insert(t, n, k)
     PROVE  BackLinks'
  BY <1>1, MembersStep DEF Insert, Return, BackLinks, PCs
<1>2. ASSUME NEW n \in Leaves, NEW k \in Keys, Remove(t, n, k)
     PROVE  BackLinks'
  BY <1>2, MembersStep DEF Remove, Return, BackLinks, PCs
<1>3. ASSUME NEW n \in Leaves, NEW k \in Keys, UnlinkBegin(t, n, k)
     PROVE  BackLinks'
  BY <1>3, MembersStep DEF UnlinkBegin, Return, BackLinks, PCs
<1>4. ASSUME NEW n \in Leaves, NEW k \in Keys, NEW b \in Keys, SplitBegin(t, n, k, b)
     PROVE  BackLinks'
  <2>1. \A m \in Leaves : next[m] # Fresh
    BY <1>4, FreshLeaf DEF SplitBegin, LeavesInUse
  <2> QED BY <1>4, <2>1, MembersStep DEF SplitBegin, BackLinks, Members
<1>5. CASE SplitLock(t)
  <2>1. made[t] \notin Members
    BY <1>5 DEF SplitLock, Members, Hidden, ThreadsHoldLeaves, BothLocked
  <2> QED BY <1>5, <2>1, MembersStep DEF SplitLock, LockNext, BackLinks, Members
<1>6. CASE SplitBack(t)
  <2>1. ASSUME NEW n \in Members, n \notin marked, next[n] # NoLeaf
        PROVE  next[n] # succ[t]
    BY <1>6, <2>1, UnmarkedAfter, NextHolder DEF SplitBack, NextHeld, PointersHeld, Shape
  <2>2. made[t] \in Leaves /\ next[made[t]] = succ[t]
    BY <1>6 DEF SplitBack, PointersHeld, ThreadsHoldLeaves, BothLocked
  <2> QED BY <1>6, <2>1, <2>2, MembersStep DEF SplitBack, BackLink, BackLinks, Members, Pointer
<1>7. CASE SplitFwd(t)
  <2>1. node[t] \in Leaves /\ prev[made[t]] = node[t]
    BY <1>7 DEF SplitFwd, PointersHeld, ThreadsHoldLeaves, BothLocked
  <2> QED BY <1>7, <2>1, MembersStep DEF SplitFwd, BackLinks, Members
<1>8. CASE SplitParent(t)
  BY <1>8, MembersStep DEF SplitParent, Return, BackLinks, PCs
<1>9. CASE SplitStrip(t)
  BY <1>9, MembersStep DEF SplitStrip, Return, BackLinks, PCs
<1>10. CASE SplitRelease(t)
  BY <1>10, MembersStep DEF SplitRelease, Return, BackLinks, PCs
<1>11. CASE SplitFinish(t)
  BY <1>11, MembersStep DEF SplitFinish, Return, BackLinks, PCs
<1>12. CASE UnlinkLock(t)
  BY <1>12, MembersStep DEF UnlinkLock, LockNext, BackLinks
<1>13. CASE UnlinkRead(t)
  BY <1>13, MembersStep DEF UnlinkRead, Return, BackLinks, PCs
<1>14. CASE UnlinkCas(t)
  BY <1>14, MembersStep DEF UnlinkCas, BackLinks
<1>15. CASE UnlinkBack(t)
  <2>1. ASSUME NEW n \in Members, n \notin marked, next[n] # NoLeaf
        PROVE  next[n] # succ[t]
    BY <1>15, <2>1, UnmarkedAfter, NextHolder DEF UnlinkBack, NextHeld, PointersHeld, Shape
  <2> QED BY <1>15, <2>1, MembersStep DEF UnlinkBack, BackLink, BackLinks, Members, Pointer
<1>16. CASE UnlinkFwd(t)
  <2>1. pred[t] \in Leaves /\ (succ[t] # NoLeaf => prev[succ[t]] = pred[t])
    BY <1>16 DEF UnlinkFwd, PointersHeld, PredHeld, Members
  <2> QED BY <1>16, <2>1, MembersStep DEF UnlinkFwd, BackLinks, Members
<1>17. CASE UnlinkParent(t)
  BY <1>17, MembersStep DEF UnlinkParent, Return, BackLinks, PCs
<1> QED
  BY <1>1, <1>2, <1>3, <1>4, <1>5, <1>6, <1>7, <1>8, <1>9,
     <1>10, <1>11, <1>12, <1>13, <1>14, <1>15, <1>16, <1>17 DEF Step, Continue

(* A leaf that is unlinked behind a new leaf keeps its next_, so the path  *)
(* through it stays.                                                       *)
LEMMA PathStep ==
  ASSUME IInv, NEW t \in Threads, Step(t)
  PROVE  StalePath'
<1> USE LeafLinkAssumption DEF IInv, links, versions, locals, Goto, TypeOK
<1>1. ASSUME NEW n \in Leaves, NEW k \in Keys, Insert(t, n, k)
     PROVE  StalePath'
  BY <1>1, DeadStep DEF Insert, Return, StalePath, PCs
<1>2. ASSUME NEW n \in Leaves, NEW k \in Keys, Remove(t, n, k)
     PROVE  StalePath'
  BY <1>2, DeadStep DEF Remove, Return, StalePath, PCs
<1>3. ASSUME NEW n \in Leaves, NEW k \in Keys, UnlinkBegin(t, n, k)
     PROVE  StalePath'
  BY <1>3, DeadStep DEF UnlinkBegin, Return, StalePath, PCs
<1>4. ASSUME NEW n \in Leaves, NEW k \in Keys, NEW b \in Keys, SplitBegin(t, n, k, b)
     PROVE  StalePath'
  BY <1>4, DeadStep, FreshLeaf DEF SplitBegin, StalePath
<1>5. CASE SplitLock(t)
  <2>1. /\ made[t] \notin Dead
        /\ \A u \in Threads : pc[u] = "split_fwd" => made[t] # made[u] /\ made[t] # node[u]
    BY <1>5 DEF SplitLock, Dead, ThreadsHoldLeaves, BothLocked, LocksExclusive, Locks
  <2> QED BY <1>5, <2>1, DeadStep DEF SplitLock, StalePath
<1>6. CASE SplitBack(t)
  <2>1. next[node[t]] = next[made[t]]
    BY <1>6 DEF SplitBack, PointersHeld, NextHeld
  <2> QED BY <1>6, <2>1, DeadStep DEF SplitBack, StalePath
<1>7. CASE SplitFwd(t)
  <2>1. /\ node[t] \notin Dead
        /\ \A u \in Threads \ {t} : pc[u] = "split_fwd" => node[t] # made[u] /\ node[t] # node[u]
    BY <1>7 DEF SplitFwd, Dead, ThreadsHoldLeaves, BothLocked, LocksExclusive, Locks
  <2> QED BY <1>7, <2>1, DeadStep DEF SplitFwd, StalePath
<1>8. CASE SplitParent(t)
  BY <1>8, DeadStep DEF SplitParent, Return, StalePath, PCs
<1>9. CASE SplitStrip(t)
  BY <1>9, DeadStep DEF SplitStrip, Return, StalePath, PCs
<1>10. CASE SplitRelease(t)
  BY <1>10, DeadStep DEF SplitRelease, Return, StalePath, PCs
<1>11. CASE SplitFinish(t)
  BY <1>11, DeadStep DEF SplitFinish, Return, StalePath, PCs
<1>12. CASE UnlinkLock(t)
  BY <1>12, DeadStep DEF UnlinkLock, Return, StalePath, PCs
<1>13. CASE UnlinkRead(t)
  BY <1>13, DeadStep DEF UnlinkRead, Return, StalePath, PCs
<1>14. CASE UnlinkCas(t)
  BY <1>14, DeadStep DEF UnlinkCas, Return, StalePath, PCs
<1>15. CASE UnlinkBack(t)
  BY <1>15, DeadStep DEF UnlinkBack, Return, StalePath, PCs
<1>16. CASE UnlinkFwd(t)
  <2>1. /\ pred[t] \in Leaves \ Dead /\ next[pred[t]] = node[t] /\ node[t] \in Leaves
        /\ next[node[t]] = succ[t] /\ node[t] # pred[t]
        /\ \A u \in Threads : pc[u] = "split_fwd" => node[u] # pred[t]
    BY <1>16, NextHolder DEF UnlinkFwd, Members, PointersHeld, PredHeld, NextHeld, MarksExclusive
  <2>2. SUFFICES ASSUME NEW u \in Threads, pc[u] = "split_fwd", NEW S \in SUBSET Leaves,
                        next'[node[u]] \in S \cup {NoLeaf},
                        \A n \in S \cap Dead' : next'[n] \in S \cup {NoLeaf}
                 PROVE  next'[made[u]] \in S \cup {NoLeaf}
    BY <1>16 DEF UnlinkFwd, StalePath
  <2>3. next[node[u]] \in S \cup {NoLeaf}
    BY <1>16, <2>1, <2>2 DEF UnlinkFwd
  <2>4. \A n \in S \cap Dead : next[n] \in S \cup {NoLeaf}
    BY <1>16, <2>1, <2>2, DeadStep DEF UnlinkFwd
  <2>5. next[made[u]] \in S \cup {NoLeaf}
    BY <2>2, <2>3, <2>4 DEF StalePath
  <2>6. CASE made[u] = pred[t]
    BY <1>16, <2>1, <2>2, <2>5, <2>6, DeadStep DEF UnlinkFwd
  <2>7. CASE made[u] # pred[t]
    BY <1>16, <2>1, <2>5, <2>7 DEF UnlinkFwd
  <2> QED BY <2>6, <2>7
<1>17. CASE UnlinkParent(t)
  BY <1>17, DeadStep DEF UnlinkParent, Return, StalePath, PCs
<1> QED
  BY <1>1, <1>2, <1>3, <1>4, <1>5, <1>6, <1>7, <1>8, <1>9,
     <1>10, <1>11, <1>12, <1>13, <1>14, <1>15, <1>16, <1>17 DEF Step, Continue

(* The parent learns of a new leaf before its maker lets go of the old     *)
(* one.                                                                    *)
LEMMA TreeStep ==
  ASSUME IInv, NEW t \in Threads, Step(t)
  PROVE  TreeLeads'
<1> USE LeafLinkAssumption DEF IInv, links, versions, locals, Goto, TypeOK
<1>1. ASSUME NEW n \in Leaves, NEW k \in Keys, Insert(t, n, k)
     PROVE  TreeLeads'
  BY <1>1, MembersStep DEF Insert, Return, TreeLeads, PCs, Members
<1>2. ASSUME NEW n \in Leaves, NEW k \in Keys, Remove(t, n, k)
     PROVE  TreeLeads'
  BY <1>2, MembersStep DEF Remove, Return, TreeLeads, PCs, Members
<1>3. ASSUME NEW n \in Leaves, NEW k \in Keys, UnlinkBegin(t, n, k)
     PROVE  TreeLeads'
  BY <1>3, MembersStep DEF UnlinkBegin, Return, TreeLeads, PCs, Members
<1>4. ASSUME NEW n \in Leaves, NEW k \in Keys, NEW b \in Keys, SplitBegin(t, n, k, b)
     PROVE  TreeLeads'
  BY <1>4, MembersStep, FreshLeaf DEF SplitBegin, TreeLeads, LeavesInUse
<1>5. CASE SplitLock(t)
  BY <1>5, MembersStep DEF SplitLock, Return, TreeLeads, PCs, Members
<1>6. CASE SplitBack(t)
  BY <1>6, MembersStep DEF SplitBack, Return, TreeLeads, PCs, Members
<1>7. CASE SplitFwd(t)
  BY <1>7, MembersStep DEF SplitFwd, Return, TreeLeads, PCs, Members
<1>8. CASE SplitParent(t)
  <2>1. \A u \in Threads \ {t} : pc[u] \in BothLocked => made[u] # made[t]
    BY <1>8 DEF SplitParent, LocksExclusive, Locks, ThreadsHoldLeaves, BothLocked
  <2> QED BY <1>8, <2>1, MembersStep DEF SplitParent, TreeLeads, BothLocked
<1>9. CASE SplitStrip(t)
  BY <1>9, MembersStep DEF SplitStrip, Return, TreeLeads, PCs, Members
<1>10. CASE SplitRelease(t)
  BY <1>10, MembersStep DEF SplitRelease, Return, TreeLeads, PCs, Members
<1>11. CASE SplitFinish(t)
  BY <1>11, MembersStep DEF SplitFinish, Return, TreeLeads, PCs, Members
<1>12. CASE UnlinkLock(t)
  BY <1>12, MembersStep DEF UnlinkLock, Return, TreeLeads, PCs, Members
<1>13. CASE UnlinkRead(t)
  BY <1>13, MembersStep DEF UnlinkRead, Return, TreeLeads, PCs, Members
<1>14. CASE UnlinkCas(t)
  BY <1>14, MembersStep DEF UnlinkCas, Return, TreeLeads, PCs, Members
<1>15. CASE UnlinkBack(t)
  BY <1>15, MembersStep DEF UnlinkBack, Return, TreeLeads, PCs, Members
<1>16. CASE UnlinkFwd(t)
  BY <1>16, MembersStep DEF UnlinkFwd, Return, TreeLeads, PCs, Members
<1>17. CASE UnlinkParent(t)
  <2>1. node[t] \notin Members
    BY <1>17 DEF UnlinkParent, Members, Dead, LocksExclusive, Locks, ThreadsHoldLeaves, Linked
  <2> QED BY <1>17, <2>1, MembersStep DEF UnlinkParent, Return, TreeLeads
<1> QED
  BY <1>1, <1>2, <1>3, <1>4, <1>5, <1>6, <1>7, <1>8, <1>9,
     <1>10, <1>11, <1>12, <1>13, <1>14, <1>15, <1>16, <1>17 DEF Step, Continue

(* The leaf find_locked returns for key k is in the list, and k lies       *)
(* between its bound and the next one's: a leaf that is not in the tree    *)
(* yet follows a leaf that is locked.                                      *)
LEMMA OwnerFits ==
  ASSUME IInv, NEW n \in Leaves, NEW k \in Keys, Owner(k, n)
  PROVE  /\ n \in Members /\ bound[n] <= k
         /\ \A t \in Threads : n \notin Locks(t)
         /\ \A j \in perm[n] \cup {k} : Below(j, next[n])
<1> USE DEF IInv
<1>1. n \in tree \ deleted /\ bound[n] <= k /\ \A t \in Threads : n \notin Locks(t)
  BY DEF Owner, Reaches, Locked
<1>2. n \in Members
  BY <1>1 DEF Members, Hidden, Dead, TreeLeads, LeavesInUse
<1>3. \A t \in Threads : pc[t] \in BothLocked => node[t] # n /\ made[t] # n
  BY <1>1 DEF Locks, BothLocked
<1>4. ASSUME next[n] # NoLeaf
      PROVE  next[n] \in tree
  <2>1. After[n] = next[n]
    BY <1>3, AfterIs DEF AfterExact, BothLocked
  <2>2. next[n] \in Members
    BY <1>2, <1>4, <2>1 DEF Shape
  <2>3. SUFFICES ASSUME NEW t \in Threads, made[t] = next[n],
                        pc[t] \in {"split_fwd", "split_parent"}
                 PROVE  FALSE
    BY <2>2 DEF TreeLeads
  <2>4. pc[t] = "split_parent" /\ next[node[t]] = made[t]
    BY <2>3 DEF PointersHeld
  <2>5. node[t] \in Members /\ After[node[t]] = made[t]
    <3>1. node[t] \in Leaves /\ node[t] \in used /\ node[t] \notin deleted
      BY <2>4 DEF ThreadsHoldLeaves, BothLocked, TypeOK
    <3>2. \A u \in Threads :
            pc[u] \in BothLocked /\ (node[u] = node[t] \/ made[u] = node[t]) => u = t
      BY <2>4, <3>1 DEF LocksExclusive, Locks, BothLocked
    <3>3. node[t] \notin Hidden
      BY <2>4, <3>2 DEF Hidden, BothLocked
    <3>4. After[node[t]] = next[node[t]]
      BY <2>4, <3>1, <3>2, AfterIs DEF AfterExact, BothLocked
    <3> QED BY <2>4, <3>1, <3>3, <3>4 DEF Members, Dead
  <2> QED BY <1>2, <1>3, <1>4, <2>1, <2>3, <2>4, <2>5 DEF Shape, BothLocked
<1>5. Below(k, next[n])
  BY <1>1, <1>4, LeafLinkAssumption DEF Below, Owner, Reaches, LeavesInUse, TypeOK, Keys
<1>6. \A j \in perm[n] : Below(j, next[n])
  BY <1>2, <1>3 DEF KeysFit, KeysBelow, BothLocked
<1> QED BY <1>1, <1>2, <1>5, <1>6

(* No step puts a key into the wrong leaf or lets a bound pass a key.      *)
LEMMA KeysStep ==
  ASSUME IInv, NEW t \in Threads, Step(t)
  PROVE  KeysFit'
<1> USE LeafLinkAssumption DEF IInv, links, versions, locals, Goto, TypeOK, Pointer, Keys
<1>1. ASSUME NEW n \in Leaves, NEW k \in Keys, Insert(t, n, k)
     PROVE  KeysFit'
  <2>1. Owner(k, n)
    BY <1>1 DEF Insert
  <2>2. n \in Members /\ bound[n] <= k /\ \A j \in perm[n] \cup {k} : Below(j, next[n])
    BY <2>1, OwnerFits
  <2>3. \A u \in Threads : pc[u] \in BothLocked => node[u] # n /\ made[u] # n
    <3>1. \A u \in Threads : n \notin Locks(u)
      BY <2>1, OwnerFits
    <3> QED BY <3>1 DEF Locks, BothLocked
    <2> QED BY <1>1, <2>2, <2>3, MembersStep DEF Insert, BothLocked, KeysFit, KeysAbove,
     KeysBelow, SplitKeys, Below
<1>2. ASSUME NEW n \in Leaves, NEW k \in Keys, Remove(t, n, k)
     PROVE  KeysFit'
  BY <1>2, MembersStep DEF Remove, Return, PCs, KeysFit, KeysAbove, KeysBelow, SplitKeys, Below
<1>3. ASSUME NEW n \in Leaves, NEW k \in Keys, UnlinkBegin(t, n, k)
     PROVE  KeysFit'
    BY <1>3, MembersStep DEF UnlinkBegin, Return, PCs, KeysFit, KeysAbove, KeysBelow, SplitKeys,
     Below
<1>4. ASSUME NEW n \in Leaves, NEW k \in Keys, NEW b \in Keys, SplitBegin(t, n, k, b)
     PROVE  KeysFit'
  <2>1. Owner(k, n)
    BY <1>4 DEF SplitBegin
  <2>2. n \in Members /\ bound[n] <= k /\ \A j \in perm[n] \cup {k} : Below(j, next[n])
    BY <2>1, OwnerFits
  <2>3. \A u \in Threads : pc[u] \in BothLocked => node[u] # n /\ made[u] # n
    <3>1. \A u \in Threads : n \notin Locks(u)
      BY <2>1, OwnerFits
    <3> QED BY <3>1 DEF Locks, BothLocked
  <2>4. PICK nr \in Leaves \ used : nr = Fresh
    BY <1>4, FreshLeaf DEF SplitBegin
  <2>5. nr \notin Members /\ n # nr /\ \A m \in Leaves : next[m] # nr
    BY <2>2, <2>4 DEF Members, LeavesInUse
  <2>6. /\ bound' = [bound EXCEPT ![nr] = b] /\ b \in perm[n] \cup {k}
        /\ perm' = [perm EXCEPT ![nr] = {j \in perm[n] : j >= b}]
        /\ pc' = [pc EXCEPT ![t] = "split_lock"] /\ node' = [node EXCEPT ![t] = n]
        /\ made' = [made EXCEPT ![t] = nr] /\ key' = [key EXCEPT ![t] = k] /\ next' = next
        /\ pc[t] = "idle"
    BY <1>4, <2>4 DEF SplitBegin, SplitPerm
  <2>7. KeysAbove'
    BY <2>4, <2>6 DEF KeysFit, KeysAbove
  <2>8. KeysBelow'
    <3>1. \A m \in Members : perm'[m] = perm[m] /\ next[m] # nr /\ next'[m] = next[m]
      BY <2>4, <2>5, <2>6 DEF Members
    <3>2. \A m \in Members, j \in Keys : Below(j, next[m]) => Below(j, next[m])'
      BY <2>4, <2>6, <3>1 DEF Below, Members
    <3>3. \A u \in Threads : pc[u] # "idle" => pc'[u] = pc[u] /\ node'[u] = node[u]
      BY <2>6
    <3>4. Members' = Members
      BY <2>6, MembersStep
    <3> QED BY <2>6, <3>1, <3>2, <3>3, <3>4 DEF KeysFit, KeysBelow, Members
  <2>9. ASSUME NEW u \in Threads \ {t} PROVE SplitKeys(u)'
    <3>1. SplitKeys(u)
      BY DEF KeysFit
    <3>2. pc'[u] = pc[u] /\ node'[u] = node[u] /\ made'[u] = made[u] /\ key'[u] = key[u]
      BY <2>6
    <3>3. pc[u] \in BothLocked \cup {"split_finish"} =>
            /\ node[u] \in Leaves \ {nr} /\ made[u] \in Leaves \ {nr}
      BY <2>4 DEF ThreadsHoldLeaves
    <3>4. \A m \in Leaves \ {nr} : perm'[m] = perm[m] /\ bound'[m] = bound[m] /\ next'[m] = next[m]
                                   /\ next[m] # nr
      BY <2>5, <2>6
    <3> QED BY <3>1, <3>2, <3>3, <3>4 DEF SplitKeys, Below, BothLocked
  <2>10. SplitKeys(t)'
    BY <2>2, <2>4, <2>5, <2>6 DEF SplitKeys, Below
  <2> QED BY <2>7, <2>8, <2>9, <2>10 DEF KeysFit
<1>5. CASE SplitLock(t)
  <2>1. node[t] \in Leaves /\ made[t] \in Leaves /\ node[t] # made[t]
    BY <1>5 DEF SplitLock, ThreadsHoldLeaves, BothLocked
  <2>2. \A u \in Threads \ {t} : pc[u] \in BothLocked =>
          node[u] \notin {node[t], made[t]} /\ made[u] \notin {node[t], made[t]}
    BY <1>5, <2>1 DEF SplitLock, LocksExclusive, Locks, BothLocked
  <2>3. \A u \in Threads \ {t} : pc[u] = "split_finish" =>
          IF key[u] < bound[made[u]] THEN node[u] \notin {node[t], made[t]}
                                     ELSE made[u] \notin {node[t], made[t]}
    BY <1>5, <2>1 DEF SplitLock, LocksExclusive, Locks, BothLocked
  <2>4. made[t] \notin Members /\ node[t] \in Members
    BY <1>5, <2>1, <2>2 DEF SplitLock, Members, Hidden, Dead, ThreadsHoldLeaves, BothLocked
  <2>9. \A k \in perm[node[t]] : Below(k, next[node[t]])
    BY <2>2, <2>4, <1>5 DEF SplitLock, KeysFit, KeysBelow, BothLocked
  <2>5. KeysAbove'
    BY <1>5, <2>1, <2>2, <2>4 DEF SplitLock, BothLocked, KeysFit, KeysAbove
  <2>6. KeysBelow'
    BY <1>5, <2>1, <2>2, <2>4, MembersStep DEF SplitLock, BothLocked, KeysFit, KeysBelow, Below
  <2>7. ASSUME NEW u \in Threads \ {t} PROVE SplitKeys(u)'
    <3>1. SplitKeys(u)
      BY DEF KeysFit
    <3>2. /\ pc'[u] = pc[u] /\ node' = node /\ made' = made /\ key' = key /\ bound' = bound
          /\ perm' = perm
      BY <1>5 DEF SplitLock
    <3>3. pc[u] \in BothLocked => next'[node[u]] = next[node[u]] /\ next'[made[u]] = next[made[u]]
      BY <1>5, <2>1, <2>2 DEF SplitLock, ThreadsHoldLeaves
    <3>4. pc[u] = "split_finish" =>
            IF key[u] < bound[made[u]] THEN next'[node[u]] = next[node[u]]
                                       ELSE next'[made[u]] = next[made[u]]
      BY <1>5, <2>1, <2>3 DEF SplitLock, ThreadsHoldLeaves
    <3> QED BY <3>1, <3>2, <3>3, <3>4 DEF SplitKeys, Below, BothLocked
  <2>8. SplitKeys(t)'
    BY <1>5, <2>1, <2>4, <2>9 DEF SplitLock, BothLocked, KeysFit, SplitKeys, Below
  <2> QED BY <2>5, <2>6, <2>7, <2>8 DEF KeysFit
<1>6. CASE SplitBack(t)
  BY <1>6, MembersStep DEF SplitBack, KeysFit, KeysAbove, KeysBelow, SplitKeys, Below
<1>7. CASE SplitFwd(t)
  <2>1. node[t] \in Leaves /\ made[t] \in Leaves /\ node[t] # made[t]
    BY <1>7 DEF SplitFwd, ThreadsHoldLeaves, BothLocked
  <2>2. \A u \in Threads \ {t} : pc[u] \in BothLocked =>
          node[u] \notin {node[t], made[t]} /\ made[u] \notin {node[t], made[t]}
    BY <1>7, <2>1 DEF SplitFwd, LocksExclusive, Locks, BothLocked
  <2>3. \A u \in Threads \ {t} : pc[u] = "split_finish" =>
          IF key[u] < bound[made[u]] THEN node[u] \notin {node[t], made[t]}
                                     ELSE made[u] \notin {node[t], made[t]}
    BY <1>7, <2>1 DEF SplitFwd, LocksExclusive, Locks, BothLocked
  <2>5. KeysAbove'
    BY <1>7, <2>1, <2>2 DEF SplitFwd, BothLocked, KeysFit, KeysAbove
  <2>6. KeysBelow'
    BY <1>7, <2>1, <2>2, MembersStep DEF SplitFwd, BothLocked, KeysFit, KeysBelow, Below
  <2>7. ASSUME NEW u \in Threads \ {t} PROVE SplitKeys(u)'
    <3>1. SplitKeys(u)
      BY DEF KeysFit
    <3>2. /\ pc'[u] = pc[u] /\ node' = node /\ made' = made /\ key' = key /\ bound' = bound
          /\ perm' = perm
      BY <1>7 DEF SplitFwd
    <3>3. pc[u] \in BothLocked => next'[node[u]] = next[node[u]] /\ next'[made[u]] = next[made[u]]
      BY <1>7, <2>1, <2>2 DEF SplitFwd, ThreadsHoldLeaves
    <3>4. pc[u] = "split_finish" =>
            IF key[u] < bound[made[u]] THEN next'[node[u]] = next[node[u]]
                                       ELSE next'[made[u]] = next[made[u]]
      BY <1>7, <2>1, <2>3 DEF SplitFwd, ThreadsHoldLeaves
    <3> QED BY <3>1, <3>2, <3>3, <3>4 DEF SplitKeys, Below, BothLocked
  <2>8. SplitKeys(t)'
    BY <1>7, <2>1, <2>2 DEF SplitFwd, BothLocked, KeysFit, SplitKeys, Below
  <2> QED BY <2>5, <2>6, <2>7, <2>8 DEF KeysFit
<1>8. CASE SplitParent(t)
    BY <1>8, MembersStep DEF SplitParent, Return, PCs, KeysFit, KeysAbove, KeysBelow, SplitKeys,
     Below
<1>9. CASE SplitStrip(t)
  <2>1. node[t] \in Leaves /\ made[t] \in Leaves /\ node[t] # made[t]
    BY <1>9 DEF SplitStrip, ThreadsHoldLeaves, BothLocked
  <2>2. \A u \in Threads \ {t} : pc[u] \in BothLocked =>
          node[u] \notin {node[t], made[t]} /\ made[u] \notin {node[t], made[t]}
    BY <1>9, <2>1 DEF SplitStrip, LocksExclusive, Locks, BothLocked
  <2>3. \A u \in Threads \ {t} : pc[u] = "split_finish" =>
          IF key[u] < bound[made[u]] THEN node[u] \notin {node[t], made[t]}
                                     ELSE made[u] \notin {node[t], made[t]}
    BY <1>9, <2>1 DEF SplitStrip, LocksExclusive, Locks, BothLocked
  <2>4. next[node[t]] = made[t] /\ pc[t] = "split_strip"
    BY <1>9 DEF SplitStrip, PointersHeld
  <2>5. \A n \in Leaves : perm'[n] \subseteq perm[n]
    BY <1>9, <2>1 DEF SplitStrip
  <2>6. KeysAbove'
    BY <1>9, <2>5 DEF SplitStrip, KeysFit, KeysAbove
  <2>7. KeysBelow'
        BY <1>9, <2>1, <2>2, <2>4, <2>5, MembersStep DEF SplitStrip, BothLocked, KeysFit,
       KeysBelow, Below, Members
  <2>8. \A u \in Threads : SplitKeys(u)'
    BY <1>9, <2>5 DEF SplitStrip, KeysFit, SplitKeys, Below, ThreadsHoldLeaves, BothLocked
  <2> QED BY <2>6, <2>7, <2>8 DEF KeysFit
<1>10. CASE SplitRelease(t)
  <2>1. next[node[t]] = made[t]
    BY <1>10 DEF SplitRelease, PointersHeld
    <2> QED BY <1>10, <2>1, MembersStep DEF SplitRelease, ThreadsHoldLeaves, BothLocked,
     KeysFit, KeysAbove, KeysBelow, SplitKeys, Below
<1>11. CASE SplitFinish(t)
  <2>1. PICK h \in Leaves :
          h = IF key[t] < bound[made[t]] THEN node[t] ELSE made[t]
    BY <1>11 DEF SplitFinish, ThreadsHoldLeaves, BothLocked
  <2>2. bound[h] <= key[t] /\ Below(key[t], next[h])
    BY <1>11, <2>1 DEF SplitFinish, ThreadsHoldLeaves, BothLocked, KeysFit, SplitKeys
  <2>3. \A u \in Threads : pc[u] \in BothLocked => node[u] # h /\ made[u] # h
    BY <1>11, <2>1 DEF SplitFinish, LocksExclusive, Locks, BothLocked
  <2>4. perm' = [perm EXCEPT ![h] = perm[h] \cup {key[t]}]
    BY <1>11, <2>1 DEF SplitFinish
  <2>5. KeysAbove'
    BY <1>11, <2>2, <2>4 DEF SplitFinish, KeysFit, KeysAbove
  <2>6. KeysBelow'
    BY <1>11, <2>2, <2>4, MembersStep DEF SplitFinish, Return, KeysFit, KeysBelow, Below
  <2>7. \A u \in Threads : SplitKeys(u)'
    BY <1>11, <2>3, <2>4 DEF SplitFinish, Return, BothLocked, KeysFit, SplitKeys, Below
  <2> QED BY <2>5, <2>6, <2>7 DEF KeysFit
<1>12. CASE UnlinkLock(t)
  BY <1>12, MembersStep DEF UnlinkLock, LockNext, KeysFit, KeysAbove, KeysBelow, SplitKeys, Below
<1>13. CASE UnlinkRead(t)
    BY <1>13, MembersStep DEF UnlinkRead, Return, PCs, KeysFit, KeysAbove, KeysBelow, SplitKeys,
     Below
<1>14. CASE UnlinkCas(t)
  BY <1>14, MembersStep DEF UnlinkCas, KeysFit, KeysAbove, KeysBelow, SplitKeys, Below
<1>15. CASE UnlinkBack(t)
    BY <1>15, MembersStep DEF UnlinkBack, Return, PCs, KeysFit, KeysAbove, KeysBelow, SplitKeys,
     Below
<1>16. CASE UnlinkFwd(t)
  <2>1. /\ pred[t] \in Leaves /\ next[pred[t]] = node[t] /\ node[t] \in Leaves
        /\ next[node[t]] = succ[t]
    BY <1>16, NextHolder DEF UnlinkFwd, Members, PointersHeld, PredHeld, NextHeld
  <2>2. \A m \in Leaves, x \in 0..MaxKey : Below(x, next[m]) => Below(x, next[m])'
    BY <1>16, <2>1 DEF UnlinkFwd, LeavesInUse, Below
  <2>3. KeysAbove'
    BY <1>16 DEF UnlinkFwd, KeysFit, KeysAbove
  <2>4. KeysBelow'
    BY <1>16, <2>2, MembersStep DEF UnlinkFwd, KeysFit, KeysBelow, Members
  <2>5. \A u \in Threads : SplitKeys(u)'
    BY <1>16, <2>2 DEF UnlinkFwd, KeysFit, SplitKeys, ThreadsHoldLeaves, BothLocked
  <2> QED BY <2>3, <2>4, <2>5 DEF KeysFit
<1>17. CASE UnlinkParent(t)
    BY <1>17, MembersStep DEF UnlinkParent, Return, PCs, KeysFit, KeysAbove, KeysBelow,
     SplitKeys, Below
<1> QED
  BY <1>1, <1>2, <1>3, <1>4, <1>5, <1>6, <1>7, <1>8, <1>9,
     <1>10, <1>11, <1>12, <1>13, <1>14, <1>15, <1>16, <1>17 DEF Step, Continue

(* The invariant holds in the layer with one empty leaf.                   *)
LEMMA InitIInv == LinkInit => IInv
<1> SUFFICES ASSUME LinkInit PROVE IInv
  OBVIOUS
<1> USE LeafLinkAssumption DEF LinkInit
<1>1. Members = {First} /\ Hidden = {} /\ Dead = {}
  BY DEF Members, Hidden, Dead
<1>2. TypeOK
  BY DEF TypeOK, Pointer, Keys, PCs
<1>3. LocksExclusive /\ ThreadsHoldLeaves /\ PointersHeld /\ MarksExclusive /\ StalePath
  BY <1>1 DEF LocksExclusive, Locks, ThreadsHoldLeaves, PointersHeld, MarksExclusive, StalePath,
     BothLocked, Linked, NextHeld, PredHeld
<1>4. LeavesInUse /\ BackLinks /\ TreeLeads
  BY <1>1 DEF LeavesInUse, BackLinks, TreeLeads
<1>5. KeysFit
  BY <1>1 DEF KeysFit, KeysAbove, KeysBelow, SplitKeys
<1>6. Shape(Members, After)
  <2>1. After[First] = NoLeaf
    BY <1>2, <1>3, AfterIs DEF AfterExact
  <2> QED BY <1>1, <2>1 DEF Shape
<1> QED BY <1>2, <1>3, <1>4, <1>5, <1>6 DEF IInv

(* The invariant does not depend on what scans have read.                  *)
LEMMA LinksUntouched ==
  ASSUME IInv, watch' \subseteq Scans \X Leaves,
         UNCHANGED <<next, marked, prev, bound, perm, used, deleted, dirty, shrunk, tree,
                     pc, node, made, key, succ, pred>>
  PROVE  IInv' /\ Members' = Members /\ Hidden' = Hidden /\ Dead' = Dead /\ After' = After
<1> USE DEF IInv
<1>1. TypeOK' /\ LocksExclusive' /\ ThreadsHoldLeaves'
  BY DEF TypeOK, LocksExclusive, Locks, ThreadsHoldLeaves
<1>2. Members' = Members /\ Hidden' = Hidden /\ Dead' = Dead /\ After' = After
  BY DEF Members, Hidden, Dead, After, Splits
<1>3. LeavesInUse' /\ PointersHeld' /\ MarksExclusive'
  BY <1>2 DEF LeavesInUse, PointersHeld, MarksExclusive
<1>4. Shape(Members, After)'
  BY <1>2 DEF Shape
<1>5. BackLinks' /\ StalePath' /\ TreeLeads'
  BY <1>2 DEF BackLinks, StalePath, TreeLeads
<1>6. KeysFit'
  BY <1>2 DEF KeysFit, KeysAbove, KeysBelow, SplitKeys, Below
<1> QED BY <1>1, <1>2, <1>3, <1>4, <1>5, <1>6

(* Every step keeps the invariant.                                         *)
LEMMA NextIInv == IInv /\ [LinkNext]_linkVars => IInv'
<1> SUFFICES ASSUME IInv, [LinkNext]_linkVars PROVE IInv'
  OBVIOUS
<1>1. ASSUME NEW t \in Threads, Step(t) PROVE IInv'
    BY <1>1, TypeStep, LocksStep, HoldStep, LeavesStep, PointersStep, MarksStep, ShapeStep,
     BackStep,
     PathStep, TreeStep, KeysStep DEF IInv
<1>2. CASE UNCHANGED linkVars
  BY <1>2, LinksUntouched DEF linkVars, IInv, TypeOK
<1> QED BY <1>1, <1>2 DEF LinkNext, Step

(* The invariant holds throughout.                                         *)
LEMMA InvariantHolds == LinkSpec => []IInv
BY InitIInv, NextIInv, PTL DEF LinkSpec

(* The list the properties speak of consists of the members.               *)
LEMMA ChainIs ==
  IInv => Chain = [n \in Members |-> After[n]]
<1> SUFFICES ASSUME IInv PROVE Reachable(After) = Members
  BY DEF Chain
<1>1. Members \in SUBSET Leaves /\ After \in [Leaves -> Pointer]
  BY AfterIs DEF IInv, TypeOK, Members, AfterExact
<1> QED BY <1>1, ShapeReachable DEF IInv

(* prev_ is the inverse of next_ wherever next_ is not marked (link_split  *)
(* and unlink of src/btree_leaflink.hh), for any number of threads and     *)
(* leaves.                                                                 *)
THEOREM BackLinksCorrect == LinkSpec => []BackLinksExact
<1>1. IInv => BackLinksExact
  BY ChainIs DEF IInv, BackLinks, BackLinksExact
<1> QED BY <1>1, InvariantHolds, PTL

(* A walk along next_ meets every leaf of the list that is not between the *)
(* two pointer stores of its split.                                        *)
LEMMA WalkMeetsMembers ==
  ASSUME IInv, NEW n \in Members,
         \A t \in Threads : pc[t] = "split_fwd" => made[t] # n
  PROVE  n \in Reachable(next)
<1> USE DEF IInv
<1>1. SUFFICES ASSUME NEW S \in SUBSET Leaves, First \in S, ClosedUnder(next, S)
               PROVE  n \in S
  BY DEF Reachable, TypeOK, Members
<1> DEFINE Z == S \cup {m \in Leaves : \E t \in Threads :
                          pc[t] = "split_fwd" /\ node[t] \in S /\ made[t] = m}
<1>2. Z \in SUBSET Leaves /\ First \in Z
  BY <1>1
<1>3. ASSUME NEW m \in Z PROVE After[m] \in Z \cup {NoLeaf}
  <2>1. CASE \E t \in Threads : pc[t] = "split_fwd" /\ node[t] = m
    <3>1. PICK t \in Threads : pc[t] = "split_fwd" /\ node[t] = m
      BY <2>1
    <3>2. After[m] = made[t] /\ made[t] \in Leaves
      BY <3>1, AfterIs DEF AfterExact, ThreadsHoldLeaves, BothLocked, TypeOK
    <3>3. m \in S
      BY <3>1 DEF LocksExclusive, Locks, ThreadsHoldLeaves, BothLocked, TypeOK
    <3> QED BY <3>1, <3>2, <3>3
  <2>2. CASE \A t \in Threads : ~(pc[t] = "split_fwd" /\ node[t] = m)
    <3>1. After[m] = next[m]
      BY <1>2, <2>2, AfterIs DEF AfterExact
    <3>2. CASE m \in S
      BY <1>1, <3>1, <3>2 DEF ClosedUnder
    <3>3. CASE m \notin S
      <4>1. PICK t \in Threads : pc[t] = "split_fwd" /\ node[t] \in S /\ made[t] = m
        BY <3>3
      <4>2. next[node[t]] \in S \cup {NoLeaf} /\ \A d \in S \cap Dead : next[d] \in S \cup {NoLeaf}
        BY <1>1, <4>1 DEF ClosedUnder
      <4>3. next[made[t]] \in S \cup {NoLeaf}
        BY <4>1, <4>2 DEF StalePath
      <4> QED BY <3>1, <4>1, <4>3
    <3> QED BY <3>2, <3>3
  <2> QED BY <2>1, <2>2
<1> HIDE DEF Z
<1>4. n \in Z
  BY <1>2, <1>3 DEF Shape
<1> QED BY <1>4 DEF Z

(* A walk along next_ meets the leaves in key order and misses none that   *)
(* the tree leads to (advance_to_key and scans rely on it), for any number *)
(* of threads and leaves.                                                  *)
THEOREM WalkCorrect == LinkSpec => []WalkFindsLeaves
<1>1. IInv => WalkFindsLeaves
  <2> SUFFICES ASSUME IInv PROVE WalkFindsLeaves
    OBVIOUS
  <2>1. \A n \in Reachable(next) : next[n] # NoLeaf => bound[n] < bound[next[n]]
    BY DEF IInv, LeavesInUse, Reachable
  <2>2. ASSUME NEW n \in tree \ deleted PROVE n \in Reachable(next)
    <3>1. n \in Members
      BY DEF IInv, LeavesInUse, TreeLeads, Members, Hidden, Dead
    <3> QED BY <3>1, WalkMeetsMembers DEF IInv, TreeLeads
  <2> QED BY <2>1, <2>2 DEF WalkFindsLeaves
<1> QED BY <1>1, InvariantHolds, PTL

(* Every step is a step of the abstract list or leaves it alone: a split   *)
(* takes effect with its back pointer store, an unlink with its forward    *)
(* pointer store.                                                          *)
LEMMA ListStep ==
  ASSUME IInv, IInv', [LinkNext]_linkVars
  PROVE  [List!Next]_Chain
<1>1. Chain = [n \in Members |-> After[n]]
  BY ChainIs
<1>2. Chain' = [n \in Members' |-> After'[n]]
  <2>1. (Chain = [n \in Members |-> After[n]])'
    BY ChainIs, PTL
  <2> QED BY <2>1
<1>3. ASSUME NEW t \in Threads, Step(t) PROVE [List!Next]_Chain
  <2>1. CASE pc[t] = "split_back"
    <3>1. List!LinkSplit(node[t], made[t])
      BY <1>1, <1>2, <1>3, <2>1, MembersStep, AfterStep DEF List!LinkSplit
    <3>2. node[t] \in DOMAIN Chain /\ made[t] \in Leaves
      BY <1>1, <1>3, <2>1, AfterStep DEF IInv, TypeOK, ThreadsHoldLeaves, BothLocked
    <3> QED BY <3>1, <3>2 DEF List!Next
  <2>2. CASE pc[t] = "unlink_fwd"
    <3>1. /\ node[t] \in Members \ {First} /\ pred[t] \in Members \ {node[t]}
          /\ \A n \in Members : After[n] = node[t] <=> n = pred[t]
      <4>1. node[t] \in Members /\ pred[t] \in Members \ {node[t]} /\ After[pred[t]] = node[t]
        BY <1>3, <2>2, AfterStep
      <4>2. node[t] # First
        BY <2>2 DEF IInv, ThreadsHoldLeaves, Linked
      <4>3. node[t] # NoLeaf
        BY <4>1, LeafLinkAssumption DEF IInv, TypeOK, Members
      <4> QED BY <4>1, <4>2, <4>3 DEF IInv, Shape
    <3>2. List!Unlink(node[t])
      BY <1>1, <1>2, <1>3, <2>2, <3>1, MembersStep, AfterStep DEF List!Unlink
    <3> QED BY <1>1, <3>1, <3>2 DEF List!Next
  <2>3. CASE pc[t] \notin {"split_back", "unlink_fwd"}
    BY <1>1, <1>2, <1>3, <2>3, MembersStep, AfterStep
  <2> QED BY <2>1, <2>2, <2>3
<1>4. CASE UNCHANGED linkVars
  BY <1>4 DEF linkVars, Chain, Reachable, ClosedUnder, After, Splits
<1> QED BY <1>3, <1>4 DEF LinkNext, Step

(* link_split and unlink implement the abstract list, each operation in    *)
(* one step, for any number of threads and leaves.                         *)
THEOREM ListImplemented == LinkSpec => ImplementsList
<1>1. LinkInit => List!Init
  <2> SUFFICES ASSUME LinkInit PROVE Chain = [n \in {First} |-> NoLeaf]
    BY DEF List!Init
  <2>1. IInv
    BY InitIInv
  <2>2. Members = {First}
    BY LeafLinkAssumption DEF LinkInit, Members, Hidden, Dead
  <2>3. After[First] = NoLeaf
    BY <2>1, AfterIs, LeafLinkAssumption DEF LinkInit, AfterExact, IInv
  <2> QED BY <2>1, <2>2, <2>3, ChainIs
<1>2. IInv /\ IInv' /\ [LinkNext]_linkVars => [List!Next]_Chain
  BY ListStep
<1> QED BY <1>1, <1>2, InvariantHolds, PTL DEF LinkSpec, ImplementsList, List!Spec


-----------------------------------------------------------------------------
(* Scans.                                                                  *)

(* The steps of a split while the moved keys are in both leaves, and all   *)
(* its steps: the inserted key is in no leaf before the last one.          *)
Copying == {"split_lock", "split_back", "split_fwd", "split_parent", "split_strip"}
Splitting == BothLocked \cup {"split_finish"}

(* A leaf that is to be unlinked holds no key.                             *)
DeletedEmpty == \A n \in deleted : perm[n] = {}

(* Until the old leaf is stripped, the new one holds exactly its keys from *)
(* the new bound on.                                                       *)
CopiesKept ==
  \A t \in Threads : pc[t] \in Copying =>
    perm[made[t]] = {k \in perm[node[t]] : k >= bound[made[t]]}

(* A key that a split inserts is not in the table, and no two splits       *)
(* insert the same one.                                                    *)
NewKeys ==
  \A t \in Threads : pc[t] \in Splitting =>
    /\ key[t] \notin Present
    /\ \A u \in Threads : pc[u] \in Splitting /\ key[u] = key[t] => u = t

(* Between the two pointer stores of a split, the old leaf's next_ is not  *)
(* right of the leaf behind the new one.                                   *)
StaleBounds ==
  \A t \in Threads : pc[t] = "split_fwd" /\ next[made[t]] # NoLeaf =>
    next[node[t]] # NoLeaf /\ bound[next[node[t]]] <= bound[next[made[t]]]

(* What the scans rely on besides the invariant of the list.               *)
TableInv == DeletedEmpty /\ CopiesKept /\ NewKeys /\ StaleBounds

(* Every variable of the scans has its type.                               *)
ScanTypeOK ==
  /\ reverse \subseteq Scans /\ open \subseteq Scans /\ gone \subseteq Scans
  /\ at \in [Scans -> Pointer] /\ spc \in [Scans -> ScanPCs]
  /\ ka \in [Scans -> 0..(MaxKey + 1)]
  /\ snap \in [Scans -> SUBSET Keys] /\ missing \in [Scans -> SUBSET Keys]

(* A scan stands on a leaf that was in the list; if the leaf's version is  *)
(* still the one it read, and not a deleted one, the leaf is in the list   *)
(* now.                                                                    *)
AtLeaf(s) ==
  /\ spc[s] \in {"leaf", "advance", "stable", "hop"} => at[s] \in used \ Hidden
  /\ spc[s] = "hop" => s \in reverse
  /\ spc[s] \in {"leaf", "hop"} /\ s \notin gone /\ Unchanged(s) => at[s] \notin deleted

(* The keys a scan still owes are in the table, and ahead of the last key  *)
(* it emitted.                                                             *)
MissingAhead(s) ==
  /\ missing[s] \subseteq Present
  /\ \A k \in missing[s] : IF s \in reverse THEN k < ka[s] ELSE ka[s] < k
  /\ spc[s] = "start" => ka[s] = IF s \in reverse THEN MaxKey + 1 ELSE 0
  /\ spc[s] \in {"start", "done"} => missing[s] = {}

(* A forward scan owes no key left of its leaf.  What its copy of the      *)
(* permutation lacks lies behind everything in it; if the version has not  *)
(* changed, the copy lacks no key of the leaf.  A scan about to advance    *)
(* from a leaf that was unlinked meanwhile goes to one that is not right   *)
(* of any key it owes.                                                     *)
ForwardInv(s) ==
  /\ spc[s] \in {"leaf", "advance", "stable"} => \A k \in missing[s] : bound[at[s]] <= k
  /\ spc[s] = "leaf" =>
       /\ \A j \in snap[s], k \in missing[s] \ snap[s] : j < k
       /\ s \notin gone /\ Unchanged(s) => missing[s] \cap perm[at[s]] \subseteq snap[s]
  /\ spc[s] = "advance" => \A k \in missing[s] :
       /\ k \notin perm[at[s]]
       /\ at[s] \in Dead => next[at[s]] # NoLeaf /\ bound[next[at[s]]] <= k

(* A reverse scan with an unchanged version owes only keys of its copy of  *)
(* the permutation and keys left of its leaf.                              *)
ReverseInv(s) ==
  /\ spc[s] = "leaf" =>
       /\ \A j \in snap[s] : bound[at[s]] <= j
       /\ s \notin gone /\ Unchanged(s) => \A k \in missing[s] : k < bound[at[s]] \/ k \in snap[s]
  /\ spc[s] = "advance" => \A k \in missing[s] : k < bound[at[s]]

(* The invariant of one scan, and the inductive invariant of all of them.  *)
ScanOk(s) ==
  /\ AtLeaf(s) /\ MissingAhead(s)
  /\ IF s \in reverse THEN ReverseInv(s) ELSE ForwardInv(s)

ScanInv == ScanTypeOK /\ \A s \in Scans : ScanOk(s)

(* What no insert or remove changes: leaves stay in use, keep their bounds *)
(* and do not become hidden again, and a leaf that is deleted gets a new   *)
(* version.                                                                *)
LeavesStay ==
  /\ used \subseteq used' /\ deleted \subseteq deleted' /\ watch' \subseteq watch
  /\ \A n \in used : bound'[n] = bound[n] /\ (n \in Hidden' => n \in Hidden)
  /\ \A n \in deleted' \ deleted, s \in Scans : <<s, n>> \notin watch'

(* A scan writes nothing but its own variables.                            *)
TreeUntouched ==
  /\ UNCHANGED <<next, prev, bound, perm, used, deleted, dirty, tree>>
  /\ Hidden' = Hidden /\ Dead' = Dead /\ Members' = Members /\ Present' = Present

-----------------------------------------------------------------------------

(* In a list whose bounds grow along f, different leaves have different    *)
(* bounds, and the successor of a leaf has the next higher bound.          *)
LEMMA ListOrder ==
  ASSUME NEW M \in SUBSET Leaves, NEW f \in [Leaves -> Pointer], NEW B \in [Leaves -> Int], Shape(M, f),
         \A n \in M : f[n] # NoLeaf => B[n] < B[f[n]],
         NEW n \in M, NEW m \in M, m # n
  PROVE  B[n] # B[m] /\ (B[n] < B[m] => f[n] # NoLeaf /\ B[f[n]] <= B[m])
<1> DEFINE Closed(S) == \A x \in S \cap M : f[x] \in S \cup {NoLeaf}
           Before == {x \in M : B[x] <= B[n] /\ (x # n => B[x] < B[n])
                                /\ \A S \in SUBSET Leaves : x \in S /\ Closed(S) => n \in S}
           Behind == {x \in M : f[n] # NoLeaf /\ B[f[n]] <= B[x]}
<1>1. ASSUME NEW x \in M, \A S \in SUBSET Leaves : x \in S /\ Closed(S) => n \in S
      PROVE  B[x] <= B[n] /\ (x # n => B[x] < B[n])
  <2> DEFINE S == {y \in M : y = x \/ B[x] < B[y]}
  <2>1. S \in SUBSET Leaves /\ x \in S /\ Closed(S)
    BY DEF Shape, Pointer
  <2> HIDE DEF S
  <2>2. n \in S
    BY <1>1, <2>1
  <2> QED BY <2>2 DEF S
<1>2. ASSUME NEW x \in Before, x # n
      PROVE  f[x] \in Before
  <2>1. ASSUME NEW S \in SUBSET Leaves, f[x] \in S \cup {NoLeaf}, Closed(S)
        PROVE  n \in S
    <3> DEFINE Z == S \cup {x}
    <3>1. Z \in SUBSET Leaves /\ x \in Z /\ Closed(Z)
      BY <2>1
    <3> HIDE DEF Z
    <3>2. n \in Z
      BY <3>1
    <3> QED BY <1>2, <3>2 DEF Z
  <2>2. f[x] # NoLeaf
    <3> SUFFICES ASSUME f[x] = NoLeaf PROVE FALSE
      OBVIOUS
    <3> DEFINE S == {l \in Leaves : FALSE}
    <3>1. S \in SUBSET Leaves /\ f[x] \in S \cup {NoLeaf} /\ Closed(S) /\ n \notin S
      OBVIOUS
    <3> HIDE DEF S
    <3> QED BY <2>1, <3>1
  <2>3. f[x] \in M
    BY <2>2 DEF Shape
  <2> QED BY <1>1, <2>1, <2>3
<1>3. First \in Before
  BY <1>1 DEF Shape
<1>4. n \in Before /\ Behind \subseteq M /\ Before \subseteq M
  OBVIOUS
<1>5. ASSUME NEW x \in Behind
      PROVE  f[x] \in Behind \cup {NoLeaf}
  BY DEF Shape, Pointer
<1>6. f[n] \in Behind \cup {NoLeaf}
  BY DEF Shape, Pointer
<1> DEFINE Z == Before \cup Behind
<1>7. Z \in SUBSET Leaves /\ First \in Z /\ Closed(Z)
  BY <1>2, <1>3, <1>4, <1>5, <1>6
<1>8. m \in Z
  <2> HIDE DEF Z
  <2> QED BY <1>7 DEF Shape
<1>9. CASE m \in Before
  BY <1>9
<1>10. CASE m \in Behind
  BY <1>10 DEF Pointer, Shape
<1> QED BY <1>8, <1>9, <1>10

(* The list in terms of the members: bounds grow along it, the leaf of a   *)
(* split is in it, and so is the new leaf once the back pointer is stored. *)
LEMMA MemberFacts ==
  ASSUME IInv
  PROVE  /\ Members \in SUBSET Leaves /\ After \in [Leaves -> Pointer] /\ Shape(Members, After)
         /\ \A n \in Members : After[n] # NoLeaf => After[n] \in Members /\ bound[n] < bound[After[n]]
         /\ \A t \in Threads : pc[t] \in BothLocked => node[t] \in Members /\ made[t] \in Leaves
         /\ \A t \in Threads : pc[t] \in {"split_fwd", "split_parent", "split_strip", "split_release"} =>
              /\ After[node[t]] = made[t] /\ made[t] \in Members /\ After[made[t]] = next[made[t]]
<1> USE DEF IInv
<1>1. Members \in SUBSET Leaves /\ After \in [Leaves -> Pointer] /\ Shape(Members, After)
  BY AfterIs DEF TypeOK, Members, AfterExact
<1>2. ASSUME NEW n \in Members, After[n] # NoLeaf
      PROVE  After[n] \in Members /\ bound[n] < bound[After[n]]
  <2>1. After[n] \in Members
    BY <1>1, <1>2 DEF Shape
  <2>2. CASE \E t \in Threads : pc[t] = "split_fwd" /\ node[t] = n
    BY <2>1, <2>2, AfterIs DEF AfterExact, ThreadsHoldLeaves, BothLocked
  <2>3. CASE ~\E t \in Threads : pc[t] = "split_fwd" /\ node[t] = n
    BY <1>1, <1>2, <2>1, <2>3, AfterIs DEF AfterExact, LeavesInUse
  <2> QED BY <2>1, <2>2, <2>3
<1>3. ASSUME NEW t \in Threads, pc[t] \in BothLocked
      PROVE  /\ node[t] \in Members /\ made[t] \in Leaves /\ node[t] # made[t] /\ made[t] \notin Dead
             /\ \A u \in Threads : pc[u] \in BothLocked /\ {node[t], made[t]} \cap {node[u], made[u]} # {} => u = t
  <2>1. /\ node[t] \in Leaves /\ made[t] \in Leaves /\ node[t] \in used /\ node[t] # made[t]
        /\ node[t] \notin deleted /\ made[t] \notin deleted
    BY <1>3 DEF ThreadsHoldLeaves, TypeOK, BothLocked
  <2>2. ASSUME NEW u \in Threads, pc[u] \in BothLocked, {node[t], made[t]} \cap {node[u], made[u]} # {}
        PROVE  u = t
    BY <1>3, <2>1, <2>2 DEF LocksExclusive, Locks, BothLocked
  <2>3. node[t] \notin Hidden
    BY <1>3, <2>1, <2>2 DEF Hidden, BothLocked
  <2> QED BY <2>1, <2>2, <2>3 DEF Members, Dead
<1>4. ASSUME NEW t \in Threads, pc[t] \in {"split_fwd", "split_parent", "split_strip", "split_release"}
      PROVE  After[node[t]] = made[t] /\ made[t] \in Members /\ After[made[t]] = next[made[t]]
  <2>1. pc[t] \in BothLocked
    BY <1>4 DEF BothLocked
  <2>2. After[made[t]] = next[made[t]]
    BY <1>3, <2>1, AfterIs DEF AfterExact, BothLocked
  <2>3. After[node[t]] = made[t]
    <3>1. CASE pc[t] = "split_fwd"
      BY <3>1, AfterIs DEF AfterExact
    <3>2. CASE pc[t] # "split_fwd"
      <4>1. next[node[t]] = made[t]
        BY <1>4, <3>2 DEF PointersHeld
      <4>2. \A u \in Threads : ~(pc[u] = "split_fwd" /\ node[u] = node[t])
        BY <1>3, <2>1, <3>2 DEF BothLocked
      <4> QED BY <1>1, <1>3, <2>1, <4>1, <4>2, AfterIs DEF AfterExact
    <3> QED BY <3>1, <3>2
  <2> QED BY <1>1, <1>3, <2>1, <2>2, <2>3, LeafLinkAssumption DEF Shape
<1> QED BY <1>1, <1>2, <1>3, <1>4

(* Bounds order the leaves of the list.                                    *)
LEMMA MembersOrdered ==
  ASSUME IInv, NEW n \in Members, NEW m \in Members, m # n
  PROVE  bound[n] # bound[m] /\ (bound[n] < bound[m] => After[n] # NoLeaf /\ bound[After[n]] <= bound[m])
<1>1. bound \in [Leaves -> Int]
  BY LeafLinkAssumption DEF IInv, TypeOK
<1> QED BY <1>1, MemberFacts, ListOrder

(* Every key of the table is in a leaf of the list.                        *)
LEMMA PresentKey ==
  ASSUME IInv, TableInv, NEW k \in Present
  PROVE  k \in Keys /\ \E m \in Members : k \in perm[m]
<1> USE DEF IInv, TableInv
<1>1. PICK m \in used : k \in perm[m]
  BY DEF Present
<1>2. k \in Keys /\ m \notin Dead
  BY <1>1 DEF TypeOK, DeletedEmpty, Dead
<1>3. CASE m \in Hidden
  <2>1. PICK t \in Threads : made[t] = m /\ pc[t] \in {"split_lock", "split_back"}
    BY <1>3 DEF Hidden
  <2>2. k \in perm[node[t]] /\ node[t] \in Members
    BY <1>1, <2>1, MemberFacts DEF CopiesKept, Copying, BothLocked
  <2> QED BY <1>2, <2>2
<1> QED BY <1>1, <1>2, <1>3 DEF Members

(* A key of the table that is not below a leaf's bound, and not in the     *)
(* leaf, is not below the bound of the next leaf either.                   *)
LEMMA HomeIsRight ==
  ASSUME IInv, TableInv, NEW k \in Present, NEW n \in Members, bound[n] <= k, k \notin perm[n]
  PROVE  After[n] # NoLeaf /\ bound[After[n]] <= k
<1> USE DEF IInv, TableInv
<1>1. PICK m \in Members : k \in perm[m]
  BY PresentKey
<1>2. k \in Int /\ m # n /\ bound[m] <= k /\ \A l \in Leaves : bound[l] \in Int
  BY <1>1, MemberFacts, LeafLinkAssumption DEF KeysFit, KeysAbove, TypeOK, Keys
<1>3. CASE bound[n] < bound[m]
  BY <1>2, <1>3, MemberFacts, MembersOrdered
<1>4. CASE bound[m] < bound[n]
  <2>1. After[m] \in Members /\ bound[After[m]] <= bound[n]
    BY <1>2, <1>4, MemberFacts, MembersOrdered
  <2>2. CASE \E t \in Threads : node[t] = m /\ pc[t] \in {"split_fwd", "split_parent", "split_strip"}
    <3>1. PICK t \in Threads : node[t] = m /\ pc[t] \in {"split_fwd", "split_parent", "split_strip"}
      BY <2>2
    <3>2. After[m] = made[t] /\ After[made[t]] = next[made[t]] /\ Below(k, next[made[t]])
      BY <1>1, <3>1, MemberFacts DEF KeysFit, SplitKeys
    <3>3. CASE n = made[t]
      BY <1>1, <3>1, <3>3 DEF CopiesKept, Copying
    <3>4. CASE n # made[t]
      <4>1. bound[made[t]] < bound[n]
        BY <1>2, <2>1, <3>2, <3>4, MemberFacts, MembersOrdered
      <4>2. After[made[t]] # NoLeaf /\ bound[After[made[t]]] <= bound[n]
        BY <2>1, <3>2, <3>4, <4>1, MembersOrdered
      <4>3. next[made[t]] \in Leaves
        BY <2>1, <3>2, <4>2, MemberFacts DEF Pointer
      <4> QED BY <1>2, <3>2, <4>2, <4>3, MemberFacts DEF Below
    <3> QED BY <3>3, <3>4
  <2>3. CASE ~\E t \in Threads : node[t] = m /\ pc[t] \in {"split_fwd", "split_parent", "split_strip"}
    <3>1. After[m] = next[m]
      BY <2>3, MemberFacts, AfterIs DEF AfterExact
    <3>2. Below(k, next[m])
      BY <1>1, <2>3 DEF KeysFit, KeysBelow
    <3> QED BY <1>2, <2>1, <3>1, <3>2, MemberFacts, LeafLinkAssumption DEF Below
  <2> QED BY <2>2, <2>3
<1>5. bound[n] # bound[m]
  BY <1>2, MembersOrdered
<1> QED BY <1>2, <1>3, <1>4, <1>5, MemberFacts

(* Of a leaf whose split copied its keys, such a key lies behind both      *)
(* halves.                                                                 *)
LEMMA SplitHalves ==
  ASSUME IInv, TableInv, NEW n \in Members, NEW t \in Threads, node[t] = n,
         pc[t] \in {"split_fwd", "split_parent", "split_strip"},
         NEW k \in Present, bound[n] <= k, k \notin perm[n]
  PROVE  next[made[t]] # NoLeaf /\ bound[next[made[t]]] <= k
<1>1. After[n] = made[t] /\ made[t] \in Members /\ After[made[t]] = next[made[t]]
  BY MemberFacts
<1>2. bound[made[t]] <= k
  BY <1>1, HomeIsRight
<1>3. k \notin perm[made[t]]
  BY DEF TableInv, CopiesKept, Copying
<1> QED BY <1>1, <1>2, <1>3, HomeIsRight

(* The keys of a leaf come before every key of the table that is right of  *)
(* the leaf's bound and not in the leaf.                                   *)
LEMMA PermIsPrefix ==
  ASSUME IInv, TableInv, NEW n \in Members, NEW j \in perm[n],
         NEW k \in Present, bound[n] <= k, k \notin perm[n]
  PROVE  j < k
<1> USE DEF IInv
<1>1. j \in Int /\ k \in Int /\ \A l \in Leaves : bound[l] \in Int
  BY PresentKey, MemberFacts, LeafLinkAssumption DEF TypeOK, Keys
<1>2. CASE \E t \in Threads : node[t] = n /\ pc[t] \in {"split_fwd", "split_parent", "split_strip"}
  <2>1. PICK t \in Threads : node[t] = n /\ pc[t] \in {"split_fwd", "split_parent", "split_strip"}
    BY <1>2
  <2>2. next[made[t]] # NoLeaf /\ bound[next[made[t]]] <= k
    BY <2>1, SplitHalves
  <2>3. Below(j, next[made[t]])
    BY <2>1 DEF KeysFit, SplitKeys
  <2>4. next[made[t]] \in Leaves
    BY <2>1, <2>2, MemberFacts DEF TypeOK, Pointer
  <2> QED BY <1>1, <2>2, <2>3, <2>4 DEF Below
<1>3. CASE ~\E t \in Threads : node[t] = n /\ pc[t] \in {"split_fwd", "split_parent", "split_strip"}
  <2>1. After[n] = next[n]
    BY <1>3, MemberFacts, AfterIs DEF AfterExact
  <2>2. Below(j, next[n])
    BY <1>3 DEF KeysFit, KeysBelow
  <2>3. next[n] # NoLeaf /\ bound[next[n]] <= k
    BY <2>1, HomeIsRight
  <2> QED BY <1>1, <2>1, <2>2, <2>3, MemberFacts DEF Below
<1> QED BY <1>2, <1>3

(* A walk along next_ from a leaf of the list does not jump over a key of  *)
(* the table, even between the two pointer stores of a split.              *)
LEMMA NextIsNotPast ==
  ASSUME IInv, TableInv, NEW n \in Members, NEW k \in Present, bound[n] <= k, k \notin perm[n]
  PROVE  next[n] # NoLeaf /\ bound[next[n]] <= k
<1> USE DEF IInv
<1>1. k \in Int /\ \A l \in Leaves : bound[l] \in Int
  BY PresentKey, LeafLinkAssumption DEF TypeOK, Keys
<1>2. CASE \E t \in Threads : node[t] = n /\ pc[t] = "split_fwd"
  <2>1. PICK t \in Threads : node[t] = n /\ pc[t] = "split_fwd"
    BY <1>2
  <2>2. next[made[t]] # NoLeaf /\ bound[next[made[t]]] <= k
    BY <2>1, SplitHalves
  <2>3. next[n] # NoLeaf /\ bound[next[n]] <= bound[next[made[t]]]
    BY <2>1, <2>2 DEF TableInv, StaleBounds
  <2>4. next[n] \in Leaves /\ next[made[t]] \in Leaves
    BY <2>1, <2>2, <2>3, MemberFacts DEF TypeOK, Pointer
  <2> QED BY <1>1, <2>2, <2>3, <2>4
<1>3. CASE ~\E t \in Threads : node[t] = n /\ pc[t] = "split_fwd"
  <2>1. After[n] = next[n]
    BY <1>3, MemberFacts, AfterIs DEF AfterExact
  <2> QED BY <2>1, HomeIsRight
<1> QED BY <1>2, <1>3

(* A leaf of the list the tree does not lead to follows the leaf it was    *)
(* split off from.                                                         *)
LEMMA OutsideTree ==
  ASSUME IInv, NEW n \in Members, n \notin tree
  PROVE  \E t \in Threads :
           /\ made[t] = n /\ pc[t] \in {"split_fwd", "split_parent"}
           /\ node[t] \in Members /\ After[node[t]] = n
<1>1. PICK t \in Threads : made[t] = n /\ pc[t] \in {"split_fwd", "split_parent"}
  BY DEF IInv, TreeLeads
<1> QED BY <1>1, MemberFacts DEF BothLocked

(* The leaf that reach_leaf finds for x holds every key of the table from  *)
(* its bound up to x, even while splits of it have not told the parent.    *)
LEMMA ReachedHolds ==
  ASSUME IInv, TableInv, NEW x \in Int, NEW n \in Leaves, Reaches(x, n), n \notin deleted,
         NEW k \in Present, bound[n] <= k, k <= x
  PROVE  n \in Members /\ k \in perm[n]
<1> USE DEF IInv
<1>1. n \in tree /\ \A m \in tree : bound[m] <= x => bound[m] <= bound[n]
  BY DEF Reaches
<1>2. n \in Members
  BY <1>1 DEF Members, Hidden, Dead, TreeLeads, LeavesInUse
<1>3. k \in Int /\ \A l \in Leaves : bound[l] \in Int
  BY PresentKey, LeafLinkAssumption DEF TypeOK, Keys
<1>4. SUFFICES ASSUME k \notin perm[n] PROVE FALSE
  BY <1>2
<1> DEFINE y == After[n]
<1>5. y \in Members /\ bound[y] <= k /\ bound[n] < bound[y]
  BY <1>2, <1>4, HomeIsRight, MemberFacts
<1>6. y \notin tree
  BY <1>1, <1>3, <1>5, MemberFacts
<1>7. PICK t \in Threads : /\ made[t] = y /\ pc[t] \in {"split_fwd", "split_parent"}
                           /\ node[t] \in Members /\ After[node[t]] = y
  BY <1>5, <1>6, OutsideTree
<1>8. node[t] = n
  BY <1>2, <1>5, <1>7, MemberFacts, LeafLinkAssumption DEF Shape
<1> DEFINE z == next[y]
<1>9. z # NoLeaf /\ bound[z] <= k
  BY <1>2, <1>4, <1>7, <1>8, SplitHalves
<1>10. z = After[y] /\ z \in Members /\ bound[y] < bound[z]
  BY <1>5, <1>7, <1>9, MemberFacts
<1>11. z \notin tree
  BY <1>1, <1>3, <1>5, <1>9, <1>10, MemberFacts
<1>12. PICK u \in Threads : /\ made[u] = z /\ pc[u] \in {"split_fwd", "split_parent"}
                            /\ node[u] \in Members /\ After[node[u]] = z
  BY <1>10, <1>11, OutsideTree
<1>13. node[u] = y
  BY <1>5, <1>10, <1>12, MemberFacts, LeafLinkAssumption DEF Shape
<1>14. u = t
  BY <1>5, <1>7, <1>12, <1>13, MemberFacts DEF LocksExclusive, Locks
<1> QED BY <1>3, <1>5, <1>7, <1>8, <1>13, <1>14, <1>2, MemberFacts

(* A key that a split inserts belongs to a leaf the split has locked.      *)
LEMMA SplitKeyHome ==
  ASSUME IInv, NEW t \in Threads, pc[t] \in Splitting
  PROVE  \E h \in Members : /\ h \in Locks(t) /\ bound[h] <= key[t]
                            /\ After[h] # NoLeaf => key[t] < bound[After[h]]
<1> USE DEF IInv
<1>1. key[t] \in Int /\ \A l \in Leaves : bound[l] \in Int
  BY LeafLinkAssumption DEF TypeOK, Keys
<1>2. CASE pc[t] \in {"split_lock", "split_back"}
  <2>1. node[t] \in Members /\ node[t] \in Locks(t) /\ bound[node[t]] <= key[t]
    BY <1>2, MemberFacts DEF BothLocked, Locks, ThreadsHoldLeaves
  <2>2. After[node[t]] = next[node[t]]
    <3>1. \A u \in Threads : ~(pc[u] = "split_fwd" /\ node[u] = node[t])
      BY <1>2, <2>1, MemberFacts DEF LocksExclusive, Locks
    <3> QED BY <2>1, <3>1, MemberFacts, AfterIs DEF AfterExact
  <2>3. Below(key[t], next[node[t]])
    BY <1>2 DEF KeysFit, SplitKeys, PointersHeld, NextHeld
  <2> QED BY <2>1, <2>2, <2>3 DEF Below
<1>3. CASE pc[t] \in {"split_fwd", "split_parent", "split_strip", "split_release"}
  <2>1. /\ node[t] \in Members /\ made[t] \in Members /\ After[node[t]] = made[t]
        /\ After[made[t]] = next[made[t]] /\ bound[node[t]] <= key[t]
        /\ node[t] \in Locks(t) /\ made[t] \in Locks(t)
    BY <1>3, MemberFacts DEF BothLocked, Locks, ThreadsHoldLeaves
  <2>2. Below(key[t], next[made[t]])
    BY <1>3 DEF KeysFit, SplitKeys
  <2> QED BY <1>1, <2>1, <2>2, MemberFacts DEF Below
<1>4. CASE pc[t] = "split_finish"
  <2>1. PICK h \in Leaves : h = IF key[t] < bound[made[t]] THEN node[t] ELSE made[t]
    BY <1>4 DEF ThreadsHoldLeaves, TypeOK
  <2>2. h \in Locks(t) /\ h \in used /\ h \notin deleted /\ bound[h] <= key[t]
    BY <1>1, <1>4, <2>1 DEF Locks, ThreadsHoldLeaves
  <2>3. Below(key[t], next[h])
    BY <1>4, <2>1 DEF KeysFit, SplitKeys
  <2>4. \A u \in Threads : pc[u] \in BothLocked => node[u] # h /\ made[u] # h
    BY <1>4, <2>1, <2>2 DEF LocksExclusive, Locks, BothLocked
  <2>5. h \in Members /\ After[h] = next[h]
    BY <2>2, <2>4, AfterIs DEF AfterExact, Members, Hidden, Dead, BothLocked
  <2> QED BY <2>2, <2>3, <2>5 DEF Below
<1> QED BY <1>2, <1>3, <1>4 DEF Splitting, BothLocked

(* A key that find_insert does not find in its leaf is nowhere in the      *)
(* table, and no split is about to insert it.                              *)
LEMMA OwnerIsNew ==
  ASSUME IInv, TableInv, NEW n \in Leaves, NEW k \in Keys, Owner(k, n), k \notin perm[n]
  PROVE  /\ k \notin Present
         /\ \A t \in Threads : pc[t] \in Splitting => key[t] # k
<1> USE DEF IInv
<1>1. /\ n \in Members /\ bound[n] <= k /\ Below(k, next[n])
      /\ \A t \in Threads : n \notin Locks(t)
  BY OwnerFits
<1>2. After[n] = next[n]
  <2>1. \A t \in Threads : ~(pc[t] = "split_fwd" /\ node[t] = n)
    BY <1>1 DEF Locks
  <2> QED BY <2>1, AfterIs DEF AfterExact
<1>3. k \in Int /\ \A l \in Leaves : bound[l] \in Int
  BY LeafLinkAssumption DEF TypeOK, Keys
<1>4. After[n] # NoLeaf => After[n] \in Leaves /\ k < bound[After[n]]
  BY <1>1, <1>2 DEF Below, TypeOK, Pointer
<1>5. k \notin Present
  BY <1>1, <1>3, <1>4, HomeIsRight
<1>6. ASSUME NEW t \in Threads, pc[t] \in Splitting, key[t] = k
      PROVE  FALSE
  <2>1. PICK h \in Members : /\ h \in Locks(t) /\ bound[h] <= k
                             /\ After[h] # NoLeaf => k < bound[After[h]]
    BY <1>6, SplitKeyHome
  <2>2. h # n /\ h \in Leaves /\ n \in Leaves
    BY <1>1, <2>1, MemberFacts
  <2>3. bound[n] # bound[h] /\ ~(bound[n] < bound[h])
    BY <1>1, <1>3, <1>4, <2>1, <2>2, MembersOrdered
  <2>4. ~(bound[h] < bound[n])
    <3> SUFFICES ASSUME bound[h] < bound[n] PROVE FALSE
      OBVIOUS
    <3>1. After[h] # NoLeaf /\ bound[After[h]] <= bound[n] /\ After[h] \in Leaves
      BY <1>1, <2>1, <2>2, MembersOrdered, MemberFacts
    <3> QED BY <1>1, <1>3, <2>1, <2>2, <3>1
  <2> QED BY <1>3, <2>2, <2>3, <2>4
<1> QED BY <1>5, <1>6

(* Inserts and removes leave alone what LeavesStay lists.                  *)
LEMMA LeavesLast ==
  ASSUME IInv, TableInv, NEW t \in Threads, Step(t)
  PROVE  LeavesStay
<1> USE DEF IInv, TableInv, links, versions, locals, Goto, TypeOK, Pointer, Keys, Touch
<1>1. ASSUME NEW n \in Leaves, NEW k \in Keys, Insert(t, n, k)
     PROVE  LeavesStay
  BY <1>1 DEF Insert, Return, Hidden, PCs, LeavesStay
<1>2. ASSUME NEW n \in Leaves, NEW k \in Keys, Remove(t, n, k)
     PROVE  LeavesStay
  BY <1>2 DEF Remove, Return, Hidden, PCs, LeavesStay
<1>3. ASSUME NEW n \in Leaves, NEW k \in Keys, UnlinkBegin(t, n, k)
     PROVE  LeavesStay
  BY <1>3 DEF UnlinkBegin, Return, Hidden, PCs, LeavesStay
<1>4. ASSUME NEW n \in Leaves, NEW k \in Keys, NEW b \in Keys, SplitBegin(t, n, k, b)
     PROVE  LeavesStay
  <2>1. Fresh \in Leaves \ used
    BY <1>4, FreshLeaf DEF SplitBegin
  <2> QED BY <1>4, <2>1 DEF SplitBegin, Hidden, LeavesStay
<1>5. CASE SplitLock(t)
  BY <1>5 DEF SplitLock, Return, Hidden, PCs, LeavesStay
<1>6. CASE SplitBack(t)
  BY <1>6 DEF SplitBack, Return, Hidden, PCs, LeavesStay
<1>7. CASE SplitFwd(t)
  BY <1>7 DEF SplitFwd, Return, Hidden, PCs, LeavesStay
<1>8. CASE SplitParent(t)
  BY <1>8 DEF SplitParent, Return, Hidden, PCs, LeavesStay
<1>9. CASE SplitStrip(t)
  BY <1>9 DEF SplitStrip, Return, Hidden, PCs, LeavesStay
<1>10. CASE SplitRelease(t)
  BY <1>10 DEF SplitRelease, Return, Hidden, PCs, LeavesStay
<1>11. CASE SplitFinish(t)
  BY <1>11 DEF SplitFinish, Return, Hidden, PCs, LeavesStay
<1>12. CASE UnlinkLock(t)
  BY <1>12 DEF UnlinkLock, Return, Hidden, PCs, LeavesStay
<1>13. CASE UnlinkRead(t)
  BY <1>13 DEF UnlinkRead, Return, Hidden, PCs, LeavesStay
<1>14. CASE UnlinkCas(t)
  BY <1>14 DEF UnlinkCas, Return, Hidden, PCs, LeavesStay
<1>15. CASE UnlinkBack(t)
  BY <1>15 DEF UnlinkBack, Return, Hidden, PCs, LeavesStay
<1>16. CASE UnlinkFwd(t)
  BY <1>16 DEF UnlinkFwd, Return, Hidden, PCs, LeavesStay
<1>17. CASE UnlinkParent(t)
  BY <1>17 DEF UnlinkParent, Return, Hidden, PCs, LeavesStay
<1> QED
  BY <1>1, <1>2, <1>3, <1>4, <1>5, <1>6, <1>7, <1>8, <1>9,
     <1>10, <1>11, <1>12, <1>13, <1>14, <1>15, <1>16, <1>17 DEF Step, Continue

(* A key of the table enters no leaf that is in use: keys move only into   *)
(* new leaves.                                                             *)
LEMMA NoOldKeyEnters ==
  ASSUME IInv, TableInv, NEW t \in Threads, Step(t)
  PROVE  \A m \in used : perm'[m] \cap Present \subseteq perm[m]
<1> USE DEF IInv, TableInv, links, versions, locals, Goto, TypeOK, Pointer, Keys, Touch
<1>1. ASSUME NEW n \in Leaves, NEW k \in Keys, Insert(t, n, k)
     PROVE  \A m \in used : perm'[m] \cap Present \subseteq perm[m]
  <2>1. k \notin Present
    BY <1>1, OwnerIsNew DEF Insert
  <2> QED BY <1>1, <2>1 DEF Insert
<1>2. ASSUME NEW n \in Leaves, NEW k \in Keys, Remove(t, n, k)
     PROVE  \A m \in used : perm'[m] \cap Present \subseteq perm[m]
  BY <1>2 DEF Remove
<1>3. ASSUME NEW n \in Leaves, NEW k \in Keys, UnlinkBegin(t, n, k)
     PROVE  \A m \in used : perm'[m] \cap Present \subseteq perm[m]
  BY <1>3 DEF UnlinkBegin
<1>4. ASSUME NEW n \in Leaves, NEW k \in Keys, NEW b \in Keys, SplitBegin(t, n, k, b)
     PROVE  \A m \in used : perm'[m] \cap Present \subseteq perm[m]
  <2>1. Fresh \in Leaves \ used
    BY <1>4, FreshLeaf DEF SplitBegin
  <2> QED BY <1>4, <2>1 DEF SplitBegin, SplitPerm
<1>5. CASE SplitLock(t)
  BY <1>5 DEF SplitLock
<1>6. CASE SplitBack(t)
  BY <1>6 DEF SplitBack
<1>7. CASE SplitFwd(t)
  BY <1>7 DEF SplitFwd
<1>8. CASE SplitParent(t)
  BY <1>8 DEF SplitParent
<1>9. CASE SplitStrip(t)
  BY <1>9 DEF SplitStrip
<1>10. CASE SplitRelease(t)
  BY <1>10 DEF SplitRelease
<1>11. CASE SplitFinish(t)
  <2>1. key[t] \notin Present
    BY <1>11 DEF SplitFinish, NewKeys, Splitting
  <2> QED BY <1>11, <2>1 DEF SplitFinish
<1>12. CASE UnlinkLock(t)
  BY <1>12 DEF UnlinkLock
<1>13. CASE UnlinkRead(t)
  BY <1>13 DEF UnlinkRead
<1>14. CASE UnlinkCas(t)
  BY <1>14 DEF UnlinkCas
<1>15. CASE UnlinkBack(t)
  BY <1>15 DEF UnlinkBack
<1>16. CASE UnlinkFwd(t)
  BY <1>16 DEF UnlinkFwd
<1>17. CASE UnlinkParent(t)
  BY <1>17 DEF UnlinkParent
<1> QED
  BY <1>1, <1>2, <1>3, <1>4, <1>5, <1>6, <1>7, <1>8, <1>9,
     <1>10, <1>11, <1>12, <1>13, <1>14, <1>15, <1>16, <1>17 DEF Step, Continue

(* An unlinked leaf keeps its next_, and only leaves of the list are       *)
(* unlinked.                                                               *)
LEMMA DeadNextFrozen ==
  ASSUME IInv, TableInv, NEW t \in Threads, Step(t)
  PROVE  \A m \in Dead' : next'[m] = next[m] /\ (m \in Dead \/ m \in Members)
<1> USE DEF IInv, TableInv, links, versions, locals, Goto, TypeOK, Pointer, Keys, Touch
<1>1. ASSUME NEW n \in Leaves, NEW k \in Keys, Insert(t, n, k)
     PROVE  \A m \in Dead' : next'[m] = next[m] /\ (m \in Dead \/ m \in Members)
  BY <1>1, DeadStep DEF Insert, Return, PCs
<1>2. ASSUME NEW n \in Leaves, NEW k \in Keys, Remove(t, n, k)
     PROVE  \A m \in Dead' : next'[m] = next[m] /\ (m \in Dead \/ m \in Members)
  BY <1>2, DeadStep DEF Remove, Return, PCs
<1>3. ASSUME NEW n \in Leaves, NEW k \in Keys, UnlinkBegin(t, n, k)
     PROVE  \A m \in Dead' : next'[m] = next[m] /\ (m \in Dead \/ m \in Members)
  BY <1>3, DeadStep DEF UnlinkBegin, Return, PCs
<1>4. ASSUME NEW n \in Leaves, NEW k \in Keys, NEW b \in Keys, SplitBegin(t, n, k, b)
     PROVE  \A m \in Dead' : next'[m] = next[m] /\ (m \in Dead \/ m \in Members)
  BY <1>4, DeadStep DEF SplitBegin, Return, PCs
<1>5. CASE SplitLock(t)
  <2>1. made[t] \notin Dead
    BY <1>5 DEF SplitLock, Dead, ThreadsHoldLeaves, BothLocked
  <2> QED BY <1>5, <2>1, DeadStep DEF SplitLock, Dead
<1>6. CASE SplitBack(t)
  BY <1>6, DeadStep DEF SplitBack, Return, PCs
<1>7. CASE SplitFwd(t)
  <2>1. node[t] \notin Dead
    BY <1>7 DEF SplitFwd, Dead, ThreadsHoldLeaves, BothLocked
  <2> QED BY <1>7, <2>1, DeadStep DEF SplitFwd, Dead
<1>8. CASE SplitParent(t)
  BY <1>8, DeadStep DEF SplitParent, Return, PCs
<1>9. CASE SplitStrip(t)
  BY <1>9, DeadStep DEF SplitStrip, Return, PCs
<1>10. CASE SplitRelease(t)
  BY <1>10, DeadStep DEF SplitRelease, Return, PCs
<1>11. CASE SplitFinish(t)
  BY <1>11, DeadStep DEF SplitFinish, Return, PCs
<1>12. CASE UnlinkLock(t)
  BY <1>12, DeadStep DEF UnlinkLock, Return, PCs
<1>13. CASE UnlinkRead(t)
  BY <1>13, DeadStep DEF UnlinkRead, Return, PCs
<1>14. CASE UnlinkCas(t)
  BY <1>14, DeadStep DEF UnlinkCas, Return, PCs
<1>15. CASE UnlinkBack(t)
  BY <1>15, DeadStep DEF UnlinkBack, Return, PCs
<1>16. CASE UnlinkFwd(t)
  <2>1. /\ pred[t] \notin Dead /\ node[t] \in Members /\ pred[t] # node[t]
    BY <1>16, AfterStep DEF UnlinkFwd, Members
  <2> QED BY <1>16, <2>1, DeadStep DEF UnlinkFwd, Dead, Members
<1>17. CASE UnlinkParent(t)
  BY <1>17, DeadStep DEF UnlinkParent, Return, PCs
<1> QED
  BY <1>1, <1>2, <1>3, <1>4, <1>5, <1>6, <1>7, <1>8, <1>9,
     <1>10, <1>11, <1>12, <1>13, <1>14, <1>15, <1>16, <1>17 DEF Step, Continue

(* A leaf is deleted when it is empty, and nobody inserts into it.         *)
LEMMA DeletedStep ==
  ASSUME IInv, TableInv, NEW t \in Threads, Step(t)
  PROVE  DeletedEmpty'
<1> USE DEF IInv, TableInv, links, versions, locals, Goto, TypeOK, Pointer, Keys, Touch
<1>1. ASSUME NEW n \in Leaves, NEW k \in Keys, Insert(t, n, k)
     PROVE  DeletedEmpty'
  BY <1>1 DEF Insert, DeletedEmpty, Owner
<1>2. ASSUME NEW n \in Leaves, NEW k \in Keys, Remove(t, n, k)
     PROVE  DeletedEmpty'
  BY <1>2 DEF Remove, DeletedEmpty
<1>3. ASSUME NEW n \in Leaves, NEW k \in Keys, UnlinkBegin(t, n, k)
     PROVE  DeletedEmpty'
  BY <1>3 DEF UnlinkBegin, DeletedEmpty
<1>4. ASSUME NEW n \in Leaves, NEW k \in Keys, NEW b \in Keys, SplitBegin(t, n, k, b)
     PROVE  DeletedEmpty'
  <2>1. Fresh \in Leaves \ used
    BY <1>4, FreshLeaf DEF SplitBegin
  <2> QED BY <1>4, <2>1 DEF SplitBegin, SplitPerm, DeletedEmpty, LeavesInUse
<1>5. CASE SplitLock(t)
  BY <1>5 DEF SplitLock, DeletedEmpty
<1>6. CASE SplitBack(t)
  BY <1>6 DEF SplitBack, DeletedEmpty
<1>7. CASE SplitFwd(t)
  BY <1>7 DEF SplitFwd, DeletedEmpty
<1>8. CASE SplitParent(t)
  BY <1>8 DEF SplitParent, DeletedEmpty
<1>9. CASE SplitStrip(t)
  BY <1>9 DEF SplitStrip, DeletedEmpty
<1>10. CASE SplitRelease(t)
  BY <1>10 DEF SplitRelease, DeletedEmpty
<1>11. CASE SplitFinish(t)
  BY <1>11 DEF SplitFinish, DeletedEmpty, ThreadsHoldLeaves
<1>12. CASE UnlinkLock(t)
  BY <1>12 DEF UnlinkLock, DeletedEmpty
<1>13. CASE UnlinkRead(t)
  BY <1>13 DEF UnlinkRead, DeletedEmpty
<1>14. CASE UnlinkCas(t)
  BY <1>14 DEF UnlinkCas, DeletedEmpty
<1>15. CASE UnlinkBack(t)
  BY <1>15 DEF UnlinkBack, DeletedEmpty
<1>16. CASE UnlinkFwd(t)
  BY <1>16 DEF UnlinkFwd, DeletedEmpty
<1>17. CASE UnlinkParent(t)
  BY <1>17 DEF UnlinkParent, DeletedEmpty
<1> QED
  BY <1>1, <1>2, <1>3, <1>4, <1>5, <1>6, <1>7, <1>8, <1>9,
     <1>10, <1>11, <1>12, <1>13, <1>14, <1>15, <1>16, <1>17 DEF Step, Continue

(* Nobody but the split itself changes the keys of its two leaves.         *)
LEMMA CopiesStep ==
  ASSUME IInv, TableInv, NEW t \in Threads, Step(t)
  PROVE  CopiesKept'
<1> USE DEF IInv, TableInv, links, versions, locals, Goto, TypeOK, Pointer, Keys, Touch
<1>1. ASSUME NEW n \in Leaves, NEW k \in Keys, Insert(t, n, k)
     PROVE  CopiesKept'
  <2>1. \A u \in Threads : pc[u] \in Copying => node[u] # n /\ made[u] # n
    BY <1>1 DEF Insert, Owner, Locked, Locks, Copying
  <2> QED BY <1>1, <2>1 DEF Insert, CopiesKept, Copying
<1>2. ASSUME NEW n \in Leaves, NEW k \in Keys, Remove(t, n, k)
     PROVE  CopiesKept'
  <2>1. \A u \in Threads : pc[u] \in Copying => node[u] # n /\ made[u] # n
    BY <1>2 DEF Remove, Owner, Locked, Locks, Copying
  <2> QED BY <1>2, <2>1 DEF Remove, CopiesKept, Copying
<1>3. ASSUME NEW n \in Leaves, NEW k \in Keys, UnlinkBegin(t, n, k)
     PROVE  CopiesKept'
  <2>1. \A u \in Threads : pc[u] \in Copying => node[u] # n /\ made[u] # n
    BY <1>3 DEF UnlinkBegin, Owner, Locked, Locks, Copying
  <2> QED BY <1>3, <2>1 DEF UnlinkBegin, CopiesKept, Copying
<1>4. ASSUME NEW n \in Leaves, NEW k \in Keys, NEW b \in Keys, SplitBegin(t, n, k, b)
     PROVE  CopiesKept'
  <2>1. \A u \in Threads : pc[u] \in Copying => node[u] # n /\ made[u] # n
    BY <1>4 DEF SplitBegin, Owner, Locked, Locks, Copying
  <2>2. PICK nr \in Leaves \ used : nr = Fresh
    BY <1>4, FreshLeaf DEF SplitBegin
  <2>3. \A u \in Threads : pc[u] \in Copying => node[u] \in used /\ made[u] \in used
    BY DEF ThreadsHoldLeaves, Copying, BothLocked
  <2>4. n # nr
    BY <1>4, <2>2 DEF SplitBegin, Owner, Reaches, LeavesInUse
  <2>5. /\ bound' = [bound EXCEPT ![nr] = b]
        /\ perm' = [perm EXCEPT ![nr] = {j \in perm[n] : j >= b}]
        /\ pc' = [pc EXCEPT ![t] = "split_lock"] /\ node' = [node EXCEPT ![t] = n]
        /\ made' = [made EXCEPT ![t] = nr]
    BY <1>4, <2>2 DEF SplitBegin, SplitPerm
  <2>6. \A m \in used : perm'[m] = perm[m] /\ bound'[m] = bound[m]
    BY <2>2, <2>5
  <2> QED BY <2>2, <2>3, <2>4, <2>5, <2>6 DEF CopiesKept, Copying
<1>5. CASE SplitLock(t)
  BY <1>5 DEF SplitLock, Return, CopiesKept, Copying, PCs
<1>6. CASE SplitBack(t)
  BY <1>6 DEF SplitBack, Return, CopiesKept, Copying, PCs
<1>7. CASE SplitFwd(t)
  BY <1>7 DEF SplitFwd, Return, CopiesKept, Copying, PCs
<1>8. CASE SplitParent(t)
  BY <1>8 DEF SplitParent, Return, CopiesKept, Copying, PCs
<1>9. CASE SplitStrip(t)
  <2>1. node[t] \in Leaves /\ node[t] \in Locks(t)
    BY <1>9 DEF SplitStrip, Locks, ThreadsHoldLeaves, BothLocked
  <2>2. \A u \in Threads \ {t} : pc[u] \in Copying => node[u] # node[t] /\ made[u] # node[t]
    BY <2>1 DEF LocksExclusive, Locks, Copying
  <2> QED BY <1>9, <2>1, <2>2 DEF SplitStrip, Return, CopiesKept, Copying
<1>10. CASE SplitRelease(t)
  BY <1>10 DEF SplitRelease, Return, CopiesKept, Copying, PCs
<1>11. CASE SplitFinish(t)
  <2> DEFINE h == IF key[t] < bound[made[t]] THEN node[t] ELSE made[t]
  <2>1. h \in Leaves /\ h \in Locks(t)
    BY <1>11 DEF SplitFinish, Locks, ThreadsHoldLeaves, BothLocked
  <2>2. \A u \in Threads \ {t} : pc[u] \in Copying => node[u] # h /\ made[u] # h
    BY <2>1 DEF LocksExclusive, Locks, Copying
  <2> QED BY <1>11, <2>1, <2>2 DEF SplitFinish, Return, CopiesKept, Copying
<1>12. CASE UnlinkLock(t)
  BY <1>12 DEF UnlinkLock, Return, CopiesKept, Copying, PCs
<1>13. CASE UnlinkRead(t)
  BY <1>13 DEF UnlinkRead, Return, CopiesKept, Copying, PCs
<1>14. CASE UnlinkCas(t)
  BY <1>14 DEF UnlinkCas, Return, CopiesKept, Copying, PCs
<1>15. CASE UnlinkBack(t)
  BY <1>15 DEF UnlinkBack, Return, CopiesKept, Copying, PCs
<1>16. CASE UnlinkFwd(t)
  BY <1>16 DEF UnlinkFwd, Return, CopiesKept, Copying, PCs
<1>17. CASE UnlinkParent(t)
  BY <1>17 DEF UnlinkParent, Return, CopiesKept, Copying, PCs
<1> QED
  BY <1>1, <1>2, <1>3, <1>4, <1>5, <1>6, <1>7, <1>8, <1>9,
     <1>10, <1>11, <1>12, <1>13, <1>14, <1>15, <1>16, <1>17 DEF Step, Continue

(* Keys that splits insert stay new, since their leaf is locked.           *)
LEMMA NewKeysStep ==
  ASSUME IInv, TableInv, NEW t \in Threads, Step(t)
  PROVE  NewKeys'
<1> USE DEF IInv, TableInv, links, versions, locals, Goto, TypeOK, Pointer, Keys, Touch
<1>1. ASSUME NEW n \in Leaves, NEW k \in Keys, Insert(t, n, k)
     PROVE  NewKeys'
  <2>1. \A u \in Threads : pc[u] \in Splitting => key[u] # k
    BY <1>1, OwnerIsNew DEF Insert
  <2>2. Present' \subseteq Present \cup {k}
    BY <1>1 DEF Insert, Present
  <2> QED BY <1>1, <2>1, <2>2 DEF Insert, NewKeys
<1>2. ASSUME NEW n \in Leaves, NEW k \in Keys, Remove(t, n, k)
     PROVE  NewKeys'
  BY <1>2 DEF Remove, Return, NewKeys, Splitting, BothLocked, Present, PCs
<1>3. ASSUME NEW n \in Leaves, NEW k \in Keys, UnlinkBegin(t, n, k)
     PROVE  NewKeys'
  BY <1>3 DEF UnlinkBegin, Return, NewKeys, Splitting, BothLocked, Present, PCs
<1>4. ASSUME NEW n \in Leaves, NEW k \in Keys, NEW b \in Keys, SplitBegin(t, n, k, b)
     PROVE  NewKeys'
  <2>1. k \notin Present /\ \A u \in Threads : pc[u] \in Splitting => key[u] # k
    BY <1>4, OwnerIsNew DEF SplitBegin
  <2>2. PICK nr \in Leaves \ used : nr = Fresh
    BY <1>4, FreshLeaf DEF SplitBegin
  <2>3. n \in used
    BY <1>4 DEF SplitBegin, Owner, Reaches, LeavesInUse
  <2>4. Present' \subseteq Present
    BY <1>4, <2>2, <2>3 DEF SplitBegin, SplitPerm, Present
  <2> QED BY <1>4, <2>1, <2>4 DEF SplitBegin, NewKeys, Splitting, BothLocked
<1>5. CASE SplitLock(t)
  BY <1>5 DEF SplitLock, Return, NewKeys, Splitting, BothLocked, Present, PCs
<1>6. CASE SplitBack(t)
  BY <1>6 DEF SplitBack, Return, NewKeys, Splitting, BothLocked, Present, PCs
<1>7. CASE SplitFwd(t)
  BY <1>7 DEF SplitFwd, Return, NewKeys, Splitting, BothLocked, Present, PCs
<1>8. CASE SplitParent(t)
  BY <1>8 DEF SplitParent, Return, NewKeys, Splitting, BothLocked, Present, PCs
<1>9. CASE SplitStrip(t)
  <2>1. Present' \subseteq Present
    BY <1>9 DEF SplitStrip, Present
  <2> QED BY <1>9, <2>1 DEF SplitStrip, NewKeys, Splitting, BothLocked
<1>10. CASE SplitRelease(t)
  BY <1>10 DEF SplitRelease, Return, NewKeys, Splitting, BothLocked, Present, PCs
<1>11. CASE SplitFinish(t)
  <2>1. Present' \subseteq Present \cup {key[t]}
    BY <1>11 DEF SplitFinish, Present
  <2> QED BY <1>11, <2>1 DEF SplitFinish, Return, NewKeys, Splitting, BothLocked
<1>12. CASE UnlinkLock(t)
  BY <1>12 DEF UnlinkLock, Return, NewKeys, Splitting, BothLocked, Present, PCs
<1>13. CASE UnlinkRead(t)
  BY <1>13 DEF UnlinkRead, Return, NewKeys, Splitting, BothLocked, Present, PCs
<1>14. CASE UnlinkCas(t)
  BY <1>14 DEF UnlinkCas, Return, NewKeys, Splitting, BothLocked, Present, PCs
<1>15. CASE UnlinkBack(t)
  BY <1>15 DEF UnlinkBack, Return, NewKeys, Splitting, BothLocked, Present, PCs
<1>16. CASE UnlinkFwd(t)
  BY <1>16 DEF UnlinkFwd, Return, NewKeys, Splitting, BothLocked, Present, PCs
<1>17. CASE UnlinkParent(t)
  BY <1>17 DEF UnlinkParent, Return, NewKeys, Splitting, BothLocked, Present, PCs
<1> QED
  BY <1>1, <1>2, <1>3, <1>4, <1>5, <1>6, <1>7, <1>8, <1>9,
     <1>10, <1>11, <1>12, <1>13, <1>14, <1>15, <1>16, <1>17 DEF Step, Continue

(* Unlinks move next_ only along the list.                                 *)
LEMMA StaleStep ==
  ASSUME IInv, TableInv, NEW t \in Threads, Step(t)
  PROVE  StaleBounds'
<1> USE DEF IInv, TableInv, links, versions, locals, Goto, TypeOK, Pointer, Keys, Touch
<1>1. ASSUME NEW n \in Leaves, NEW k \in Keys, Insert(t, n, k)
     PROVE  StaleBounds'
  BY <1>1 DEF Insert, Return, StaleBounds, PCs
<1>2. ASSUME NEW n \in Leaves, NEW k \in Keys, Remove(t, n, k)
     PROVE  StaleBounds'
  BY <1>2 DEF Remove, Return, StaleBounds, PCs
<1>3. ASSUME NEW n \in Leaves, NEW k \in Keys, UnlinkBegin(t, n, k)
     PROVE  StaleBounds'
  BY <1>3 DEF UnlinkBegin, Return, StaleBounds, PCs
<1>4. ASSUME NEW n \in Leaves, NEW k \in Keys, NEW b \in Keys, SplitBegin(t, n, k, b)
     PROVE  StaleBounds'
  <2>1. PICK nr \in Leaves \ used : nr = Fresh
    BY <1>4, FreshLeaf DEF SplitBegin
  <2>2. \A m \in Leaves : next[m] # nr
    BY <2>1, LeafLinkAssumption DEF LeavesInUse
  <2>3. \A u \in Threads : pc[u] = "split_fwd" => node[u] \in Leaves /\ made[u] \in Leaves
    BY DEF ThreadsHoldLeaves, BothLocked
  <2> QED BY <1>4, <2>1, <2>2, <2>3 DEF SplitBegin, StaleBounds
<1>5. CASE SplitLock(t)
  <2>1. \A u \in Threads \ {t} : pc[u] = "split_fwd" =>
          node[u] \notin {node[t], made[t]} /\ made[u] \notin {node[t], made[t]}
    BY <1>5 DEF SplitLock, LocksExclusive, Locks, ThreadsHoldLeaves, BothLocked
  <2> QED BY <1>5, <2>1 DEF SplitLock, StaleBounds
<1>6. CASE SplitBack(t)
  <2>1. next[node[t]] = next[made[t]]
    BY <1>6 DEF SplitBack, PointersHeld, NextHeld
  <2>2. next[node[t]] # NoLeaf => bound[next[node[t]]] \in Int
    BY <1>6 DEF SplitBack, ThreadsHoldLeaves, BothLocked
  <2> QED BY <1>6, <2>1, <2>2 DEF SplitBack, StaleBounds
<1>7. CASE SplitFwd(t)
  <2>1. \A u \in Threads \ {t} : pc[u] = "split_fwd" =>
          node[u] \notin {node[t], made[t]} /\ made[u] \notin {node[t], made[t]}
    BY <1>7 DEF SplitFwd, LocksExclusive, Locks, ThreadsHoldLeaves, BothLocked
  <2> QED BY <1>7, <2>1 DEF SplitFwd, StaleBounds
<1>8. CASE SplitParent(t)
  BY <1>8 DEF SplitParent, Return, StaleBounds, PCs
<1>9. CASE SplitStrip(t)
  BY <1>9 DEF SplitStrip, Return, StaleBounds, PCs
<1>10. CASE SplitRelease(t)
  BY <1>10 DEF SplitRelease, Return, StaleBounds, PCs
<1>11. CASE SplitFinish(t)
  BY <1>11 DEF SplitFinish, Return, StaleBounds, PCs
<1>12. CASE UnlinkLock(t)
  BY <1>12 DEF UnlinkLock, Return, StaleBounds, PCs
<1>13. CASE UnlinkRead(t)
  BY <1>13 DEF UnlinkRead, Return, StaleBounds, PCs
<1>14. CASE UnlinkCas(t)
  BY <1>14 DEF UnlinkCas, Return, StaleBounds, PCs
<1>15. CASE UnlinkBack(t)
  BY <1>15 DEF UnlinkBack, Return, StaleBounds, PCs
<1>16. CASE UnlinkFwd(t)
  <2>1. /\ pred[t] \in Leaves /\ next[pred[t]] = node[t] /\ node[t] \in Leaves
        /\ next[node[t]] = succ[t]
        /\ \A u \in Threads : pc[u] = "split_fwd" => node[u] # pred[t]
    BY <1>16, NextHolder DEF UnlinkFwd, Members, PointersHeld, PredHeld, NextHeld, MarksExclusive
  <2>2. succ[t] # NoLeaf => bound[node[t]] < bound[succ[t]]
    BY <2>1, LeafLinkAssumption DEF LeavesInUse
  <2>3. \A u \in Threads : pc[u] = "split_fwd" => made[u] \in Leaves /\ node[u] \in Leaves
    BY DEF ThreadsHoldLeaves, BothLocked
  <2> QED BY <1>16, <2>1, <2>2, <2>3, LeafLinkAssumption DEF UnlinkFwd, StaleBounds
<1>17. CASE UnlinkParent(t)
  BY <1>17 DEF UnlinkParent, Return, StaleBounds, PCs
<1> QED
  BY <1>1, <1>2, <1>3, <1>4, <1>5, <1>6, <1>7, <1>8, <1>9,
     <1>10, <1>11, <1>12, <1>13, <1>14, <1>15, <1>16, <1>17 DEF Step, Continue

(* The invariant of the table holds in the empty layer.                    *)
LEMMA TableInit == LinkInit => TableInv
BY LeafLinkAssumption DEF LinkInit, TableInv, DeletedEmpty, CopiesKept, NewKeys, StaleBounds,
   Copying, Splitting, BothLocked

(* No step of a scan changes the table.                                    *)
LEMMA TableUntouched ==
  ASSUME TableInv,
         UNCHANGED <<next, marked, prev, bound, perm, used, deleted, dirty, shrunk, tree, locals>>
  PROVE  TableInv' /\ Present' = Present
<1>1. Present' = Present
  BY DEF Present
<1> QED BY <1>1 DEF TableInv, DeletedEmpty, CopiesKept, NewKeys, StaleBounds, locals

(* Inserts and removes keep the invariant of the table.                    *)
LEMMA TableStep ==
  ASSUME IInv, TableInv, NEW t \in Threads, Step(t)
  PROVE  TableInv'
BY DeletedStep, CopiesStep, NewKeysStep, StaleStep DEF TableInv

(* Inserts and removes keep what scans rely on.                            *)
LEMMA UpdateStep ==
  ASSUME IInv, TableInv, ScanInv, NEW t \in Threads, Step(t),
         missing' = [s \in Scans |-> missing[s] \cap Present'],
         UNCHANGED <<reverse, at, spc, ka, open, gone, snap>>
  PROVE  ScanInv'
<1>1. ScanTypeOK'
  BY DEF ScanInv, ScanTypeOK
<1> SUFFICES ASSUME NEW s \in Scans PROVE ScanOk(s)'
  BY <1>1 DEF ScanInv
<1>2. /\ ScanOk(s) /\ missing[s] \subseteq Present
      /\ missing'[s] \subseteq missing[s] /\ missing'[s] \subseteq Present'
  BY DEF ScanInv, ScanOk, MissingAhead
<1>3. LeavesStay
  BY LeavesLast
<1>4. ASSUME at[s] \in used
      PROVE  bound'[at[s]] = bound[at[s]] /\ missing[s] \cap perm'[at[s]] \subseteq perm[at[s]]
  BY <1>2, <1>3, <1>4, NoOldKeyEnters DEF LeavesStay
<1>5. Unchanged(s)' => Unchanged(s)
  BY <1>3 DEF LeavesStay, Unchanged
<1>6. AtLeaf(s)'
  BY <1>2, <1>3, <1>5 DEF ScanOk, AtLeaf, LeavesStay, Unchanged
<1>7. MissingAhead(s)'
  BY <1>2 DEF ScanOk, MissingAhead
<1>8. s \in reverse => ReverseInv(s)'
  BY <1>2, <1>4, <1>5 DEF ScanOk, ReverseInv, AtLeaf
<1>9. ASSUME s \notin reverse, spc[s] = "advance", NEW k \in missing'[s], at[s] \in Dead'
      PROVE  next'[at[s]] # NoLeaf /\ bound'[next'[at[s]]] <= k
  <2>1. /\ k \in missing[s] /\ k \in Present /\ bound[at[s]] <= k /\ k \notin perm[at[s]]
        /\ at[s] \in Dead => next[at[s]] # NoLeaf /\ bound[next[at[s]]] <= k
    BY <1>2, <1>9 DEF ScanOk, ForwardInv
  <2>2. next'[at[s]] = next[at[s]] /\ (at[s] \in Dead \/ at[s] \in Members)
    BY <1>9, DeadNextFrozen
  <2>3. next[at[s]] # NoLeaf /\ bound[next[at[s]]] <= k
    BY <2>1, <2>2, NextIsNotPast
  <2>4. next[at[s]] \in used
    BY <2>2, <2>3 DEF IInv, LeavesInUse, TypeOK, Members, Dead
  <2> QED BY <1>3, <2>2, <2>3, <2>4 DEF LeavesStay
<1>10. s \notin reverse => ForwardInv(s)'
  <2> SUFFICES ASSUME s \notin reverse PROVE ForwardInv(s)'
    OBVIOUS
  <2>1. ForwardInv(s)
    BY <1>2 DEF ScanOk
  <2>2. spc[s] \in {"leaf", "advance", "stable"} => at[s] \in used
    BY <1>2 DEF ScanOk, AtLeaf
  <2>3. spc[s] \in {"leaf", "advance", "stable"} => \A k \in missing'[s] : bound'[at[s]] <= k
    BY <1>2, <1>4, <2>1, <2>2 DEF ForwardInv
  <2>4. spc[s] = "leaf" => \A j \in snap[s], k \in missing'[s] \ snap[s] : j < k
    BY <1>2, <2>1 DEF ForwardInv
  <2>5. spc[s] = "leaf" /\ s \notin gone /\ Unchanged(s)' => missing'[s] \cap perm'[at[s]] \subseteq snap[s]
    BY <1>2, <1>4, <1>5, <2>1, <2>2 DEF ForwardInv
  <2>6. spc[s] = "advance" => \A k \in missing'[s] : k \notin perm'[at[s]]
    BY <1>2, <1>4, <2>1, <2>2 DEF ForwardInv
  <2> QED BY <1>9, <2>3, <2>4, <2>5, <2>6 DEF ForwardInv
<1> QED BY <1>6, <1>7, <1>8, <1>10 DEF ScanOk

(* A step of one scan leaves the others alone.                             *)
LEMMA OtherScan ==
  ASSUME NEW s \in Scans, NEW r \in Scans, r # s, ScanTypeOK, ScanOk(r), TreeUntouched, ScanStep(s)
  PROVE  ScanOk(r)'
<1> USE DEF ScanTypeOK
<1>1. /\ at'[r] = at[r] /\ spc'[r] = spc[r] /\ ka'[r] = ka[r] /\ snap'[r] = snap[r]
      /\ missing'[r] = missing[r] /\ (r \in gone' <=> r \in gone) /\ reverse' = reverse
  BY DEF ScanStep, Find, Emit, LeafDone, Changed, Retry, Advance, Stable, Hop
<1>2. Unchanged(r)' <=> Unchanged(r)
    BY <1>1 DEF Unchanged, Watch, ScanStep, Find, Emit, LeafDone, Changed, Retry, Advance,
     Stable, Hop
<1>3. AtLeaf(r)' /\ MissingAhead(r)'
  BY <1>1, <1>2 DEF ScanOk, AtLeaf, MissingAhead, TreeUntouched
<1>4. ReverseInv(r) => ReverseInv(r)'
  BY <1>1, <1>2 DEF ReverseInv, TreeUntouched
<1>5. ForwardInv(r) => ForwardInv(r)'
  BY <1>1, <1>2 DEF ForwardInv, TreeUntouched
<1> QED BY <1>1, <1>3, <1>4, <1>5 DEF ScanOk

(* From a leaf that was in the list both pointers lead to such leaves, or  *)
(* end.                                                                    *)
LEMMA LeafAt ==
  ASSUME IInv, NEW n \in used \ Hidden
  PROVE  /\ n \in Leaves
         /\ n \notin deleted => n \in Members
         /\ n \in Members \/ n \in Dead
         /\ next[n] # NoLeaf => next[n] \in used \ Hidden
         /\ n # First => prev[n] \in used \ Hidden
<1> USE DEF IInv
<1>1. n \in Leaves /\ (n \notin deleted => n \in Members) /\ (n \in Members \/ n \in Dead)
  BY DEF TypeOK, Members, Dead
<1>2. next[n] # NoLeaf => next[n] \in used \ Hidden
  BY <1>1 DEF LeavesInUse, PointersHeld, Hidden
<1> QED BY <1>1, <1>2 DEF LeavesInUse

(* Keys and bounds are numbers.                                            *)
LEMMA ScanNumbers ==
  ASSUME IInv, ScanTypeOK, NEW s \in Scans
  PROVE  /\ ka[s] \in Int /\ \A k \in missing[s] : k \in Keys /\ k \in Int
         /\ \A k \in snap[s] : k \in Keys /\ k \in Int
         /\ \A n \in Leaves : bound[n] \in Int /\ \A k \in perm[n] : k \in Int
BY LeafLinkAssumption DEF IInv, TypeOK, ScanTypeOK, Keys

(* find_initial and find_retry: the leaf for ka holds the keys next to ka. *)
LEMMA FindStep ==
  ASSUME IInv, TableInv, ScanTypeOK, NEW s \in Scans, ScanOk(s), TreeUntouched, Find(s),
         reverse' = reverse
  PROVE  ScanTypeOK' /\ watch' \subseteq Scans \X Leaves /\ ScanOk(s)'
<1>1. PICK n \in tree :
        /\ spc[s] \in {"start", "retry"}
        /\ Reaches(ka[s], n) /\ n \notin dirty \cup deleted
        /\ at' = [at EXCEPT ![s] = n] /\ Watch(s, n) /\ gone' = gone \ {s}
        /\ snap' = [snap EXCEPT ![s] = perm[n]]
        /\ missing' = IF spc[s] = "start" THEN [missing EXCEPT ![s] = Present] ELSE missing
        /\ spc' = [spc EXCEPT ![s] = "leaf"]
        /\ UNCHANGED <<ka, open>>
  BY DEF Find
<1>2. n \in used \ Hidden /\ n \in Members /\ n \in Leaves /\ Present \subseteq Keys
  BY <1>1, PresentKey DEF IInv, LeavesInUse, TreeLeads, Hidden, Members, Dead, TypeOK
<1>3. \A k \in Present : k \in Int /\ 0 < k /\ k < MaxKey + 1
  BY <1>2, LeafLinkAssumption DEF Keys
<1>4. ScanTypeOK' /\ watch' \subseteq Scans \X Leaves
  BY <1>1, <1>2 DEF ScanTypeOK, ScanPCs, Pointer, Watch, IInv, TypeOK
<1>5. at'[s] = n /\ spc'[s] = "leaf" /\ snap'[s] = perm[n] /\ ka' = ka
  BY <1>1 DEF ScanTypeOK
<1>6. ka[s] \in Int /\ \A m \in Leaves : bound[m] \in Int
  BY ScanNumbers
<1>7. /\ missing'[s] \subseteq Present
      /\ \A k \in missing'[s] : IF s \in reverse THEN k < ka[s] ELSE ka[s] < k
  <2>1. CASE spc[s] = "start"
    <3>1. missing'[s] = Present /\ ka[s] = IF s \in reverse THEN MaxKey + 1 ELSE 0
      BY <1>1, <2>1 DEF ScanTypeOK, ScanOk, MissingAhead
    <3> QED BY <1>3, <3>1
  <2>2. CASE spc[s] # "start"
    BY <1>1, <2>2 DEF ScanOk, MissingAhead
  <2> QED BY <2>1, <2>2
<1>8. AtLeaf(s)' /\ MissingAhead(s)'
  BY <1>1, <1>2, <1>5, <1>7 DEF AtLeaf, MissingAhead, TreeUntouched
<1>9. CASE s \in reverse
  <2>1. \A j \in perm[n] : bound[n] <= j
    BY <1>2 DEF IInv, KeysFit, KeysAbove
  <2>2. ASSUME NEW k \in missing'[s] PROVE k < bound[n] \/ k \in perm[n]
    <3>1. k \in Present /\ k < ka[s] /\ k \in Int
      BY <1>3, <1>7, <1>9
    <3>2. CASE bound[n] <= k
      BY <1>1, <1>2, <1>6, <3>1, <3>2, ReachedHolds
    <3> QED BY <1>2, <1>6, <3>1, <3>2
  <2>3. ReverseInv(s)'
    BY <1>5, <2>1, <2>2 DEF ReverseInv, TreeUntouched
  <2> QED BY <1>4, <1>8, <1>9, <2>3 DEF ScanOk
<1>10. CASE s \notin reverse
  <2>1. bound[n] <= ka[s]
    BY <1>1 DEF Reaches
  <2>2. ASSUME NEW k \in missing'[s] PROVE bound[n] <= k /\ k \in Present
    BY <1>3, <1>2, <1>6, <1>7, <1>10, <2>1
  <2>3. \A j \in perm[n], k \in missing'[s] \ perm[n] : j < k
    BY <1>2, <2>2, PermIsPrefix
  <2>4. ForwardInv(s)'
    BY <1>5, <2>2, <2>3 DEF ForwardInv, TreeUntouched
  <2> QED BY <1>4, <1>8, <1>10, <2>4 DEF ScanOk
<1> QED BY <1>9, <1>10

(* find_next emits the nearest key of the copy: no key a scan owes lies    *)
(* between.                                                                *)
LEMMA EmitStep ==
  ASSUME IInv, TableInv, ScanTypeOK, NEW s \in Scans, ScanOk(s), TreeUntouched, Emit(s),
         reverse' = reverse
  PROVE  ScanTypeOK' /\ watch' \subseteq Scans \X Leaves /\ ScanOk(s)'
<1>1. PICK j \in Rest(s) :
        /\ spc[s] = "leaf" /\ s \notin gone /\ Nearest(s, j) /\ Unchanged(s)
        /\ missing' = [missing EXCEPT ![s] = @ \ {j}]
        /\ ka' = [ka EXCEPT ![s] = j] /\ open' = open \ {s}
        /\ UNCHANGED <<watch, at, spc, gone, snap>>
  BY DEF Emit
<1>2. j \in snap[s] /\ j \in Keys /\ j \in Int
  BY ScanNumbers DEF Rest
<1>3. ScanTypeOK' /\ watch' \subseteq Scans \X Leaves
  BY <1>1, <1>2, LeafLinkAssumption DEF ScanTypeOK, IInv, TypeOK, Keys
<1>4. ka'[s] = j /\ missing'[s] = missing[s] \ {j}
  BY <1>1 DEF ScanTypeOK
<1>5. ASSUME NEW k \in missing'[s] PROVE IF s \in reverse THEN k < j ELSE j < k
  <2>1. k \in missing[s] /\ k # j /\ k \in Int /\ (IF s \in reverse THEN k < ka[s] ELSE ka[s] < k)
    BY <1>4, <1>5, ScanNumbers DEF ScanOk, MissingAhead
  <2>2. CASE k \in snap[s]
    <3>1. k \in Rest(s)
      BY <2>1, <2>2, ScanNumbers DEF Rest
    <3> QED BY <1>1, <1>2, <2>1, <3>1 DEF Nearest
  <2>3. CASE k \notin snap[s] /\ s \in reverse
    <3>1. k < bound[at[s]] /\ bound[at[s]] <= j /\ at[s] \in used
      BY <1>1, <1>2, <2>1, <2>3 DEF ScanOk, ReverseInv, AtLeaf
    <3>2. bound[at[s]] \in Int
      BY <3>1, ScanNumbers DEF IInv, TypeOK
    <3> QED BY <1>2, <2>1, <2>3, <3>1, <3>2
  <2>4. CASE k \notin snap[s] /\ s \notin reverse
    BY <1>1, <1>2, <2>1, <2>4 DEF ScanOk, ForwardInv
  <2> QED BY <2>2, <2>3, <2>4
<1>6. Unchanged(s)' <=> Unchanged(s)
  BY <1>1 DEF Unchanged
<1>7. AtLeaf(s)' /\ MissingAhead(s)'
  BY <1>1, <1>4, <1>5, <1>6 DEF ScanOk, AtLeaf, MissingAhead, TreeUntouched
<1>8. s \in reverse => ReverseInv(s)'
  BY <1>1, <1>4, <1>6 DEF ScanOk, ReverseInv, TreeUntouched
<1>9. s \notin reverse => ForwardInv(s)'
  BY <1>1, <1>4, <1>6 DEF ScanOk, ForwardInv, TreeUntouched
<1> QED BY <1>3, <1>7, <1>8, <1>9 DEF ScanOk

(* A copy without a further key, of an unchanged leaf: the leaf holds no   *)
(* key the scan owes.                                                      *)
LEMMA LeafEnds ==
  ASSUME IInv, TableInv, ScanTypeOK, NEW s \in Scans, ScanOk(s), TreeUntouched,
         LeafDone(s) \/ Changed(s) \/ Retry(s), reverse' = reverse
  PROVE  ScanTypeOK' /\ watch' \subseteq Scans \X Leaves /\ ScanOk(s)'
<1>1. /\ spc[s] = "leaf" /\ spc' = [spc EXCEPT ![s] = spc'[s]]
      /\ spc'[s] \in {"advance", "stable", "retry"}
      /\ UNCHANGED <<watch, at, ka, open, gone, snap, missing>>
  BY DEF LeafDone, Changed, Retry, ScanTypeOK
<1>2. ScanTypeOK' /\ watch' \subseteq Scans \X Leaves
  BY <1>1 DEF ScanTypeOK, ScanPCs, IInv, TypeOK
<1>3. AtLeaf(s)' /\ MissingAhead(s)'
  BY <1>1 DEF ScanOk, AtLeaf, MissingAhead, TreeUntouched
<1>4. CASE spc'[s] # "advance"
  BY <1>1, <1>2, <1>3, <1>4 DEF ScanOk, ForwardInv, ReverseInv, TreeUntouched
<1>5. CASE spc'[s] = "advance"
  <2>1. s \notin gone /\ Rest(s) = {} /\ Unchanged(s)
    BY <1>5 DEF LeafDone, Changed, Retry, ScanTypeOK
  <2>2. ASSUME NEW k \in missing[s] PROVE k \notin snap[s]
    BY <2>1 DEF Rest, ScanOk, MissingAhead
  <2>3. at[s] \notin Dead
    BY <1>1, <2>1 DEF ScanOk, AtLeaf, Dead
  <2>4. s \in reverse => ReverseInv(s)'
    BY <1>1, <1>5, <2>1, <2>2 DEF ScanOk, ReverseInv, TreeUntouched
  <2>5. s \notin reverse => ForwardInv(s)'
    BY <1>1, <1>5, <2>1, <2>2, <2>3 DEF ScanOk, ForwardInv, TreeUntouched
  <2> QED BY <1>2, <1>3, <2>4, <2>5 DEF ScanOk
<1> QED BY <1>4, <1>5

(* advance: next_ does not jump over a key, and at the leaf without a      *)
(* predecessor a reverse scan owes nothing.                                *)
LEMMA AdvanceStep ==
  ASSUME IInv, TableInv, ScanTypeOK, NEW s \in Scans, ScanOk(s), TreeUntouched, Advance(s),
         reverse' = reverse
  PROVE  ScanTypeOK' /\ watch' \subseteq Scans \X Leaves /\ ScanOk(s)'
<1>1. spc[s] = "advance" /\ at[s] \in used \ Hidden /\ at[s] \in Leaves
  BY LeafAt DEF Advance, ScanOk, AtLeaf
<1> DEFINE to == IF s \in reverse THEN prev[at[s]] ELSE next[at[s]]
<1>2. /\ at' = [at EXCEPT ![s] = to]
      /\ spc' = [spc EXCEPT ![s] = IF to = NoLeaf THEN "done" ELSE "stable"]
      /\ snap' = [snap EXCEPT ![s] = {}] /\ watch' = {w \in watch : w[1] # s}
      /\ UNCHANGED <<gone, missing>>
      /\ ka' = IF s \in reverse THEN [ka EXCEPT ![s] = bound[at[s]]] ELSE ka
      /\ open' \subseteq open \cup {s}
  BY DEF Advance
<1>3. to \in Pointer /\ (to # NoLeaf => to \in used \ Hidden)
  <2>1. CASE s \in reverse
    BY <1>1, <2>1, LeafAt DEF IInv, TypeOK, LeavesInUse
  <2>2. CASE s \notin reverse
    BY <1>1, <2>2, LeafAt DEF IInv, TypeOK
  <2> QED BY <2>1, <2>2
<1>4. ASSUME NEW k \in missing[s]
      PROVE  /\ to # NoLeaf
             /\ IF s \in reverse THEN k < bound[at[s]] ELSE bound[to] <= k /\ ka[s] < k
  <2>1. CASE s \in reverse
    <3>1. k < bound[at[s]]
      BY <1>1, <2>1 DEF ScanOk, ReverseInv
    <3>2. at[s] # First
      BY <3>1, ScanNumbers DEF IInv, LeavesInUse, Keys
    <3> QED BY <1>1, <2>1, <3>1, <3>2, LeafAt, LeafLinkAssumption DEF IInv, TypeOK
  <2>2. CASE s \notin reverse
    <3>1. /\ k \in Present /\ bound[at[s]] <= k /\ k \notin perm[at[s]] /\ ka[s] < k
          /\ at[s] \in Dead => next[at[s]] # NoLeaf /\ bound[next[at[s]]] <= k
      BY <1>1, <2>2 DEF ScanOk, ForwardInv, MissingAhead
    <3> QED BY <1>1, <2>2, <3>1, LeafAt, NextIsNotPast
  <2> QED BY <2>1, <2>2
<1>5. bound[at[s]] \in 0..MaxKey /\ 0..MaxKey \subseteq 0..(MaxKey + 1)
  BY <1>1, LeafLinkAssumption DEF IInv, TypeOK
<1> HIDE DEF to
<1>6. ScanTypeOK' /\ watch' \subseteq Scans \X Leaves
  BY <1>2, <1>3, <1>5 DEF ScanTypeOK, ScanPCs, IInv, TypeOK
<1>7. /\ at'[s] = to /\ spc'[s] = (IF to = NoLeaf THEN "done" ELSE "stable")
      /\ s \in reverse => ka'[s] = bound[at[s]]
      /\ s \notin reverse => ka'[s] = ka[s]
  BY <1>2 DEF ScanTypeOK
<1>8. AtLeaf(s)'
  BY <1>3, <1>7 DEF AtLeaf, TreeUntouched
<1>9. MissingAhead(s)'
  <2>1. missing'[s] \subseteq Present' /\ spc'[s] # "start"
    BY <1>2, <1>7 DEF ScanOk, MissingAhead, TreeUntouched
  <2>2. spc'[s] = "done" => missing'[s] = {}
    BY <1>2, <1>4, <1>7
  <2>3. \A k \in missing'[s] : IF s \in reverse' THEN k < ka'[s] ELSE ka'[s] < k
    BY <1>2, <1>4, <1>7
  <2> QED BY <2>1, <2>2, <2>3 DEF MissingAhead
<1>10. s \in reverse => ReverseInv(s)'
  BY <1>7 DEF ReverseInv
<1>11. s \notin reverse => ForwardInv(s)'
  BY <1>2, <1>4, <1>7 DEF ForwardInv, TreeUntouched
<1> QED BY <1>6, <1>8, <1>9, <1>10, <1>11 DEF ScanOk

(* stable: the permutation of a leaf holds the keys next to its bound;     *)
(* that of a deleted one is empty.                                         *)
LEMMA StableStep ==
  ASSUME IInv, TableInv, ScanTypeOK, NEW s \in Scans, ScanOk(s), TreeUntouched, Stable(s),
         reverse' = reverse
  PROVE  ScanTypeOK' /\ watch' \subseteq Scans \X Leaves /\ ScanOk(s)'
<1>1. spc[s] = "stable" /\ at[s] \in used \ Hidden /\ at[s] \in Leaves
  BY LeafAt DEF Stable, ScanOk, AtLeaf
<1>2. perm[at[s]] \subseteq Keys
  BY <1>1 DEF IInv, TypeOK
<1>3. ScanTypeOK' /\ watch' \subseteq Scans \X Leaves
  BY <1>1, <1>2 DEF Stable, Watch, ScanTypeOK, ScanPCs, IInv, TypeOK
<1>4. /\ at' = at /\ ka' = ka /\ missing' = missing /\ (s \in gone' <=> at[s] \in deleted)
      /\ s \in reverse => spc'[s] = "hop"
      /\ s \notin reverse => spc'[s] = "leaf" /\ snap'[s] = perm[at[s]]
  BY <1>1 DEF Stable, ScanTypeOK
<1>5. AtLeaf(s)' /\ MissingAhead(s)'
  BY <1>1, <1>4 DEF ScanOk, AtLeaf, MissingAhead, TreeUntouched
<1>6. s \in reverse => ReverseInv(s)'
  BY <1>4 DEF ReverseInv
<1>7. ASSUME s \notin reverse PROVE ForwardInv(s)'
  <2>1. \A k \in missing[s] : bound[at[s]] <= k /\ k \in Present
    BY <1>1, <1>7 DEF ScanOk, ForwardInv, MissingAhead
  <2>2. ASSUME NEW j \in perm[at[s]], NEW k \in missing[s] \ perm[at[s]] PROVE j < k
    <3>1. at[s] \in Members
      BY <1>1, <2>2, LeafAt DEF TableInv, DeletedEmpty
    <3> QED BY <2>1, <2>2, <3>1, PermIsPrefix
  <2> QED BY <1>4, <1>7, <2>1, <2>2 DEF ForwardInv, TreeUntouched
<1> QED BY <1>3, <1>5, <1>6, <1>7 DEF ScanOk

(* reverse_scan_helper::stable stops at a leaf whose next_ is right of ka, *)
(* and such a leaf holds all keys below ka down to its bound.              *)
LEMMA HopStep ==
  ASSUME IInv, TableInv, ScanTypeOK, NEW s \in Scans, ScanOk(s), TreeUntouched, Hop(s),
         reverse' = reverse
  PROVE  ScanTypeOK' /\ watch' \subseteq Scans \X Leaves /\ ScanOk(s)'
<1>1. spc[s] = "hop" /\ s \in reverse /\ at[s] \in used \ Hidden /\ at[s] \in Leaves
  BY LeafAt DEF Hop, ScanOk, AtLeaf
<1> DEFINE n == next[at[s]]
<1>2. n \in Pointer /\ (n # NoLeaf => n \in used \ Hidden) /\ perm[at[s]] \subseteq Keys
  BY <1>1, LeafAt DEF IInv, TypeOK
<1>3. ScanTypeOK' /\ watch' \subseteq Scans \X Leaves
  BY <1>2 DEF Hop, ScanTypeOK, ScanPCs, IInv, TypeOK
<1>4. CASE n = NoLeaf \/ StaysLeftOf(s, n)
  <2>1. /\ spc'[s] = "leaf" /\ snap'[s] = perm[at[s]]
        /\ UNCHANGED <<at, watch, ka, open, gone, missing>>
    BY <1>1, <1>4 DEF Hop, ScanTypeOK
  <2>2. Unchanged(s)' <=> Unchanged(s)
    BY <2>1 DEF Unchanged
  <2>3. AtLeaf(s)' /\ MissingAhead(s)'
    BY <1>1, <2>1, <2>2 DEF ScanOk, AtLeaf, MissingAhead, TreeUntouched
  <2>4. ASSUME s \notin gone, Unchanged(s), NEW k \in missing[s]
        PROVE  k < bound[at[s]] \/ k \in perm[at[s]]
    <3>1. at[s] \in Members
      BY <1>1, <2>4, LeafAt DEF ScanOk, AtLeaf
    <3>2. k \in Present /\ k < ka[s] /\ k \in Int /\ ka[s] \in Int /\ bound[at[s]] \in Int
      BY <1>1, <2>4, ScanNumbers DEF ScanOk, MissingAhead
    <3>3. n # NoLeaf => bound[n] \in Int /\ ka[s] <= bound[n]
      BY <1>2, <1>4, ScanNumbers DEF StaysLeftOf, Pointer
    <3>4. ~(n # NoLeaf /\ bound[n] <= k)
      BY <3>2, <3>3
    <3> QED BY <3>1, <3>2, <3>4, NextIsNotPast
  <2>5. \A j \in perm[at[s]] : bound[at[s]] <= j
    BY <1>1 DEF IInv, KeysFit, KeysAbove
  <2>6. ReverseInv(s)'
    BY <2>1, <2>2, <2>4, <2>5 DEF ReverseInv, TreeUntouched
  <2> QED BY <1>1, <1>3, <2>3, <2>6 DEF ScanOk
<1>5. CASE ~(n = NoLeaf \/ StaysLeftOf(s, n))
  <2>1. spc'[s] = "stable" /\ at'[s] = n /\ UNCHANGED <<ka, missing>>
    BY <1>1, <1>5 DEF Hop, ScanTypeOK
  <2>2. AtLeaf(s)' /\ MissingAhead(s)' /\ ReverseInv(s)'
    BY <1>1, <1>2, <1>5, <2>1 DEF ScanOk, AtLeaf, MissingAhead, ReverseInv, TreeUntouched
  <2> QED BY <1>1, <1>3, <2>2 DEF ScanOk
<1> QED BY <1>4, <1>5

(* Every step of a scan keeps the three invariants.                        *)
LEMMA ScanKeepsAll ==
  ASSUME IInv, TableInv, ScanInv, NEW s \in Scans, ScanStep(s)
  PROVE  IInv' /\ TableInv' /\ ScanInv'
<1>1. ScanTypeOK /\ ScanOk(s) /\ \A r \in Scans : ScanOk(r)
  BY DEF ScanInv
<1>2. UNCHANGED <<next, marked, prev, bound, perm, used, deleted, dirty, shrunk, tree, locals, reverse>>
  BY DEF ScanStep
<1>3. TableInv' /\ Present' = Present
  BY <1>2, TableUntouched
<1>4. TreeUntouched
  BY <1>2, <1>3 DEF TreeUntouched, Hidden, Dead, Members, locals
<1>5. ScanTypeOK' /\ watch' \subseteq Scans \X Leaves /\ ScanOk(s)'
  BY <1>1, <1>2, <1>4, FindStep, EmitStep, LeafEnds, AdvanceStep, StableStep, HopStep
     DEF ScanStep
<1>6. IInv'
  BY <1>2, <1>5, LinksUntouched DEF locals
<1>7. \A r \in Scans : ScanOk(r)'
  BY <1>1, <1>4, <1>5, OtherScan
<1> QED BY <1>3, <1>5, <1>6, <1>7 DEF ScanInv

(* The three invariants hold in the empty layer before any scan has begun. *)
LEMMA InitAll == Init => IInv /\ TableInv /\ ScanInv
<1> SUFFICES ASSUME Init PROVE IInv /\ TableInv /\ ScanInv
  OBVIOUS
<1>1. IInv /\ TableInv
  BY InitIInv, TableInit DEF Init
<1>2. ScanTypeOK
  BY LeafLinkAssumption DEF Init, ScanTypeOK, ScanPCs, Pointer
<1>3. \A s \in Scans : ScanOk(s)
  BY DEF Init, ScanOk, AtLeaf, MissingAhead, ForwardInv, ReverseInv
<1> QED BY <1>1, <1>2, <1>3 DEF ScanInv

(* Every step of the inserts, the removes and the scans keeps the three    *)
(* invariants.                                                             *)
LEMMA NextAll == IInv /\ TableInv /\ ScanInv /\ [Next]_vars => IInv' /\ TableInv' /\ ScanInv'
<1> SUFFICES ASSUME IInv, TableInv, ScanInv, [Next]_vars PROVE IInv' /\ TableInv' /\ ScanInv'
  OBVIOUS
<1>1. CASE Update
  <2>1. PICK t \in Threads : Step(t)
    BY <1>1 DEF Update, LinkNext, Step
  <2>2. IInv'
    BY <1>1, NextIInv DEF Update
  <2> QED BY <1>1, <2>1, <2>2, TableStep, UpdateStep DEF Update
<1>2. CASE \E s \in Scans : ScanStep(s)
  BY <1>2, ScanKeepsAll
<1>3. CASE UNCHANGED vars
  <2>1. IInv' /\ UNCHANGED linkVars /\ UNCHANGED scanVars
    BY <1>3, NextIInv DEF vars
  <2>2. TableInv' /\ Present' = Present
    BY <2>1, TableUntouched DEF linkVars, locals
  <2>3. Hidden' = Hidden /\ Dead' = Dead
    BY <2>1 DEF linkVars, Hidden, Dead
  <2>4. ScanTypeOK' /\ \A s \in Scans : AtLeaf(s)' /\ MissingAhead(s)'
        BY <2>1, <2>2, <2>3 DEF linkVars, scanVars, ScanInv, ScanOk, ScanTypeOK, AtLeaf,
       MissingAhead, Unchanged
  <2>5. \A s \in Scans : (ForwardInv(s) => ForwardInv(s)') /\ (ReverseInv(s) => ReverseInv(s)')
    BY <2>1, <2>3 DEF linkVars, scanVars, ForwardInv, ReverseInv, Unchanged
  <2>6. reverse' = reverse
    BY <2>1 DEF scanVars
  <2> QED BY <2>1, <2>2, <2>4, <2>5, <2>6 DEF ScanInv, ScanOk
<1> QED BY <1>1, <1>2, <1>3 DEF Next

(* A scan that reaches the end of the list has emitted every key that was  *)
(* in the table all along (find_next, scan_retry and both helpers of       *)
(* src/masstree_scan.hh), for any number of threads, scans, leaves and     *)
(* keys, whatever splits and removals it meets.                            *)
THEOREM ScansCorrect == Spec => []ScansComplete
<1>1. ScanInv => ScansComplete
  BY DEF ScanInv, ScanOk, MissingAhead, ScansComplete
<1> QED BY <1>1, InitAll, NextAll, PTL DEF Spec

=============================================================================
