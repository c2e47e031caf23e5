------------------------------- MODULE TreeGc -------------------------------
(***************************************************************************)
(* The collection of a layer (gc_layer in src/masstree_remove.hh), run by  *)
(* an RCU callback some time after the layer's only leaf became empty.  It *)
(* holds the leaf of the layer above, and locks the layer's root and the   *)
(* root's child below it: downwards, while splits and removals of the same *)
(* layer lock upwards.                                                     *)
(***************************************************************************)
EXTENDS TreeLocks

GcStart(p) ==
  /\ t[p].pc = "idle" /\ ops < scene.max /\ outer = None /\ slot # None
  /\ ops' = ops + 1
  /\ outer' = p
  /\ t' = [t EXCEPT ![p] = [Idle EXCEPT !.pc = "gc", !.op = "gc"]]
  /\ UNCHANGED <<nd, lock, dirty, slot, db, scene>>

GcEnd(p) == outer' = None /\ t' = [t EXCEPT ![p] = Idle]

(* The head of the loop: a stale slot is moved up, a leaf or an internode  *)
(* with at most one key is worth locking.                                  *)
GcLook(p) ==
  /\ t[p].pc = "gc"
  /\ IF nd[slot].root
     THEN /\ UNCHANGED slot
          /\ IF nd[slot].keys # {} \/ Len(nd[slot].sep) > 1
             THEN GcEnd(p)
             ELSE t' = [t EXCEPT ![p].pc = "gc_lock", ![p].n = slot] /\ UNCHANGED outer
     ELSE slot' = MaybeParent(slot) /\ UNCHANGED <<outer, t>>
  /\ UNCHANGED <<nd, lock, dirty, db, scene, ops>>

(* An empty leaf is the end of the layer, unless it is a directory.        *)
GcLockLeaf(p) ==
  LET n == t[p].n
      dies == nd[n].root /\ nd[n].keys = {} /\ ~nd[n].meta
  IN
  /\ t[p].pc = "gc_lock" /\ nd[n].kind = "leaf" /\ lock[n] = None
  /\ nd' = [nd EXCEPT ![n].deadlayer = dies]
  /\ slot' = IF dies THEN None ELSE slot
  /\ GcEnd(p)
  /\ UNCHANGED <<lock, dirty, db, scene, ops>>

(* A root with two children may have an empty first leaf to drop.          *)
GcLockRoot(p) ==
  LET n == t[p].n
      in == nd[n]
  IN
  /\ t[p].pc = "gc_lock" /\ in.kind = "internode" /\ lock[n] = None
  /\ IF ~in.root \/ Len(in.sep) > 1
     THEN GcEnd(p) /\ UNCHANGED lock
     ELSE /\ lock' = [lock EXCEPT ![n] = p]
          /\ t' = [t EXCEPT ![p].pc = IF Len(in.sep) = 1 /\ in.child[1] # None
                                         /\ in.child[2] # None
                                      THEN "gc_left" ELSE "gc_child"]
          /\ UNCHANGED outer
  /\ UNCHANGED <<nd, dirty, slot, db, scene, ops>>

(* The first leaf is locked while its parent is.  If it is empty and alone *)
(* in the list it goes, and the second child takes its place: a leaf, or   *)
(* an internode, whose own leaves have been unlinked by removals that have *)
(* not come to their parents yet.  The second child is only tried to lock: *)
(* if that fails both locks are given up and the loop starts over.  The    *)
(* root is not marked.                                                     *)
GcLeft(p) ==
  LET n == t[p].n
      left == nd[n].child[1]
      only == nd[n].child[2]
      goes == /\ nd[left].kind = "leaf" /\ nd[left].keys = {}
              /\ nd[left].prev = None /\ nd[left].next = None
  IN
  /\ t[p].pc = "gc_left"
  /\ nd[left].kind = "leaf" => lock[left] = None
  /\ \/ /\ ~goes
        /\ lock' = [lock EXCEPT ![n] = None]
        /\ GcEnd(p) /\ UNCHANGED nd
     \/ /\ goes /\ lock[only] # None
        /\ lock' = [lock EXCEPT ![n] = None]
        /\ t' = [t EXCEPT ![p].pc = "gc"] /\ UNCHANGED <<nd, outer>>
     \/ /\ goes /\ lock[only] = None
        /\ nd' = [nd EXCEPT ![left].deleted = TRUE, ![n].sep = <<>>, ![n].child = <<only>>,
                            ![only].parent = n]
        /\ t' = [Seen(left, "split") EXCEPT ![p].pc = "gc_child"]
        /\ UNCHANGED <<lock, outer>>
  /\ UNCHANGED <<dirty, slot, db, scene, ops>>

(* The root has one child, which is tried to lock: if that fails, the root *)
(* is given up and the loop starts over.                                   *)
MutGcTryChild(p) ==
  LET n == t[p].n
      child == nd[n].child[1]
      linked == nd[n].meta /\ (nd[child].prev # None \/ nd[child].next # None)
  IN
  /\ t[p].pc = "gc_child"
  /\ \/ /\ child = None \/ (child # None /\ lock[child] = None /\ linked)
        /\ lock' = [lock EXCEPT ![n] = None] /\ GcEnd(p)
     \/ /\ child # None /\ lock[child] = None /\ ~linked
        /\ lock' = [lock EXCEPT ![child] = p]
        /\ t' = [t EXCEPT ![p].pc = IF nd[n].meta THEN "gc_clone" ELSE "gc_promote",
                          ![p].kid = child]
        /\ UNCHANGED outer
  /\ UNCHANGED <<nd, dirty, slot, db, scene, ops>>

GcTryChild(p) ==
  LET n == t[p].n
      child == nd[n].child[1]
      linked == nd[n].meta /\ (nd[child].prev # None \/ nd[child].next # None)
  IN
  /\ t[p].pc = "gc_child"
  /\ \/ /\ child = None \/ (child # None /\ lock[child] = None /\ linked)
        /\ lock' = [lock EXCEPT ![n] = None] /\ GcEnd(p)
     \/ /\ child # None /\ lock[child] # None
        /\ lock' = [lock EXCEPT ![n] = None]
        /\ t' = [t EXCEPT ![p].pc = "gc"] /\ UNCHANGED outer
     \/ /\ child # None /\ lock[child] = None /\ ~linked
        /\ lock' = [lock EXCEPT ![child] = p]
        /\ t' = [t EXCEPT ![p].pc = IF nd[n].meta THEN "gc_clone" ELSE "gc_promote",
                          ![p].kid = child]
        /\ UNCHANGED outer
  /\ UNCHANGED <<nd, dirty, slot, db, scene, ops>>

(* The child becomes the layer's root; the old root leads readers there.   *)
GcPromote(p) ==
  LET n == t[p].n
      child == t[p].kid
  IN
  /\ t[p].pc = "gc_promote"
  /\ nd' = [nd EXCEPT ![child].root = TRUE, ![child].parent = None,
                      ![n].parent = child, ![n].root = FALSE]
  /\ slot' = child
  /\ lock' = [lock EXCEPT ![child] = None, ![n] = None]
  /\ t' = [Seen(n, "split") EXCEPT ![p].pc = "gc", ![p].n = None, ![p].kid = None]
  /\ UNCHANGED <<dirty, outer, db, scene, ops>>

(* A directory: a copy of the child, with the metadata, becomes the root.  *)
(* The child is unlocked as it was, and freed after a grace period.        *)
GcClone(p) ==
  LET n == t[p].n
      child == t[p].kid
      copy == Fresh
      made == [nd[child] EXCEPT !.root = TRUE, !.parent = None, !.meta = TRUE]
      kids == {nd[child].child[i] : i \in DOMAIN nd[child].child}
  IN
  /\ t[p].pc = "gc_clone"
  /\ nd' = [m \in Nodes |->
              CASE m = copy -> made
                [] m = n -> [nd[m] EXCEPT !.parent = copy, !.root = FALSE]
                [] m \in kids -> [nd[m] EXCEPT !.parent = copy]
                [] OTHER -> nd[m]]
  /\ slot' = copy
  /\ lock' = [lock EXCEPT ![child] = None, ![n] = None]
  /\ outer' = None
  /\ t' = [Seen(n, "split") EXCEPT ![p] = Idle]
  /\ UNCHANGED <<dirty, db, scene, ops>>

-----------------------------------------------------------------------------
Gc(p) == GcLook(p) \/ GcLockLeaf(p) \/ GcLockRoot(p) \/ GcLeft(p) \/ GcTryChild(p)
         \/ GcPromote(p) \/ GcClone(p)

(* All operations are done.                                                *)
Finished ==
  /\ \A p \in Procs : t[p].pc = "idle"
  /\ ops = scene.max \/ slot = None
  /\ UNCHANGED vars

Next ==
  \/ TreeNext
  \/ \E p \in Procs : (<<"gc", 0>> \in scene.todo /\ GcStart(p)) \/ Gc(p)
  \/ Finished

Spec == TreeInit /\ [][Next]_vars

-----------------------------------------------------------------------------
(* Properties.                                                             *)

(* The node whose lock a thread is waiting for.                            *)
WaitsFor(p) ==
  LET c == t[p] IN
  CASE c.pc = "lock_parent" -> c.par
    [] c.pc = "gc_lock" -> c.n
    [] c.pc = "gc_child" /\ ~ENABLED GcTryChild(p) -> nd[c.n].child[1]
    [] c.pc = "gc_left" /\ nd[nd[c.n].child[1]].kind = "leaf" -> nd[c.n].child[1]
    [] AtLeaf(c) /\ ~c.dead /\ c.op # "get" -> c.node
    [] OTHER -> None
Waits(p, q) == WaitsFor(p) # None /\ lock[WaitsFor(p)] = q

InCircle(S) == S # {} /\ \A p \in S : \E q \in S : Waits(p, q)

(* Threads never wait for each other in a circle: splits and removals wait *)
(* upwards only, and what locks downwards must not wait (the order of      *)
(* doc/spec.tex:526-527 for make_split, remove_leaf, redirect, gc_layer).  *)
NoLockCycle == ~\E S \in SUBSET Procs : InCircle(S)

(* Wherever threads do wait in a circle, one of them is a gc_layer that    *)
(* holds a root and waits for the leftmost leaf below it                   *)
(* (masstree_remove.hh:84): every other lock taken downwards is tried, or  *)
(* belongs to a node nobody else can hold.                                 *)
OnlyGcWaitsDown ==
  \A S \in SUBSET Procs : InCircle(S) => \E p \in S : t[p].pc = "gc_left"
=============================================================================
