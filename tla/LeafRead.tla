------------------------------ MODULE LeafRead ------------------------------
(***************************************************************************)
(* Lookups that take no lock against writers that change the leaves under  *)
(* them (src/masstree_get.hh, src/masstree_insert.hh,                      *)
(* src/masstree_split.hh, src/masstree_remove.hh).                         *)
(*                                                                         *)
(* A leaf is a set of slots, a permutation that says which slots are in    *)
(* use and in which order, and a version.  A reader takes a stable         *)
(* version, then reads the permutation, the keys, the value and the key's  *)
(* kind in separate steps, and keeps what it read only if the version has  *)
(* not changed.  A writer searches in the same way, locks the leaf and     *)
(* checks again.  Every load and store of shared memory that another       *)
(* thread could tell from its neighbours is one step here.                 *)
(*                                                                         *)
(* Keys are sequences of one or two slices.  A slot whose key has two      *)
(* slices holds the second one as its suffix, until another key with the   *)
(* same first slice comes: then the slot holds a layer, whose leaves are   *)
(* searched for the second slice.                                          *)
(*                                                                         *)
(* Abstracted: the internodes (reach_leaf returns the leaf that the tree   *)
(* of a layer holds responsible; module TreeLocks has the descent), the    *)
(* list pointers (module LeafLink), and the version counters (`held` says  *)
(* how the version of the thread's leaf differs from the one it read).     *)
(***************************************************************************)
EXTENDS Permuter, FiniteSets, Sequences

CONSTANTS
  Procs,       \* threads
  Leaves,      \* leaves ever allocated: each is used once
  First,       \* the only leaf of the root layer at the start
  Layers,      \* layers ever made
  RootLayer,
  None,        \* the null pointer, and "no slot"
  Keys,        \* sequences of one or two slices
  Scenes       \* bounds: each has the table's keys at the start (present, in order,
               \* one per slot), the operations to choose from (todo: operation and
               \* key), and how many of them are started (max)

(* The order of keys that a leaf can hold side by side.                    *)
KeyLess(a, b) == a[1] < b[1] \/ (a[1] = b[1] /\ Len(a) = 1 /\ Len(b) = 2)

ASSUME LeafReadAssumption ==
  /\ First \in Leaves /\ RootLayer \in Layers
  /\ None \notin Leaves \cup Layers \cup Procs \cup Slots
  /\ Width >= 3
  /\ Keys \subseteq Seq(Nat) /\ \A k \in Keys : Len(k) \in 1..2
  /\ \A s \in Scenes :
       /\ s.max \in Nat /\ s.todo \subseteq {"get", "put", "remove"} \X Keys
       /\ s.present \in Seq(Keys) /\ Len(s.present) \in 1..Width
       /\ \A i, j \in 1..Len(s.present) : i < j => KeyLess(s.present[i], s.present[j])

VARIABLES
  slot,        \* [Leaves -> [Slots -> slot]]: ikey0_, keylenx_, ksuf and lv_
  perm,        \* [Leaves -> Permuters]: permutation_
  modstate,    \* [Leaves -> {"insert", "remove", "deleted_layer"}]
  locked,      \* [Leaves -> Procs \cup {None}]: who holds lock_bit
  dirty,       \* leaves with inserting_bit or splitting_bit
  deleted,     \* leaves with deleted_bit
  layer,       \* [Leaves -> Layers \cup {None}]: the layer whose tree has the leaf
  low,         \* [Leaves -> slice]: the separator left of the leaf in its tree
  next, prev,  \* [Leaves -> Leaves \cup {None}]
  layers,      \* layers made so far
  gcs,         \* first slices whose layer a registered gc_layer callback collects
  t,           \* [Procs -> a thread's cursor and local variables]
  scene, ops,  \* the member of Scenes, and the operations started
  db           \* [Keys -> Nat]: what the table maps each key to, 0 for nothing

leafVars == <<slot, perm, modstate, locked, dirty, deleted, layer, low, next, prev, layers>>
vars == <<slot, perm, modstate, locked, dirty, deleted, layer, low, next, prev, layers,
          gcs, t, scene, ops, db>>

Empty == 0
NewSlot == [ikey |-> 0, kind |-> "plain", suf |-> 0, lv |-> Empty]

(* `node` and `held`: the leaf of the cursor and how its version differs   *)
(* from the one that was read; `bit` is that version's deleted_bit; p and  *)
(* i are the cursor's kx_ and state its state_; `may` (a history variable) *)
(* is what a lookup may answer.                                            *)
Idle == [pc |-> "idle", op |-> "none", key |-> <<>>, depth |-> 1, root |-> RootLayer,
         node |-> None, held |-> "same", bit |-> "live", perm0 |-> MakeEmpty,
         perm |-> MakeEmpty, i |-> 0, r |-> 0, p |-> None, lv |-> Empty, state |-> 0,
         val |-> 0, other |-> None, may |-> {}]

-----------------------------------------------------------------------------
(* Keys.  The slice in use, and whether a suffix follows it.               *)
Ikey(c) == c.key[c.depth]
HasSuffix(c) == Len(c.key) > c.depth

(* key::compare with the key of a slot: 0 for the same slice and kind.     *)
Compare(c, s) ==
  CASE Ikey(c) < s.ikey -> -1
    [] Ikey(c) > s.ikey -> 1
    [] Ikey(c) = s.ikey /\ HasSuffix(c) -> IF s.kind = "plain" THEN 1 ELSE 0
    [] OTHER -> IF s.kind = "plain" THEN 0 ELSE -1

(* ksuf_matches: 1 for the key, 0 for another one, -1 for a layer.         *)
KsufMatches(c, s) ==
  CASE s.kind = "plain" -> 1
    [] s.kind = "layer" -> -1
    [] OTHER -> IF HasSuffix(c) /\ s.suf = c.key[c.depth + 1] THEN 1 ELSE 0

(* reach_leaf: the leaf of the layer's tree responsible for the slice.     *)
Tree(l) == {n \in Leaves : layer[n] = l}
Responsible(l, k) ==
  LET right == {n \in Tree(l) : prev[n] # None /\ low[n] <= k} IN
  IF right = {} THEN CHOOSE n \in Tree(l) : prev[n] = None
                ELSE CHOOSE n \in right : \A m \in right : low[m] <= low[n]

(* leaf::make.                                                             *)
Unused == {n \in Leaves : layer[n] = None /\ n \notin deleted /\ locked[n] = None}
Fresh == CHOOSE n \in Unused : TRUE

(* deleted_bit of a version that is read now.                              *)
DeletedBit(n) == IF n \in deleted THEN "deleted" ELSE "live"

(* A change of a leaf's version as the threads that hold one see it.       *)
Seen(n, how) ==
  [q \in Procs |-> IF t[q].node = n /\ t[q].held # "split" THEN [t[q] EXCEPT !.held = how]
                                                           ELSE t[q]]

(* mark_insert, mark_split and mark_deleted set a dirty bit; unlock clears *)
(* it and counts, so whoever holds an older version sees it differ.        *)
Mark(n, how) == dirty' = dirty \cup {n} /\ t' = Seen(n, how)

(* A lookup may answer every value its key has while it runs.              *)
Told(k, v) ==
  [q \in Procs |-> IF t[q].op = "get" /\ t[q].key = k
                   THEN [t[q] EXCEPT !.may = @ \cup {v}] ELSE t[q]]

-----------------------------------------------------------------------------
(* The search, by get (find_unlocked) and by writers (find_locked).        *)

Start(p, o, k) ==
  /\ t[p].pc = "idle" /\ ops < scene.max
  /\ ops' = ops + 1
  /\ t' = [t EXCEPT ![p] = [Idle EXCEPT !.pc = "reach", !.op = o, !.key = k,
                                        !.val = ops + 1, !.may = {db[k]}]]
  /\ UNCHANGED <<leafVars, gcs, scene, db>>

(* The RCU callback that collects a layer, some time after the layer's     *)
(* last key went: gc_layer searches for the prefix of the layer.           *)
StartGc(p, k) ==
  /\ t[p].pc = "idle" /\ k \in gcs
  /\ gcs' = gcs \ {k}
  /\ t' = [t EXCEPT ![p] = [Idle EXCEPT !.pc = "reach", !.op = "gc", !.key = <<k>>]]
  /\ UNCHANGED <<leafVars, scene, ops, db>>

(* reach_leaf ends with a stable version of the leaf.                      *)
ReachLeaf(p) ==
  LET n == Responsible(t[p].root, Ikey(t[p])) IN
  /\ t[p].pc = "reach" /\ n \notin dirty
  /\ t' = [t EXCEPT ![p].pc = "forward", ![p].node = n, ![p].held = "same",
                    ![p].bit = "live"]
  /\ UNCHANGED <<leafVars, gcs, scene, ops, db>>

(* forward: a deleted leaf sends the search back to the layer's root.      *)
(* find_locked reads the permutation twice, for the check under the lock   *)
(* and for the search.                                                     *)
ReadPermutation(p) ==
  LET c == t[p] IN
  /\ c.pc = "forward"
  /\ t' = [t EXCEPT ![p] =
             IF c.bit = "deleted" THEN [c EXCEPT !.pc = "reach"]
             ELSE [c EXCEPT !.pc = IF c.op = "get" THEN "probe" ELSE "reread",
                            !.perm0 = perm[c.node], !.perm = perm[c.node],
                            !.i = 0, !.r = perm[c.node].size]]
  /\ UNCHANGED <<leafVars, gcs, scene, ops, db>>

RereadPermutation(p) ==
  /\ t[p].pc = "reread"
  /\ t' = [t EXCEPT ![p].pc = "probe", ![p].perm = perm[t[p].node],
                    ![p].r = perm[t[p].node].size]
  /\ UNCHANGED <<leafVars, gcs, scene, ops, db>>

(* key_lower_bound_by: one step of the binary search for the key among the *)
(* slots of the permutation, between i and r.                              *)
Probe(p) ==
  LET c == t[p]
      m == (c.i + c.r) \div 2
      s == c.perm.slot[m]
      cmp == Compare(c, slot[c.node][s])
  IN
  /\ c.pc = "probe"
  /\ t' = [t EXCEPT ![p] =
             CASE c.i >= c.r -> [c EXCEPT !.p = None, !.state = 0, !.r = 0, !.pc = "check"]
               [] c.i < c.r /\ cmp < 0 -> [c EXCEPT !.r = m]
               [] c.i < c.r /\ cmp = 0 -> [c EXCEPT !.i = m, !.p = s, !.r = 0, !.pc = "value"]
               [] OTHER -> [c EXCEPT !.i = m + 1]]
  /\ UNCHANGED <<leafVars, gcs, scene, ops, db>>

ReadValue(p) ==
  /\ t[p].pc = "value"
  /\ t' = [t EXCEPT ![p].pc = "match", ![p].lv = slot[t[p].node][t[p].p].lv]
  /\ UNCHANGED <<leafVars, gcs, scene, ops, db>>

ReadMatch(p) ==
  /\ t[p].pc = "match"
  /\ t' = [t EXCEPT ![p].pc = "check",
                    ![p].state = KsufMatches(t[p], slot[t[p].node][t[p].p])]
  /\ UNCHANGED <<leafVars, gcs, scene, ops, db>>

Descend(c, l) == [c EXCEPT !.pc = "reach", !.depth = @ + 1, !.root = l]

(* has_changed.                                                            *)
Changed(c) == c.held # "same"

(* The end of find_unlocked's loop.                                        *)
GetCheck(p) ==
  LET c == t[p] IN
  /\ c.pc = "check" /\ c.op = "get"
  /\ t' = [t EXCEPT ![p] =
             CASE Changed(c) -> [c EXCEPT !.pc = "advance"]
               [] ~Changed(c) /\ c.state < 0 -> Descend(c, c.lv)
               [] OTHER -> [c EXCEPT !.pc = "done", !.val = IF c.state = 1 THEN c.lv ELSE 0]]
  /\ UNCHANGED <<leafVars, gcs, scene, ops, db>>

GetDone(p) ==
  /\ t[p].pc = "done"
  /\ t' = [t EXCEPT ![p] = Idle]
  /\ UNCHANGED <<leafVars, gcs, scene, ops, db>>

(* find_locked goes down without a lock if nothing has changed, and locks  *)
(* the leaf otherwise.                                                     *)
LockedDescend(p) ==
  LET c == t[p] IN
  /\ c.pc = "check" /\ c.op # "get" /\ c.state < 0 /\ ~Changed(c)
  /\ t' = [t EXCEPT ![p] = Descend(c, c.lv)]
  /\ UNCHANGED <<leafVars, gcs, scene, ops, db>>

(* What find_locked checks once it has the lock.                           *)
MutStaleSearch(c) == Changed(c)
StaleSearch(c) == Changed(c) \/ perm[c.node] # c.perm0
DeletedLayer(n) == modstate[n] = "deleted_layer"

Lock(p) ==
  LET c == t[p] IN
  /\ c.pc = "check" /\ c.op # "get" /\ ~(c.state < 0 /\ ~Changed(c))
  /\ locked[c.node] = None
  /\ \/ /\ StaleSearch(c)
        /\ t' = [t EXCEPT ![p].pc = "advance"]
        /\ UNCHANGED locked
     \/ /\ ~StaleSearch(c) /\ DeletedLayer(c.node)
        /\ t' = [t EXCEPT ![p].pc = "reach", ![p].depth = 1, ![p].root = RootLayer]
        /\ UNCHANGED locked
     \/ /\ ~StaleSearch(c) /\ ~DeletedLayer(c.node)
        /\ locked' = [locked EXCEPT ![c.node] = p]
        /\ t' = [t EXCEPT ![p].pc = "found"]
  /\ UNCHANGED <<slot, perm, modstate, dirty, deleted, layer, low, next, prev, layers,
                 gcs, scene, ops, db>>

(* advance_to_key: a stable version again, and, if the leaf has split and  *)
(* the key lies right of its last key, a walk along the leaf list.         *)
LastSlot(n) == perm[n].slot[IF perm[n].size = 0 THEN 0 ELSE perm[n].size - 1]

Advance(p) ==
  LET c == t[p] IN
  /\ c.pc = "advance" /\ c.node \notin dirty
  /\ t' = [t EXCEPT ![p].pc = IF c.held = "split"
                                 /\ Compare(c, slot[c.node][LastSlot(c.node)]) > 0
                              THEN "walk" ELSE "forward",
                    ![p].held = "same", ![p].bit = DeletedBit(c.node)]
  /\ UNCHANGED <<leafVars, gcs, scene, ops, db>>

(* ikey_bound.                                                             *)
IkeyBound(n) == slot[n][0].ikey
GoesRight(c) == c.bit = "live" /\ next[c.node] # None /\ Ikey(c) >= IkeyBound(next[c.node])

Walk(p) ==
  LET c == t[p]
      n == next[c.node]
  IN
  /\ c.pc = "walk"
  /\ \/ /\ GoesRight(c) /\ n \notin dirty
        /\ t' = [t EXCEPT ![p].node = n, ![p].held = "same", ![p].bit = DeletedBit(n)]
     \/ /\ ~GoesRight(c)
        /\ t' = [t EXCEPT ![p].pc = "forward"]
  /\ UNCHANGED <<leafVars, gcs, scene, ops, db>>

-----------------------------------------------------------------------------
(* Inserts and updates.                                                    *)

(* find_insert, the choice of the slot: slot 0 keeps the leaf's bound, so  *)
(* it takes no other slice unless the leaf is the layer's first one; then  *)
(* make_split tries another free slot.                                     *)
MaySlot0(n, k) == prev[n] = None \/ IkeyBound(n) = k
Rearranged(n) == Exchange(perm[n], perm[n].size, Width - 1)
SlotFree(n, k) ==
  /\ perm[n].size < Width
  /\ Back(perm[n]) # 0 \/ MaySlot0(n, k) \/ Back(Rearranged(n)) # 0
SlotPerm(n, k) == IF Back(perm[n]) # 0 \/ MaySlot0(n, k) THEN perm[n] ELSE Rearranged(n)

(* find_insert marks the leaf when it turns from removes to inserts.       *)
InsertMark(p) ==
  LET n == t[p].node IN
  /\ t[p].pc = "found" /\ t[p].op = "put" /\ t[p].state = 0 /\ t[p].p = None
  /\ modstate[n] = "remove"
  /\ Mark(n, "insert")
  /\ modstate' = [modstate EXCEPT ![n] = "insert"]
  /\ UNCHANGED <<slot, perm, locked, deleted, layer, low, next, prev, layers, gcs, scene, ops, db>>

InsertHere(p) ==
  LET n == t[p].node
      k == Ikey(t[p])
  IN
  /\ t[p].pc = "found" /\ t[p].op = "put" /\ t[p].state = 0 /\ t[p].p = None
  /\ modstate[n] = "insert" /\ SlotFree(n, k)
  /\ perm' = [perm EXCEPT ![n] = SlotPerm(n, k)]
  /\ t' = [t EXCEPT ![p].pc = "assign_lv", ![p].p = Back(SlotPerm(n, k))]
  /\ UNCHANGED <<slot, modstate, locked, dirty, deleted, layer, low, next, prev, layers,
                 gcs, scene, ops, db>>

(* leaf::assign stores the fields of the free slot one after the other.    *)
AssignLv(p) ==
  /\ t[p].pc = "assign_lv"
  /\ slot' = [slot EXCEPT ![t[p].node][t[p].p].lv = Empty]
  /\ t' = [t EXCEPT ![p].pc = "assign_ikey"]
  /\ UNCHANGED <<perm, modstate, locked, dirty, deleted, layer, low, next, prev, layers,
                 gcs, scene, ops, db>>

AssignIkey(p) ==
  /\ t[p].pc = "assign_ikey"
  /\ slot' = [slot EXCEPT ![t[p].node][t[p].p].ikey = Ikey(t[p])]
  /\ t' = [t EXCEPT ![p].pc = "assign_keylenx"]
  /\ UNCHANGED <<perm, modstate, locked, dirty, deleted, layer, low, next, prev, layers,
                 gcs, scene, ops, db>>

Assigned(p) == t' = [t EXCEPT ![p].pc = IF t[p].other = None THEN "store" ELSE "release"]

AssignKeylenx(p) ==
  /\ t[p].pc = "assign_keylenx"
  /\ slot' = [slot EXCEPT ![t[p].node][t[p].p].kind =
                IF HasSuffix(t[p]) THEN "ksuf" ELSE "plain"]
  /\ IF HasSuffix(t[p]) THEN t' = [t EXCEPT ![p].pc = "assign_ksuf"] ELSE Assigned(p)
  /\ UNCHANGED <<perm, modstate, locked, dirty, deleted, layer, low, next, prev, layers,
                 gcs, scene, ops, db>>

(* assign_ksuf stores the suffix in the leaf's suffix bag or, if it does   *)
(* not fit, in a new bag, which has only the suffixes of the slots in use. *)
AssignKsuf(p) ==
  LET n == t[p].node
      stored == [slot[n] EXCEPT ![t[p].p].suf = t[p].key[t[p].depth + 1]]
      copied == [s \in Slots |-> IF s = t[p].p \/ s \in Live(perm[n]) THEN stored[s]
                                 ELSE [stored[s] EXCEPT !.suf = 0]]
  IN
  /\ t[p].pc = "assign_ksuf"
  /\ \E bag \in {stored, copied} : slot' = [slot EXCEPT ![n] = bag]
  /\ Assigned(p)
  /\ UNCHANGED <<perm, modstate, locked, dirty, deleted, layer, low, next, prev, layers,
                 gcs, scene, ops, db>>

(* The caller stores the value through value(): a key that was there       *)
(* changes at once, a new one when finish_insert publishes its slot.       *)
StoreNew(p) ==
  /\ t[p].pc = "store"
  /\ slot' = [slot EXCEPT ![t[p].node][t[p].p].lv = t[p].val]
  /\ t' = [t EXCEPT ![p].pc = "publish"]
  /\ UNCHANGED <<perm, modstate, locked, dirty, deleted, layer, low, next, prev, layers,
                 gcs, scene, ops, db>>

Update(p) ==
  /\ t[p].pc = "found" /\ t[p].op = "put" /\ t[p].state = 1
  /\ slot' = [slot EXCEPT ![t[p].node][t[p].p].lv = t[p].val]
  /\ db' = [db EXCEPT ![t[p].key] = t[p].val]
  /\ t' = [Told(t[p].key, t[p].val) EXCEPT ![p].pc = "unlock"]
  /\ UNCHANGED <<perm, modstate, locked, dirty, deleted, layer, low, next, prev, layers,
                 gcs, scene, ops>>

FinishInsert(p) ==
  LET n == t[p].node IN
  /\ t[p].pc = "publish"
  /\ perm' = [perm EXCEPT ![n] = InsertFromBack(@, t[p].i)]
  /\ db' = [db EXCEPT ![t[p].key] = t[p].val]
  /\ t' = [Told(t[p].key, t[p].val) EXCEPT ![p].pc = "unlock"]
  /\ UNCHANGED <<slot, modstate, locked, dirty, deleted, layer, low, next, prev, layers,
                 gcs, scene, ops>>

Unlock(p) ==
  LET n == t[p].node IN
  /\ t[p].pc = "unlock"
  /\ locked' = [locked EXCEPT ![n] = None]
  /\ dirty' = dirty \ {n}
  /\ t' = [t EXCEPT ![p] = Idle]
  /\ UNCHANGED <<slot, perm, modstate, deleted, layer, low, next, prev, layers, gcs, scene, ops, db>>

(* make_new_layer: another key with the same slice.  The new leaf is not   *)
(* reachable yet and starts locked; the slot turns into a layer by two     *)
(* stores, so the leaf is marked first.                                    *)
SuffixSlot(k, v) == [ikey |-> k, kind |-> "plain", suf |-> 0, lv |-> v]

MutNewLayer(p) ==
  LET n == t[p].node
      nl == Fresh
      l == CHOOSE m \in Layers : m \notin layers
      old == slot[n][t[p].p]
      new == t[p].key[t[p].depth + 1]
      less == old.suf < new
      oldAt == IF less THEN 0 ELSE 1
  IN
  /\ t[p].pc = "found" /\ t[p].op = "put" /\ t[p].state = 0 /\ t[p].p # None
  /\ Unused # {} /\ layers # Layers
  /\ slot' = [slot EXCEPT ![nl][oldAt] = SuffixSlot(old.suf, old.lv),
                          ![nl][1 - oldAt] = SuffixSlot(new, Empty)]
  /\ perm' = [perm EXCEPT ![nl] = IF less THEN MakeSorted(1)
                                          ELSE RemoveToBack(MakeSorted(2), 0)]
  /\ locked' = [locked EXCEPT ![nl] = p]
  /\ layer' = [layer EXCEPT ![nl] = l] /\ layers' = layers \cup {l}
  /\ t' = [t EXCEPT ![p].pc = "layer_lv", ![p].other = nl,
                    ![p].i = 1 - oldAt]
  /\ UNCHANGED <<modstate, dirty, deleted, low, next, prev, gcs, scene, ops, db>>

NewLayer(p) ==
  LET n == t[p].node
      nl == Fresh
      l == CHOOSE m \in Layers : m \notin layers
      old == slot[n][t[p].p]
      new == t[p].key[t[p].depth + 1]
      less == old.suf < new
      oldAt == IF less THEN 0 ELSE 1
  IN
  /\ t[p].pc = "found" /\ t[p].op = "put" /\ t[p].state = 0 /\ t[p].p # None
  /\ Unused # {} /\ layers # Layers
  /\ slot' = [slot EXCEPT ![nl][oldAt] = SuffixSlot(old.suf, old.lv),
                          ![nl][1 - oldAt] = SuffixSlot(new, Empty)]
  /\ perm' = [perm EXCEPT ![nl] = IF less THEN MakeSorted(1)
                                          ELSE RemoveToBack(MakeSorted(2), 0)]
  /\ locked' = [locked EXCEPT ![nl] = p]
  /\ layer' = [layer EXCEPT ![nl] = l] /\ layers' = layers \cup {l}
  /\ dirty' = dirty \cup {n}
  /\ t' = [Seen(n, "insert") EXCEPT ![p].pc = "layer_lv", ![p].other = nl,
                                    ![p].i = 1 - oldAt]
  /\ UNCHANGED <<modstate, deleted, low, next, prev, gcs, scene, ops, db>>

LayerLv(p) ==
  /\ t[p].pc = "layer_lv"
  /\ slot' = [slot EXCEPT ![t[p].node][t[p].p].lv = layer[t[p].other]]
  /\ t' = [t EXCEPT ![p].pc = "layer_keylenx"]
  /\ UNCHANGED <<perm, modstate, locked, dirty, deleted, layer, low, next, prev, layers,
                 gcs, scene, ops, db>>

LayerKeylenx(p) ==
  /\ t[p].pc = "layer_keylenx"
  /\ slot' = [slot EXCEPT ![t[p].node][t[p].p].kind = "layer"]
  /\ t' = [t EXCEPT ![p].pc = "layer_unlock"]
  /\ UNCHANGED <<perm, modstate, locked, dirty, deleted, layer, low, next, prev, layers,
                 gcs, scene, ops, db>>

LayerUnlock(p) ==
  LET c == t[p] IN
  /\ c.pc = "layer_unlock"
  /\ locked' = [locked EXCEPT ![c.node] = None]
  /\ dirty' = dirty \ {c.node}
  /\ t' = [t EXCEPT ![p] = [c EXCEPT !.pc = "store", !.node = c.other, !.other = None,
                                     !.p = c.i, !.depth = @ + 1]]
  /\ UNCHANGED <<slot, perm, modstate, deleted, layer, low, next, prev, layers, gcs, scene, ops, db>>

(* make_split: the leaf has no slot for the key.  With the new key at      *)
(* index i there would be size + 1 keys; the first mid of them stay.       *)
IkeyAfterInsert(n, c, j) ==
  CASE j < c.i -> slot[n][perm[n].slot[j]].ikey
    [] j = c.i -> Ikey(c)
    [] OTHER -> slot[n][perm[n].slot[j - 1]].ikey

SplitAt(n, c, m) == m \in 1..perm[n].size /\ IkeyAfterInsert(n, c, m - 1) # IkeyAfterInsert(n, c, m)

FirstMid(n, c) ==
  CASE c.i = 0 /\ prev[n] = None -> 1
    [] c.i = perm[n].size /\ next[n] = None -> perm[n].size
    [] OTHER -> Width \div 2 + 1

(* Keys with the same slice stay together: the nearest place to the right  *)
(* of the middle where the slice changes, or else to the left of it.       *)
Mid(n, c) ==
  LET m == FirstMid(n, c)
      near(d) == SplitAt(n, c, m + d) \/ SplitAt(n, c, m - d)
      d == CHOOSE e \in 0..Width : near(e) /\ \A f \in 0..(e - 1) : ~near(f)
  IN  IF SplitAt(n, c, m + d) THEN m + d ELSE m - d

(* split_into fills the new leaf, which starts with the version of the old *)
(* one, lock included, and links it behind the old one.                    *)
Moved(n, c, m, j) ==
  CASE m + j = c.i -> [ikey |-> Ikey(c), kind |-> IF HasSuffix(c) THEN "ksuf" ELSE "plain",
                       suf |-> IF HasSuffix(c) THEN c.key[c.depth + 1] ELSE 0, lv |-> Empty]
    [] m + j < c.i -> slot[n][perm[n].slot[m + j]]
    [] OTHER -> slot[n][perm[n].slot[m + j - 1]]

SplitInto(p) ==
  LET c == t[p]
      n == c.node
      nr == Fresh
      m == Mid(n, c)
      count == perm[n].size + 1 - m
      sorted == MakeSorted(count)
  IN
  /\ c.pc = "found" /\ c.op = "put" /\ c.state = 0 /\ c.p = None
  /\ modstate[n] = "insert" /\ ~SlotFree(n, Ikey(c)) /\ Unused # {}
  /\ slot' = [slot EXCEPT ![nr] = [j \in Slots |-> IF j < count THEN Moved(n, c, m, j)
                                                               ELSE NewSlot]]
  /\ perm' = [perm EXCEPT ![nr] = IF c.i >= m THEN RemoveToBack(sorted, c.i - m) ELSE sorted]
  /\ locked' = [locked EXCEPT ![nr] = p]
  /\ dirty' = IF n \in dirty THEN dirty \cup {nr} ELSE dirty
  /\ low' = [low EXCEPT ![nr] = IkeyAfterInsert(n, c, m)]
  /\ next' = [next EXCEPT ![nr] = next[n], ![n] = nr]
  /\ prev' = [x \in Leaves |-> IF x = nr THEN n ELSE IF x = next[n] THEN nr ELSE prev[x]]
  /\ t' = [t EXCEPT ![p].pc = "split_tree", ![p].other = nr,
                    ![p].state = IF c.i < m THEN 0 ELSE 1]
  /\ UNCHANGED <<modstate, deleted, layer, layers, gcs, scene, ops, db>>

(* The parent points to the new leaf before the old one gives up its keys. *)
SplitTree(p) ==
  /\ t[p].pc = "split_tree"
  /\ layer' = [layer EXCEPT ![t[p].other] = layer[t[p].node]]
  /\ t' = [t EXCEPT ![p].pc = "split_mark"]
  /\ UNCHANGED <<slot, perm, modstate, locked, dirty, deleted, low, next, prev, layers,
                 gcs, scene, ops, db>>

SplitMark(p) ==
  /\ t[p].pc = "split_mark"
  /\ dirty' = dirty \cup {t[p].node}
  /\ t' = [Seen(t[p].node, "split") EXCEPT ![p].pc = "split_strip"]
  /\ UNCHANGED <<slot, perm, modstate, locked, deleted, layer, low, next, prev, layers,
                 gcs, scene, ops, db>>

(* Strip the moved keys.  The new key goes to the old leaf if it lies left *)
(* of the middle (split type 0), else it is in the new leaf already.       *)
SplitStrip(p) ==
  LET c == t[p]
      n == c.node
      nr == c.other
      left == SetSize(perm[n], perm[n].size - perm[nr].size)
      perml == IF perm[n].size # Width THEN Exchange(left, left.size, Width - 1) ELSE left
  IN
  /\ c.pc = "split_strip"
  /\ perm' = [perm EXCEPT ![n] = perml]
  /\ t' = [t EXCEPT ![p] =
             IF c.state = 0 THEN [c EXCEPT !.pc = "assign_lv", !.p = Back(perml)]
             ELSE [c EXCEPT !.pc = "release", !.node = nr, !.other = n,
                            !.i = @ - perml.size, !.p = c.i - perml.size]]
  /\ UNCHANGED <<slot, modstate, locked, dirty, deleted, layer, low, next, prev, layers,
                 gcs, scene, ops, db>>

(* Hand-over-hand: the leaf that does not get the key is unlocked.         *)
SplitRelease(p) ==
  LET c == t[p] IN
  /\ c.pc = "release"
  /\ locked' = [locked EXCEPT ![c.other] = None]
  /\ dirty' = dirty \ {c.other}
  /\ t' = [t EXCEPT ![p].pc = "store", ![p].other = None]
  /\ UNCHANGED <<slot, perm, modstate, deleted, layer, low, next, prev, layers, gcs, scene, ops, db>>

-----------------------------------------------------------------------------
(* Removes, by remove (finish with a negative state) and by gc_layer.      *)

RemoveMissing(p) ==
  /\ t[p].pc = "found" /\ t[p].op = "remove" /\ t[p].state = 0
  /\ t' = [t EXCEPT ![p].pc = "unlock"]
  /\ UNCHANGED <<leafVars, gcs, scene, ops, db>>

RemoveFound(p) ==
  /\ t[p].pc = "found" /\ t[p].op = "remove" /\ t[p].state = 1
  /\ t' = [t EXCEPT ![p].pc = "remove"]
  /\ UNCHANGED <<leafVars, gcs, scene, ops, db>>

(* finish_remove marks the leaf when it turns from inserts to removes: the *)
(* next insert may then reuse the slot.                                    *)
RemoveMark(p) ==
  LET n == t[p].node IN
  /\ t[p].pc = "remove" /\ modstate[n] = "insert"
  /\ dirty' = dirty \cup {n} /\ t' = Seen(n, "insert")
  /\ modstate' = [modstate EXCEPT ![n] = "remove"]
  /\ UNCHANGED <<slot, perm, locked, deleted, layer, low, next, prev, layers, gcs, scene, ops, db>>

(* The key goes.  An empty leaf goes too unless it is the layer's first    *)
(* one; if it is the layer's only one, the layer will be collected.        *)
FinishRemove(p) ==
  LET c == t[p]
      n == c.node
      emptied == perm[n].size = 1
  IN
  /\ c.pc = "remove" /\ modstate[n] = "remove"
  /\ perm' = [perm EXCEPT ![n] = RemoveAt(@, c.i)]
  /\ db' = IF c.op = "remove" THEN [db EXCEPT ![c.key] = 0] ELSE db
  /\ t' = [(IF c.op = "remove" THEN Told(c.key, 0) ELSE t)
           EXCEPT ![p].pc = IF emptied /\ prev[n] # None THEN "delete" ELSE "unlock"]
  /\ gcs' = IF emptied /\ prev[n] = None /\ next[n] = None /\ layer[n] # RootLayer
            THEN gcs \cup {c.key[1]} ELSE gcs
  /\ UNCHANGED <<slot, modstate, locked, dirty, deleted, layer, low, next, prev, layers, scene, ops>>

(* remove_leaf: the leaf is marked, taken out of the list, then out of its *)
(* layer's tree; its neighbour on the left answers for its keys.           *)
DeleteMark(p) ==
  LET n == t[p].node IN
  /\ t[p].pc = "delete"
  /\ deleted' = deleted \cup {n} /\ dirty' = dirty \cup {n}
  /\ t' = [Seen(n, "split") EXCEPT ![p].pc = "delete_unlink"]
  /\ UNCHANGED <<slot, perm, modstate, locked, layer, low, next, prev, layers, gcs, scene, ops, db>>

DeleteUnlink(p) ==
  LET n == t[p].node IN
  /\ t[p].pc = "delete_unlink"
  /\ next' = [next EXCEPT ![prev[n]] = next[n]]
  /\ prev' = [x \in Leaves |-> IF x = next[n] THEN prev[n] ELSE prev[x]]
  /\ t' = [t EXCEPT ![p].pc = "delete_tree"]
  /\ UNCHANGED <<slot, perm, modstate, locked, dirty, deleted, layer, low, layers, gcs, scene, ops, db>>

DeleteTree(p) ==
  /\ t[p].pc = "delete_tree"
  /\ layer' = [layer EXCEPT ![t[p].node] = None]
  /\ t' = [t EXCEPT ![p].pc = "unlock"]
  /\ UNCHANGED <<slot, perm, modstate, locked, dirty, deleted, low, next, prev, layers,
                 gcs, scene, ops, db>>

(* gc_layer, for a layer that is one leaf: the slot with the prefix must   *)
(* hold a layer, and the layer's leaf must be empty before and after it is *)
(* locked.  The leaf keeps its version; it is the modification state that  *)
(* sends whoever locks it later back to the root.                          *)
GcSlot(c) == c.i + (IF c.state = 1 THEN 1 ELSE 0)

GcLayer(p) ==
  LET c == t[p]
      n == c.node
      j == GcSlot(c)
      s == perm[n].slot[j]
      lf == CHOOSE x \in Tree(slot[n][s].lv) : prev[x] = None
  IN
  /\ c.pc = "found" /\ c.op = "gc"
  /\ t' = [t EXCEPT ![p] =
             IF /\ j < perm[n].size
                /\ slot[n][s].ikey = Ikey(c) /\ slot[n][s].kind = "layer"
                /\ next[lf] = None /\ perm[lf].size = 0
             THEN [c EXCEPT !.pc = "gc_lock", !.i = j, !.other = lf]
             ELSE [c EXCEPT !.pc = "unlock"]]
  /\ UNCHANGED <<leafVars, gcs, scene, ops, db>>

GcLock(p) ==
  LET c == t[p]
      lf == c.other
  IN
  /\ c.pc = "gc_lock" /\ locked[lf] = None
  /\ \/ /\ next[lf] = None /\ perm[lf].size = 0
        /\ modstate' = [modstate EXCEPT ![lf] = "deleted_layer"]
        /\ t' = [t EXCEPT ![p].pc = "remove", ![p].other = None]
     \/ /\ next[lf] # None \/ perm[lf].size > 0
        /\ t' = [t EXCEPT ![p].pc = "unlock", ![p].other = None]
        /\ UNCHANGED modstate
  /\ UNCHANGED <<slot, perm, locked, dirty, deleted, layer, low, next, prev, layers,
                 gcs, scene, ops, db>>

-----------------------------------------------------------------------------
(* A table whose root leaf has the keys of the scene, each with value 0 - its   *)
(* index, and no operation under way.                                      *)
KeySlot(k, v) ==
  [ikey |-> k[1], kind |-> IF Len(k) > 1 THEN "ksuf" ELSE "plain",
   suf |-> IF Len(k) > 1 THEN k[2] ELSE 0, lv |-> v]

Init ==
  /\ scene \in Scenes
  /\ slot = [n \in Leaves |-> [s \in Slots |-> IF n = First /\ s < Len(scene.present)
                                               THEN KeySlot(scene.present[s + 1], 0 - (s + 1))
                                               ELSE NewSlot]]
  /\ perm = [n \in Leaves |-> IF n = First THEN MakeSorted(Len(scene.present)) ELSE MakeEmpty]
  /\ modstate = [n \in Leaves |-> "insert"]
  /\ locked = [n \in Leaves |-> None]
  /\ dirty = {} /\ deleted = {}
  /\ layer = [n \in Leaves |-> IF n = First THEN RootLayer ELSE None]
  /\ low = [n \in Leaves |-> 0]
  /\ next = [n \in Leaves |-> None] /\ prev = [n \in Leaves |-> None]
  /\ layers = {RootLayer} /\ gcs = {}
  /\ t = [p \in Procs |-> Idle] /\ ops = 0
  /\ db = [k \in Keys |-> IF \E s \in DOMAIN scene.present : scene.present[s] = k
                          THEN 0 - (CHOOSE s \in DOMAIN scene.present : scene.present[s] = k) ELSE 0]

Search(p) ==
  \/ ReachLeaf(p) \/ ReadPermutation(p) \/ RereadPermutation(p) \/ Probe(p)
  \/ ReadValue(p) \/ ReadMatch(p) \/ GetCheck(p) \/ GetDone(p)
  \/ LockedDescend(p) \/ Lock(p) \/ Advance(p) \/ Walk(p)

Put(p) ==
  \/ InsertMark(p) \/ InsertHere(p) \/ AssignLv(p) \/ AssignIkey(p) \/ AssignKeylenx(p)
  \/ AssignKsuf(p) \/ StoreNew(p) \/ Update(p) \/ FinishInsert(p) \/ Unlock(p)
  \/ NewLayer(p) \/ LayerLv(p) \/ LayerKeylenx(p) \/ LayerUnlock(p)
  \/ SplitInto(p) \/ SplitTree(p) \/ SplitMark(p) \/ SplitStrip(p) \/ SplitRelease(p)

Remove(p) ==
  \/ RemoveMissing(p) \/ RemoveFound(p) \/ RemoveMark(p) \/ FinishRemove(p)
  \/ DeleteMark(p) \/ DeleteUnlink(p) \/ DeleteTree(p) \/ GcLayer(p) \/ GcLock(p)

Next ==
  \E p \in Procs :
    \/ \E w \in scene.todo : Start(p, w[1], w[2])
    \/ \E k \in gcs : StartGc(p, k)
    \/ Search(p) \/ Put(p) \/ Remove(p)

Spec == Init /\ [][Next]_vars

-----------------------------------------------------------------------------
(* Properties.                                                             *)

(* A get answers with a value its key had at some moment of the lookup, or *)
(* with "not found" if the key was absent at some moment: it never returns *)
(* another key's value, a value torn from a slot that was being reused or  *)
(* turned into a layer, or misses a key that a split was moving            *)
(* (find_unlocked, masstree_get.hh:22-57).                                 *)
ReadsLinearizable == \A p \in Procs : t[p].pc = "done" => t[p].val \in t[p].may

(* When find_locked returns, its leaf is locked and its answer is exact    *)
(* although the search was made before the lock: it has found the key if   *)
(* and only if the table has it, at the slot that holds its value          *)
(* (masstree_get.hh:121-169).                                              *)
LockedFindExact ==
  \A p \in Procs : t[p].pc = "found" /\ t[p].op # "gc" =>
    /\ (t[p].state = 1) <=> (db[t[p].key] # 0)
    /\ t[p].state = 1 => slot[t[p].node][t[p].p].lv = db[t[p].key]
=============================================================================
