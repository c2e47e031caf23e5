---------------------------- MODULE LeafReadInv -----------------------------
(***************************************************************************)
(* The inductive invariant behind the two theorems of LeafReadProofs, as a *)
(* conjunction of named parts: StoreInv is about the leaves and the table, *)
(* ThreadInv about what each thread has read and may still use. Frame, at  *)
(* the end, is what a step of one thread guarantees to the others.         *)
(***************************************************************************)
EXTENDS LeafRead

(* The steps of a search; those between the permutation's load and the     *)
(* version check; the writer's steps, by what they have under way.         *)
SearchPc == {"forward", "reread", "probe", "value", "match", "check", "advance", "walk"}
ReadPc == {"reread", "probe", "value", "match", "check"}
AssignPc == {"assign_lv", "assign_ikey", "assign_keylenx", "assign_ksuf"}
StorePc == {"release", "store", "publish"}
TurnPc == {"layer_lv", "layer_keylenx"}
LayerPc == {"layer_lv", "layer_keylenx", "layer_unlock"}
MidPc == {"split_tree", "split_mark", "split_strip"}
DeletePc == {"delete", "delete_unlink", "delete_tree"}
UnlinkPc == {"delete_unlink", "delete_tree"}
LockPc == {"found", "unlock", "remove", "gc_lock"} \cup AssignPc \cup StorePc \cup LayerPc
          \cup MidPc \cup DeletePc
Pcs == {"idle", "reach", "done"} \cup SearchPc \cup LockPc

(* Types.                                                                  *)
Slot == [ikey : Nat, kind : {"plain", "ksuf", "layer"}, suf : Nat, lv : Int \cup Layers]

Thread ==
  [pc : Pcs, op : {"none", "get", "put", "remove", "gc"}, key : Seq(Nat), depth : 1..2,
   root : Layers, node : Leaves \cup {None}, held : {"same", "insert", "split"},
   bit : {"live", "deleted"}, perm0 : Permuters, perm : Permuters, i : Int, r : Int,
   p : Slots \cup {None}, lv : Int \cup Layers, state : {-1, 0, 1}, val : Int \cup Layers,
   other : Leaves \cup {None}, may : SUBSET (Int \cup Layers)]

LeafTypeOK ==
  /\ slot \in [Leaves -> [Slots -> Slot]]
  /\ perm \in [Leaves -> Permuters]
  /\ modstate \in [Leaves -> {"insert", "remove", "deleted_layer"}]
  /\ locked \in [Leaves -> Procs \cup {None}]
  /\ dirty \subseteq Leaves /\ deleted \subseteq Leaves
  /\ layer \in [Leaves -> Layers \cup {None}]
  /\ low \in [Leaves -> Nat]
  /\ next \in [Leaves -> Leaves \cup {None}] /\ prev \in [Leaves -> Leaves \cup {None}]
  /\ layers \subseteq Layers /\ RootLayer \in layers

(* Every variable has its type.                                            *)
TypeOK ==
  /\ LeafTypeOK
  /\ gcs \subseteq Nat
  /\ t \in [Procs -> Thread]
  /\ scene \in Scenes /\ ops \in Nat
  /\ db \in [Keys -> Int \cup Layers]

-----------------------------------------------------------------------------
(* A leaf is in the list of a layer when its predecessor points to it; a   *)
(* leaf that a split has linked and not yet put into the tree counts as    *)
(* its predecessor's neighbour.                                            *)
Linked(n) == prev[n] = None \/ next[prev[n]] = n
In(n, l) ==
  /\ Linked(n)
  /\ \/ layer[n] = l
     \/ layer[n] = None /\ n \notin deleted /\ prev[n] # None /\ layer[prev[n]] = l

(* A leaf that no list has any more.                                       *)
Gone(n) == \A l \in Layers : ~In(n, l)

(* While a leaf splits it still holds what its new neighbour got, so it    *)
(* covers the slices of both.                                              *)
Splitting(n) == locked[n] # None /\ t[locked[n]].node = n /\ t[locked[n]].pc \in MidPc
Hi(n) == IF Splitting(n) THEN next[next[n]] ELSE next[n]
Below(n, x) == Hi(n) = None \/ x < low[Hi(n)]
Covers(n, x) == low[n] <= x /\ Below(n, x)

(* The indices in use, and the slot behind one.                            *)
Index(pm) == 0..(pm.size - 1)
At(n, i) == slot[n][perm[n].slot[i]]

(* A slot that becomes a layer counts as the layer from the start: what it *)
(* says of the keys is the same before and after.                          *)
Turning(n, s) ==
  locked[n] # None /\ t[locked[n]].node = n /\ t[locked[n]].pc \in TurnPc /\ t[locked[n]].p = s
Ent(n, s) == IF Turning(n, s)
             THEN [slot[n][s] EXCEPT !.kind = "layer", !.lv = layer[t[locked[n]].other]]
             ELSE slot[n][s]
Entries(n) == {Ent(n, perm[n].slot[i]) : i \in Index(perm[n])}

(* The layer l is held by a slot of the root layer with slice a; a layer   *)
(* is dead when gc_layer has marked its leaf.                              *)
IsLayer(e, l, a) == e.kind = "layer" /\ e.lv = l /\ e.ikey = a
Attached(l, a) == \E n \in Leaves : In(n, RootLayer) /\ \E e \in Entries(n) : IsLayer(e, l, a)
Dead(l) == \A n \in Leaves : In(n, l) => modstate[n] = "deleted_layer"

(* The order of the keys of a leaf.                                        *)
Less(a, b) == a.ikey < b.ikey \/ (a.ikey = b.ikey /\ a.kind = "plain" /\ b.kind # "plain")
SortedBy(n, pm) ==
  \A i, j \in Index(pm) : i < j => Less(slot[n][pm.slot[i]], slot[n][pm.slot[j]])
Injective(pm) == \A i, j \in Slots : pm.slot[i] = pm.slot[j] => i = j

(* A permutation may only grow while the leaf takes inserts and only       *)
(* shrink while it takes removes; at equal size it is the same one.        *)
PermLe(a, b) ==
  /\ a.size <= b.size
  /\ \A i \in Index(a) : \E j \in Index(b) : a.slot[i] = b.slot[j]
  /\ a.size = b.size => \A i \in Index(a) : a.slot[i] = b.slot[i]

-----------------------------------------------------------------------------
(* A leaf that has been made.                                              *)
Alloc(n) == layer[n] # None \/ n \in deleted \/ locked[n] # None
Owns(c, n) == c.pc \in LockPc /\ (n = c.node \/ (c.pc # "gc_lock" /\ n = c.other))

(* A leaf is locked by the thread whose cursor says so, a dirty leaf is    *)
(* locked, and whoever holds a version of a dirty leaf will see it differ. *)
LockInv ==
  /\ \A p \in Procs : \A n \in Leaves : locked[n] = p <=> Owns(t[p], n)
  /\ \A p \in Procs : t[p].pc \in LockPc => t[p].node \in Leaves /\ t[p].other # t[p].node
  /\ \A n \in dirty : locked[n] # None
  /\ \A n \in dirty : \A p \in Procs : t[p].node = n => t[p].held # "same"

(* The leaf of a dead layer is empty, alone, and never locked again.       *)
DeadInv ==
  \A n \in Leaves : modstate[n] = "deleted_layer" =>
     /\ locked[n] = None /\ perm[n].size = 0 /\ next[n] = None /\ prev[n] = None
     /\ layer[n] # None /\ layer[n] # RootLayer /\ n \notin deleted

(* Leaves that are not made are blank and nothing refers to them; a leaf   *)
(* is out of its tree only while its creator splits or its remover         *)
(* unlinks.                                                                *)
AllocInv ==
  /\ \A n \in Leaves : ~Alloc(n) =>
        low[n] = 0 /\ next[n] = None /\ prev[n] = None /\ modstate[n] = "insert" /\ perm[n].size = 0
  /\ \A n \in Leaves : next[n] # None => Alloc(next[n])
  /\ \A n \in Leaves : prev[n] # None => Alloc(prev[n])
  /\ \A p \in Procs : t[p].node # None => Alloc(t[p].node)
  /\ \A p \in Procs : t[p].other # None => Alloc(t[p].other)
  /\ \A n \in Leaves : layer[n] # None => layer[n] \in layers
  /\ \A n \in Leaves : locked[n] # None /\ layer[n] = None /\ n \notin deleted =>
        t[locked[n]].pc = "split_tree" /\ t[locked[n]].other = n
  /\ \A n \in Leaves : Alloc(n) /\ n \notin deleted => \E l \in layers : In(n, l)
  /\ \A n \in Leaves : layer[n] # None /\ (~Linked(n) \/ n \in deleted) =>
        locked[n] # None /\ t[locked[n]].pc \in UnlinkPc /\ t[locked[n]].node = n

(* The list of a layer: next_ and prev_ agree, separators ascend, no leaf  *)
(* lies between neighbours, one leaf is the first.                         *)
ListInv ==
  /\ \A l \in layers : \A n \in Leaves : In(n, l) =>
        /\ next[n] # None => In(next[n], l) /\ prev[next[n]] = n /\ low[n] < low[next[n]]
        /\ prev[n] # None => In(prev[n], l) /\ next[prev[n]] = n
        /\ prev[n] = None => low[n] = 0
  /\ \A l \in layers : \A n, m \in Leaves : In(n, l) /\ In(m, l) /\ low[n] < low[m] =>
        next[n] # None /\ low[next[n]] <= low[m]
  /\ \A l \in layers : \A n, m \in Leaves : In(n, l) /\ In(m, l) /\ low[n] = low[m] => n = m
  /\ \A l \in layers : \E n \in Leaves : In(n, l) /\ prev[n] = None

(* ikey_bound is read from slot 0, so slot 0 keeps the separator of a leaf *)
(* that is not the first of its layer.                                     *)
BoundInv ==
  /\ \A n \in Leaves : prev[n] # None => slot[n][0].ikey = low[n] /\ low[n] > 0
  /\ \A n \in deleted : prev[n] # None

(* permutation_ sorts the slots in use.                                    *)
SortInv == \A n \in Leaves : Injective(perm[n]) /\ SortedBy(n, perm[n])

(* A leaf's entries are within its bounds; layers hang in the root layer   *)
(* only, the model's keys having two slices.                               *)
LeafInv ==
  \A l \in layers : \A n \in Leaves : In(n, l) =>
    \A e \in Entries(n) :
      /\ Covers(n, e.ikey)
      /\ e.kind # "layer" => e.lv # 0
      /\ l # RootLayer => e.kind = "plain"
      /\ e.kind = "layer" => e.lv \in layers \ {RootLayer}

(* The slot that an empty leaf's search looks at lies left of the next     *)
(* leaf.                                                                   *)
LeftInv ==
  \A l \in layers : \A n \in Leaves :
    In(n, l) /\ perm[n].size = 0 /\ ~(n \in dirty /\ modstate[n] = "insert") =>
      Below(n, At(n, 0).ikey)

(* What the entries of the leaf that covers a key say is what the table    *)
(* has.                                                                    *)
PlainSays(n, x, k) ==
  /\ \A e \in Entries(n) : e.ikey = x /\ e.kind = "plain" => db[k] = e.lv
  /\ (\A e \in Entries(n) : ~(e.ikey = x /\ e.kind = "plain")) => db[k] = 0

SufSays(n, k) ==
  /\ \A e \in Entries(n) : e.ikey = k[1] /\ e.kind = "ksuf" =>
       db[k] = IF e.suf = k[2] THEN e.lv ELSE 0
  /\ (\A e \in Entries(n) : ~(e.ikey = k[1] /\ e.kind # "plain")) => db[k] = 0

DbInv ==
  /\ \A k \in Keys : \A n \in Leaves : In(n, RootLayer) /\ Covers(n, k[1]) =>
       /\ Len(k) = 1 => PlainSays(n, k[1], k)
       /\ Len(k) = 2 => SufSays(n, k)
  /\ \A k \in Keys : \A l \in layers : Len(k) = 2 /\ Attached(l, k[1]) =>
       \A n \in Leaves : In(n, l) /\ Covers(n, k[2]) => PlainSays(n, k[2], k)

(* A layer is held by one slice.                                           *)
AttachInv ==
  \A a, b \in Nat : \A l \in layers : Attached(l, a) /\ Attached(l, b) => a = b

-----------------------------------------------------------------------------
(* A layer that a search has read is still the one for its first slice, or *)
(* dead; if it is dead, the lookup may answer that the key is absent.      *)
LayerRef(c, l) ==
  /\ l \in layers \ {RootLayer}
  /\ Attached(l, c.key[1]) \/ (Dead(l) /\ (c.op = "get" => 0 \in c.may))

(* The operation and its key; a lookup may always answer the present       *)
(* value.                                                                  *)
KeyOK(c) ==
  /\ Len(c.key) \in 1..2 /\ c.depth \in 1..Len(c.key) /\ c.op # "none"
  /\ c.op # "gc" => c.key \in Keys
  /\ c.op = "gc" => Len(c.key) = 1
  /\ c.op = "get" => db[c.key] \in c.may
  /\ c.pc = "done" => c.op = "get"
  /\ c.pc \in LockPc \cup {"reread"} => c.op # "get"
  /\ c.op = "put" => c.val \in Nat \ {0}

RootOK(c) == IF c.depth = 1 THEN c.root = RootLayer ELSE LayerRef(c, c.root)

(* The leaf of a search is in its layer or unlinked. If no split or        *)
(* removal has changed its version it is the right leaf.                   *)
SearchOK(c) ==
  /\ c.node # None
  /\ In(c.node, c.root) \/ Gone(c.node)
  /\ low[c.node] <= Ikey(c)
  /\ c.bit = "live" /\ next[c.node] # None => In(next[c.node], c.root) \/ Gone(next[c.node])
  /\ c.held # "split" /\ c.bit = "live" =>
       /\ c.node \notin deleted /\ In(c.node, c.root)
       /\ c.pc # "walk" => Covers(c.node, Ikey(c))
  /\ c.pc \in ReadPc \cup {"advance"} => c.bit = "live"

(* The permutation that was read lies between the one at the start of the  *)
(* search and the one that is there now.                                   *)
Regime(c) ==
  IF modstate[c.node] = "insert"
  THEN PermLe(c.perm0, c.perm) /\ PermLe(c.perm, perm[c.node])
  ELSE PermLe(c.perm, c.perm0) /\ PermLe(perm[c.node], c.perm)

(* What the slots of the permutation that was read say now.                *)
CmpAt(c, j) == Compare(c, slot[c.node][c.perm.slot[j]])
MatchAt(c, j) == KsufMatches(c, slot[c.node][c.perm.slot[j]])
LvAt(c, j) == slot[c.node][c.perm.slot[j]].lv

(* A search whose version is unchanged: each slot it may still look at     *)
(* leads to a permitted answer, and so does finding none.                  *)
ReadOK(c) ==
  /\ Regime(c)
  /\ SortedBy(c.node, c.perm)
  /\ \A j \in Index(c.perm) : CmpAt(c, j) = 0 =>
        /\ MatchAt(c, j) = 1 /\ c.op = "get" => LvAt(c, j) \in c.may
        /\ MatchAt(c, j) = -1 => LayerRef(c, LvAt(c, j)) /\ c.depth = 1 /\ Len(c.key) = 2
  /\ c.op = "get" /\ (\A j \in Index(c.perm) : CmpAt(c, j) # 0 \/ MatchAt(c, j) = 0) => 0 \in c.may

(* The place of a binary search, and what it has compared so far.          *)
FoundPlace(c) == c.i \in Index(c.perm) /\ c.p = c.perm.slot[c.i]

PlaceType(c) ==
  /\ c.pc = "reread" => c.perm = c.perm0 /\ c.i = 0
  /\ c.pc = "probe" => 0 <= c.i /\ c.i <= c.r /\ c.r <= c.perm.size
  /\ c.pc \in {"value", "match"} => FoundPlace(c)
  /\ c.pc = "check" /\ c.p # None => FoundPlace(c)
  /\ c.pc = "check" /\ c.p = None => c.i \in 0..c.perm.size /\ c.state = 0

PlaceOK(c) ==
  /\ c.pc = "probe" =>
       \A j \in Index(c.perm) : (j < c.i => CmpAt(c, j) = 1) /\ (j >= c.r => CmpAt(c, j) = -1)
  /\ c.pc \in {"value", "match"} => CmpAt(c, c.i) = 0
  /\ c.pc = "match" /\ c.op = "get" /\ MatchAt(c, c.i) = 1 => c.lv \in c.may
  /\ c.pc = "match" /\ MatchAt(c, c.i) = -1 => c.lv = LvAt(c, c.i)
  /\ c.pc = "check" /\ c.p = None =>
       \A j \in Index(c.perm) : (j < c.i => CmpAt(c, j) = 1) /\ (j >= c.i => CmpAt(c, j) = -1)
  /\ c.pc = "check" /\ c.p # None =>
       /\ CmpAt(c, c.i) = 0 /\ MatchAt(c, c.i) = c.state
       /\ c.op = "get" /\ c.state = 1 => c.lv \in c.may
       /\ c.state = -1 => c.lv = LvAt(c, c.i)

-----------------------------------------------------------------------------
(* A locked leaf is in the right layer and covers the key.                 *)
Level(c) == IF c.depth = 1 THEN layer[c.node] = RootLayer ELSE Attached(layer[c.node], c.key[1])

HomeOK(c) ==
  /\ layer[c.node] \in layers /\ In(c.node, layer[c.node]) /\ Level(c)
  /\ Covers(c.node, Ikey(c))

(* Where the key is, or where it belongs.                                  *)
Position(c) ==
  /\ c.i \in 0..perm[c.node].size
  /\ \A j \in Index(perm[c.node]) : /\ j < c.i => Compare(c, At(c.node, j)) = 1
                                    /\ j >= c.i => Compare(c, At(c.node, j)) = -1
FoundAt(c) ==
  /\ c.i \in Index(perm[c.node]) /\ c.p = perm[c.node].slot[c.i]
  /\ Compare(c, At(c.node, c.i)) = 0 /\ KsufMatches(c, At(c.node, c.i)) = c.state

(* find_locked has returned.                                               *)
FoundOK(c) ==
  /\ c.state \in {0, 1}
  /\ c.p = None => c.state = 0 /\ Position(c)
  /\ c.p # None => FoundAt(c)
  /\ c.node \in dirty => c.op = "put" /\ c.state = 0 /\ c.p = None /\ modstate[c.node] = "insert"

(* The free slot at the back is written field by field.                    *)
SlotIs(c, s) ==
  /\ s.ikey = Ikey(c)
  /\ s.kind = IF HasSuffix(c) THEN "ksuf" ELSE "plain"
  /\ HasSuffix(c) => s.suf = c.key[c.depth + 1]

NewOK(c) ==
  /\ c.op = "put" /\ modstate[c.node] = "insert" /\ Position(c)
  /\ perm[c.node].size < Width /\ c.p = Back(perm[c.node])
  /\ c.p = 0 => prev[c.node] = None \/ low[c.node] = Ikey(c)
  /\ c.pc \in {"assign_keylenx", "assign_ksuf"} => slot[c.node][c.p].ikey = Ikey(c)
  /\ c.pc = "assign_ksuf" => HasSuffix(c) /\ slot[c.node][c.p].kind = "ksuf"
  /\ c.pc \in StorePc => SlotIs(c, slot[c.node][c.p])
  /\ c.pc = "publish" => slot[c.node][c.p].lv = c.val
  /\ c.other # None => perm[c.other].size > 0
  /\ c.pc = "release" => c.other # None

(* make_new_layer: the new leaf holds the old suffix, and its free slot    *)
(* the new one.                                                            *)
TurnOK(c) ==
  LET s == slot[c.node][c.p]
      nl == c.other
  IN
  /\ c.op = "put" /\ c.depth = 1 /\ Len(c.key) = 2 /\ c.p # None
  /\ \E j \in Index(perm[c.node]) : perm[c.node].slot[j] = c.p
  /\ s.ikey = c.key[1] /\ c.node \in dirty
  /\ s.kind = IF c.pc = "layer_unlock" THEN "layer" ELSE "ksuf"
  /\ c.pc # "layer_lv" => s.lv = layer[nl]
  /\ nl # None /\ layer[nl] \in layers \ {RootLayer}
  /\ next[nl] = None /\ prev[nl] = None /\ perm[nl].size = 1 /\ modstate[nl] = "insert"
  /\ c.i \in {0, 1} /\ c.i = Back(perm[nl])
  /\ slot[nl][c.i].ikey = c.key[2] /\ slot[nl][c.i].kind = "plain"
  /\ IF c.i = 1 THEN At(nl, 0).ikey < c.key[2] ELSE At(nl, 0).ikey > c.key[2]
  /\ At(nl, 0).kind = "plain"

(* A split between linking the new leaf and stripping the old one.         *)
MidOK(c) ==
  LET n == c.node
      nr == c.other
      left == perm[n].size - perm[nr].size
  IN
  /\ c.op = "put" /\ modstate[n] = "insert" /\ Position(c) /\ nr # None
  /\ layer[nr] = IF c.pc = "split_tree" THEN None ELSE layer[n]
  /\ next[n] = nr /\ nr \notin deleted /\ modstate[nr] = "insert"
  /\ perm[n].size = Width \/ (perm[n].size = Width - 1 /\ Back(perm[n]) = 0)
  /\ left >= 0
  /\ \A j \in Index(perm[nr]) : At(nr, j) = At(n, left + j)
  /\ \A j \in 0..(left - 1) : At(n, j).ikey < low[nr]
  /\ c.state = 0 => c.i <= left /\ Ikey(c) < low[nr] /\ perm[nr].size > 0
  /\ c.state = 1 => /\ left > 0 /\ c.i >= left /\ c.i - left \in Slots /\ low[nr] <= Ikey(c)
                    /\ c.i - left = Back(perm[nr]) /\ perm[nr].size < Width
                    /\ SlotIs(c, slot[nr][c.i - left])
  /\ c.state \in {0, 1}
  /\ c.pc = "split_strip" => n \in dirty /\ \A q \in Procs : t[q].node = n => t[q].held = "split"

(* finish_remove and gc_layer.                                             *)
GcAt(c) ==
  /\ c.i \in Index(perm[c.node]) /\ At(c.node, c.i).kind = "layer"
  /\ At(c.node, c.i).ikey = c.key[1]

RemoveOK(c) ==
  /\ c.op \in {"remove", "gc"}
  /\ c.op = "remove" => FoundAt(c) /\ c.state = 1
  /\ c.op = "gc" => GcAt(c) /\ Dead(At(c.node, c.i).lv)
  /\ c.node \in dirty => modstate[c.node] = "remove"

GcOK(c) ==
  /\ c.op = "gc" /\ GcAt(c)
  /\ c.other # None /\ layer[c.other] = At(c.node, c.i).lv
  /\ prev[c.other] = None /\ c.node \notin dirty

(* remove_leaf.                                                            *)
DeleteOK(c) ==
  /\ perm[c.node].size = 0 /\ prev[c.node] # None /\ layer[c.node] # None
  /\ c.pc # "delete_tree" => Linked(c.node)
  /\ c.pc = "delete_tree" => ~Linked(c.node)
  /\ c.pc # "delete" => c.node \in deleted /\ c.node \in dirty
  /\ modstate[c.node] = "remove"

(* A leaf is given back dirty and in its insert state only if it has a     *)
(* key.                                                                    *)
UnlockOK(c) ==
  /\ perm[c.node].size > 0 \/ modstate[c.node] # "insert" \/ c.node \notin dirty

(* Steps that hold a second leaf.                                          *)
OtherPc == AssignPc \cup {"release", "gc_lock"} \cup LayerPc \cup MidPc

(* What holds of the thread that has a lock, by its step.                  *)
LockOK(c) ==
  /\ c.pc \notin DeletePc \cup {"unlock"} => HomeOK(c) /\ c.node \notin deleted
  /\ c.pc = "found" => FoundOK(c)
  /\ c.pc \in AssignPc \cup StorePc => NewOK(c)
  /\ c.pc \in LayerPc => TurnOK(c)
  /\ c.pc \in MidPc => MidOK(c)
  /\ c.pc = "remove" => RemoveOK(c)
  /\ c.pc = "gc_lock" => GcOK(c)
  /\ c.pc \in DeletePc => DeleteOK(c)
  /\ c.pc = "unlock" => UnlockOK(c)

(* What holds of a thread, by its step.                                    *)
ThreadOK(c) ==
  /\ c.pc # "idle" => KeyOK(c)
  /\ c.pc \notin OtherPc => c.other = None
  /\ c.pc \in {"reach"} \cup SearchPc => RootOK(c)
  /\ c.pc \in SearchPc => SearchOK(c)
  /\ c.pc \in ReadPc => PlaceType(c)
  /\ c.pc \in ReadPc /\ c.held = "same" => ReadOK(c) /\ PlaceOK(c)
  /\ c.pc \in LockPc => LockOK(c)
  /\ c.pc = "done" => c.val \in c.may

ThreadInv == \A p \in Procs : ThreadOK(t[p])

-----------------------------------------------------------------------------
(* The inductive invariant.                                                *)
StoreInv ==
  /\ TypeOK /\ LockInv /\ DeadInv /\ AllocInv /\ ListInv /\ BoundInv /\ SortInv
  /\ LeafInv /\ LeftInv /\ DbInv /\ AttachInv
IInv == StoreInv /\ ThreadInv

-----------------------------------------------------------------------------
(* What a step of p leaves to the other threads: their cursors, except for *)
(* the version's change and the permitted answers;                         *)
ThreadFrame(p) ==
  \A q \in Procs \ {p} :
    /\ t'[q] = [t[q] EXCEPT !.held = t'[q].held, !.may = t'[q].may]
    /\ t[q].may \subseteq t'[q].may
    /\ t'[q].held = t[q].held \/ (t[q].held # "split" /\ t'[q].held # "same")
    /\ t[q].op = "get" /\ t[q].key \in Keys /\ db[t[q].key] \in t[q].may =>
         db'[t[q].key] \in t'[q].may

(* the leaves they have locked;                                            *)
LockedFrame(p) ==
  \A n \in Leaves : locked[n] \in Procs \ {p} =>
    /\ slot'[n] = slot[n] /\ perm'[n] = perm[n] /\ modstate'[n] = modstate[n]
    /\ locked'[n] = locked[n] /\ layer'[n] = layer[n]
    /\ n \in dirty' <=> n \in dirty
    /\ n \in deleted' <=> n \in deleted
    /\ next[n] = None => next'[n] = None
    /\ next[n] # None /\ locked[next[n]] = locked[n] => next'[n] = next[n]
    /\ n \in dirty /\ t'[p].node = n => t[p].node = n /\ (t[p].held = "split" => t'[p].held = "split")

(* separators and allocation, and that only a marked leaf is deleted;      *)
LeafFrame(p) ==
  \A n \in Leaves : Alloc(n) =>
    /\ Alloc(n)' /\ low'[n] = low[n]
    /\ prev'[n] = None <=> prev[n] = None
    /\ prev[n] = None => layer'[n] = layer[n]
    /\ next'[n] # next[n] => ~Gone(n)'
    /\ Gone(n) => Gone(n)'
    /\ n \in deleted => n \in deleted'
    /\ n \in deleted' /\ n \notin deleted =>
         locked[n] = p /\ \A q \in Procs \ {p} : t[q].node = n => t'[q].held = "split"

(* the place of a leaf in its list, unless p has it locked and the version *)
(* says so;                                                                *)
ListFrame(p) ==
  \A n \in Leaves : \A l \in layers : In(n, l) =>
    /\ In(n, l)' \/ (Gone(n)' /\ n \in deleted /\ locked[n] = p)
    /\ \A x \in Nat : Covers(n, x) =>
         \/ Covers(n, x)' \/ Gone(n)'
         \/ locked[n] = p /\ \A q \in Procs \ {p} : t[q].node = n => t[q].held = "split"

(* layers, unless they die and their lookups may answer that the key is    *)
(* absent;                                                                 *)
LayerFrame(p) ==
  /\ layers \subseteq layers'
  /\ \A l \in layers : Dead(l) => Dead(l)'
  /\ \A l \in layers : \A a \in Nat : Attached(l, a) =>
       \/ Attached(l, a)'
       \/ Dead(l)' /\ \A q \in Procs \ {p} :
            t[q].op = "get" /\ t[q].key \in Keys /\ Len(t[q].key) = 2 /\ t[q].key[1] = a
                /\ db[t[q].key] \in t[q].may => 0 \in t'[q].may

(* and the slots that an undisturbed search has read of.                   *)
ReadFrame(p) ==
  \A q \in Procs \ {p} : t[q].pc \in ReadPc /\ t'[q].held = "same" =>
    /\ Regime(t[q]) => Regime(t[q])'
    /\ \A j \in Index(t[q].perm) :
         LET s == slot[t[q].node][t[q].perm.slot[j]]
             r == slot'[t[q].node][t[q].perm.slot[j]]
         IN Regime(t[q]) =>
            /\ r.ikey = s.ikey /\ r.kind = s.kind /\ r.suf = s.suf
            /\ \/ r.lv = s.lv
               \/ s.kind # "layer" /\ (t[q].op = "get" /\ Compare(t[q], s) = 0
                                       /\ KsufMatches(t[q], s) = 1 => r.lv \in t'[q].may)

Frame(p) ==
  /\ ThreadFrame(p) /\ LockedFrame(p) /\ LeafFrame(p) /\ ListFrame(p) /\ LayerFrame(p)
  /\ ReadFrame(p)

(* The cursor of another thread after the step.                            *)
Later(c, d) ==
  /\ d.pc = c.pc /\ d.op = c.op /\ d.key = c.key /\ d.depth = c.depth /\ d.root = c.root
  /\ d.node = c.node /\ d.bit = c.bit /\ d.perm0 = c.perm0 /\ d.perm = c.perm
  /\ d.i = c.i /\ d.r = c.r /\ d.p = c.p /\ d.lv = c.lv /\ d.state = c.state
  /\ d.val = c.val /\ d.other = c.other
  /\ c.may \subseteq d.may
  /\ d.held = c.held \/ (c.held # "split" /\ d.held # "same")
  /\ c.op = "get" /\ c.key \in Keys /\ db[c.key] \in c.may => db'[c.key] \in d.may

(* A step that leaves every leaf with the same place and the same entries. *)
Quiet ==
  /\ low' = low /\ next' = next /\ prev' = prev /\ layers' = layers
  /\ \A n \in Leaves : \A l \in Layers : In(n, l)' <=> In(n, l)
  /\ \A n \in Leaves : Splitting(n)' <=> Splitting(n)
  /\ \A n \in Leaves : Entries(n)' = Entries(n)

(* A step that leaves the locks of the others and their steps.             *)
LocksFrame(p) ==
  \A n \in Leaves : locked'[n] = locked[n] \/ (locked[n] \in {p, None} /\ locked'[n] \in {p, None})
=============================================================================
