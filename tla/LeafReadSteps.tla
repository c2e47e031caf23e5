--------------------------- MODULE LeafReadSteps ----------------------------
(***************************************************************************)
(* The steps of writers that change a leaf in its place, for               *)
(* LeafReadProofs: a slot becomes a layer, a key gets or loses its value,  *)
(* a split strips the old leaf, and a deleted leaf goes out of the list.   *)
(* Each action has a lemma <Action>Step: IInv holds after it.              *)
(***************************************************************************)
EXTENDS LeafReadLemmas

-----------------------------------------------------------------------------
(* A slot becomes a layer: lv_ is stored before keylenx_.                  *)

LEMMA TurnPcs ==
  /\ LayerPc \subseteq LockPc /\ LayerPc \subseteq Pcs /\ TurnPc \subseteq LayerPc /\ LayerPc \subseteq OtherPc
  /\ \A u \in LayerPc : /\ u \notin MidPc /\ u \notin UnlinkPc \cup {"split_tree"} /\ u # "gc_lock" /\ u # "found"
                        /\ u \notin DeletePc \cup {"unlock"} /\ u \notin AssignPc \cup StorePc /\ u # "remove"
  /\ "layer_lv" \in TurnPc /\ "layer_keylenx" \in TurnPc /\ "layer_unlock" \in LayerPc /\ "layer_unlock" \notin TurnPc
BY DEF LockPc, MidPc, TurnPc, UnlinkPc, AssignPc, StorePc, LayerPc, DeletePc, OtherPc, Pcs

LEMMA TurnStep ==
  ASSUME IInv, NEW p \in Procs, NEW c \in Thread, c = t[p], c.pc \in TurnPc,
         NEW u \in {"layer_keylenx", "layer_unlock"}, t' = [t EXCEPT ![p].pc = u],
         NEW x \in Slot, slot' = [slot EXCEPT ![c.node] = [slot[c.node] EXCEPT ![c.p] = x]],
         x.ikey = slot[c.node][c.p].ikey, x.suf = slot[c.node][c.p].suf,
         x.lv = layer[c.other], x.kind = IF u = "layer_unlock" THEN "layer" ELSE "ksuf",
         UNCHANGED <<perm, modstate, locked, dirty, deleted, layer, low, next, prev, layers, gcs, scene, ops, db>>
  PROVE  IInv'
<1>1. /\ TypeOK /\ t \in [Procs -> Thread] /\ KeyOK(c) /\ LockOK(c) /\ c.op # "get"
      /\ c.node \in Leaves /\ locked[c.node] = p
      /\ Alloc(c.node) /\ c.other # c.node
      /\ c.other # None => c.other \in Leaves /\ Alloc(c.other)
  BY LockMine, TurnPcs
<1>2. HomeOK(c) /\ TurnOK(c) /\ c.node \notin deleted
  BY <1>1, TurnPcs DEF LockOK
<1>3. PICK n \in Leaves, s \in Slots, nl \in Leaves : n = c.node /\ s = c.p /\ nl = c.other /\ nl # n
  BY <1>1, <1>2, ThreadType DEF TurnOK
<1>4. slot \in [Leaves -> [Slots -> Slot]] /\ slot[n][s] \in Slot
  BY <1>1 DEF TypeOK, LeafTypeOK
<1>5. /\ slot' \in [Leaves -> [Slots -> Slot]] /\ slot'[n][s] = x
      /\ \A m \in Leaves : m # n => slot'[m] = slot[m]
      /\ \A r \in Slots : r # s => slot'[n][r] = slot[n][r]
  BY <1>3, <1>4, OneSlot
<1>6. PICK d \in Thread : d = [c EXCEPT !.pc = u]
  <2>1. u \in Pcs
    BY TurnPcs
  <2>2. QED
    BY <2>1, ThreadPc
<1>7. SameLock(c, d) /\ d.pc = u /\ d.i = c.i /\ d.p = c.p /\ d.other = c.other /\ d.held = c.held
  BY <1>6 DEF Thread, SameLock
<1>8. t' = [t EXCEPT ![p] = d]
  BY <1>6
<1>9. d.node = n /\ d.key = c.key /\ d.op = c.op /\ d.depth = c.depth
  BY <1>3, <1>7 DEF SameLock
<1>10. ThreadFrame(p) /\ t'[p] = d /\ \A q \in Procs \ {p} : t'[q] = t[q]
  BY <1>1, <1>8, OneFrame
<1>11. TypeOK'
  <2>1. t' \in [Procs -> Thread]
    BY <1>1, <1>8
  <2>2. QED
    BY <1>1, <1>5, <2>1 DEF TypeOK, LeafTypeOK
<1>12. LockInv' /\ LocksFrame(p)
  <2>1. /\ t[p].pc \in LockPc /\ t'[p].pc \in LockPc /\ t[p].pc # "gc_lock" /\ t'[p].pc # "gc_lock"
        /\ t'[p].node = t[p].node /\ t'[p].other = t[p].other /\ t'[p].held = t[p].held
    BY <1>3, <1>7, <1>9, <1>10, TurnPcs
  <2>2. QED
    BY <1>10, <1>11, <2>1, KeepLocks
<1>13. Confined(p) /\ NodeKept(p)
  <2>1. \A m \in Leaves : locked[m] \in Procs \ {p} => m # n
    BY <1>1, <1>3
  <2>2. QED
    BY <1>1, <1>3, <1>5, <1>9, <1>10, <2>1 DEF Confined, NodeKept
<1>14. t[p].pc \notin MidPc /\ t'[p].pc \notin MidPc /\ t[p].pc \notin UnlinkPc \cup {"split_tree"}
  BY <1>7, <1>10, TurnPcs
<1>15. \A m \in Leaves : Splitting(m)' <=> Splitting(m)
  BY <1>1, <1>10, <1>11, <1>12, <1>14, SplittingSame
<1>16. slot[n][s].kind = "ksuf" /\ n \in dirty /\ slot[n][s].ikey = c.key[1]
  <2>1. c.pc # "layer_unlock"
    BY TurnPcs
  <2>2. QED
    BY <1>2, <1>3, <2>1 DEF TurnOK
<1>17. \A m \in Leaves : \A r \in Slots : /\ slot'[m][r].ikey = slot[m][r].ikey
                                          /\ slot'[m][r].kind = "plain" <=> slot[m][r].kind = "plain"
  BY <1>3, <1>5, <1>16
<1>18. \A m \in Leaves : Entries(m)' = Entries(m)
  <2>1. SUFFICES ASSUME NEW m \in Leaves PROVE Entries(m)' = Entries(m)
    OBVIOUS
  <2>2. \A i \in Index(perm[m]) : perm[m].slot[i] \in Slots
    BY <1>1, LeafType, PermuterType
  <2>3. SUFFICES ASSUME NEW r \in Slots PROVE Ent(m, r)' = Ent(m, r)
    BY <2>2 DEF Entries
  <2>4. CASE m # n
    <3>1. locked[m] = p => ~Turning(m, r) /\ ~Turning(m, r)'
      BY <1>3, <1>9, <1>10, <2>4 DEF Turning
    <3>2. locked[m] # p /\ locked[m] # None => t'[locked[m]] = t[locked[m]]
      BY <1>1, <1>10, LeafType
    <3>3. slot'[m][r] = slot[m][r]
      BY <1>5, <2>4
    <3>4. CASE ~Turning(m, r)
      <4>1. ~Turning(m, r)'
        BY <3>1, <3>2, <3>4 DEF Turning
      <4>2. QED
        BY <3>3, <3>4, <4>1 DEF Ent
    <3>5. CASE Turning(m, r)
      <4>1. locked[m] # p /\ locked[m] # None
        BY <3>1, <3>5 DEF Turning
      <4>2. t'[locked'[m]] = t[locked[m]] /\ locked'[m] = locked[m] /\ Turning(m, r)'
        BY <3>2, <3>5, <4>1 DEF Turning
      <4>3. layer'[t'[locked'[m]].other] = layer[t[locked[m]].other]
        BY <4>2
      <4>4. Ent(m, r) = [slot[m][r] EXCEPT !.kind = "layer", !.lv = layer[t[locked[m]].other]]
        BY <3>5, Zenon DEF Ent
      <4>5. Ent(m, r)' = [slot'[m][r] EXCEPT !.kind = "layer", !.lv = layer'[t'[locked'[m]].other]]
        BY <4>2, Zenon DEF Ent
      <4>6. QED
        BY <3>3, <4>3, <4>4, <4>5
    <3>6. QED
      BY <3>4, <3>5
  <2>5. CASE m = n /\ r # s
    BY <1>1, <1>3, <1>5, <1>7, <1>10, <2>5 DEF Ent, Turning
  <2>6. CASE m = n /\ r = s
    <3>0. PICK y \in Slot : y = slot[n][s] /\ x.ikey = y.ikey /\ x.suf = y.suf
      BY <1>3, <1>4
    <3>1. Turning(n, s)
      BY <1>1, <1>3, ConstantFacts DEF Turning
    <3>2. Ent(n, s) = [slot[n][s] EXCEPT !.kind = "layer", !.lv = layer[nl]]
      BY <1>1, <1>3, <3>1 DEF Ent
    <3>6. /\ [x EXCEPT !.kind = "layer", !.lv = layer[nl]] = [y EXCEPT !.kind = "layer", !.lv = layer[nl]]
          /\ x.kind = "layer" /\ x.lv = layer[nl] => x = [y EXCEPT !.kind = "layer", !.lv = layer[nl]]
      <4>1. PICK l : l = layer[nl]
        OBVIOUS
      <4>2. /\ [x EXCEPT !.kind = "layer", !.lv = l] = [y EXCEPT !.kind = "layer", !.lv = l]
            /\ x.kind = "layer" /\ x.lv = l => x = [y EXCEPT !.kind = "layer", !.lv = l]
        BY <3>0 DEF Slot
      <4>3. QED
        BY <4>1, <4>2, Zenon
    <3>3. CASE u = "layer_keylenx"
      <4>1. Turning(n, s)'
        BY <1>1, <1>3, <1>7, <1>9, <1>10, <3>3, TurnPcs, ConstantFacts DEF Turning
      <4>2. Ent(n, s)' = [x EXCEPT !.kind = "layer", !.lv = layer[nl]]
        <5>1. slot'[n][s] = x /\ layer'[t'[locked'[n]].other] = layer[nl]
          BY <1>1, <1>3, <1>5, <1>7, <1>10
        <5>2. QED
          BY <4>1, <5>1, Zenon DEF Ent
      <4>3. QED
        BY <2>6, <3>0, <3>2, <3>6, <4>2
    <3>4. CASE u = "layer_unlock"
      <4>1. ~Turning(n, s)'
        BY <1>1, <1>3, <1>7, <1>10, <3>4, TurnPcs DEF Turning
      <4>2. Ent(n, s)' = x
        BY <1>5, <4>1 DEF Ent
      <4>3. QED
        <5>1. x.kind = "layer" /\ x.lv = layer[nl]
          BY <1>3, <3>4
        <5>2. QED
          BY <2>6, <3>0, <3>2, <3>6, <4>2, <5>1
    <3>5. QED
      BY <3>3, <3>4
  <2>7. QED
    BY <2>4, <2>5, <2>6
<1>19. ReadFrame(p)
  <2>1. \A q \in Procs \ {p} : t[q].pc \in ReadPc => t[q].node \in Leaves
    BY SearchMine, PcFacts
  <2>2. \A q \in Procs \ {p} : t'[q].held = "same" => t[q].node # n
    BY <1>10, <1>16 DEF IInv, StoreInv, LockInv
  <2>3. QED
    BY <1>1, <1>5, <1>10, <1>11, <2>1, <2>2, ReadsFrame DEF ReadsKept, PermSame
<1>20. DeadInv'
  BY DeadSame
<1>21. BoundInv'
  BY <1>17, WidthFacts DEF IInv, StoreInv, BoundInv
<1>22. SortInv'
  <2>1. ASSUME NEW m \in Leaves PROVE Injective(perm[m]) /\ SortedBy(m, perm[m])'
    <3>1. Injective(perm[m]) /\ SortedBy(m, perm[m]) /\ \A i \in Index(perm[m]) : perm[m].slot[i] \in Slots
      BY <1>1, LeafType, PermuterType DEF IInv, StoreInv, SortInv
    <3>2. ASSUME NEW i \in Index(perm[m]), NEW j \in Index(perm[m]), i < j
          PROVE  Less(slot'[m][perm[m].slot[i]], slot'[m][perm[m].slot[j]])
      <4>1. Less(slot[m][perm[m].slot[i]], slot[m][perm[m].slot[j]])
        BY <3>1, <3>2 DEF SortedBy
      <4>2. PICK a, b \in Slots : a = perm[m].slot[i] /\ b = perm[m].slot[j]
        BY <3>1, <3>2
      <4>3. /\ slot'[m][a].ikey = slot[m][a].ikey /\ (slot'[m][a].kind = "plain" <=> slot[m][a].kind = "plain")
            /\ slot'[m][b].ikey = slot[m][b].ikey /\ (slot'[m][b].kind = "plain" <=> slot[m][b].kind = "plain")
        BY <1>17
      <4>4. QED
        BY <4>1, <4>2, <4>3 DEF Less
    <3>3. SortedBy(m, perm[m])'
      BY <3>2 DEF SortedBy
    <3>4. QED
      BY <3>1, <3>3
  <2>2. QED
    BY <2>1 DEF SortInv, Injective
<1>23. Quiet => LeftInv'
  <2>1. \A m \in Leaves : At(m, 0)'.ikey = At(m, 0).ikey
    <3>1. \A m \in Leaves : perm[m].slot[0] \in Slots
      BY <1>1, LeafType, PermuterType, WidthFacts
    <3>2. QED
      BY <1>17, <3>1 DEF At
  <2>2. QED
    BY <2>1, LeftSame
<1>24. ASSUME Quiet PROVE ThreadOK(t[p])'
  <2>1. KeyOK(d) /\ HomeOK(d)
    BY <1>1, <1>2, <1>7, TurnPcs, PcFacts, LockKey
  <2>2. KeyOK(d)'
    BY <2>1 DEF KeyOK
  <2>3. HomeOK(d)'
    BY <1>1, <1>9, <1>24, <2>1, QuietHome
  <2>4. TurnOK(d)'
    <3>1. \A j : At(nl, j)' = At(nl, j)
      BY <1>3, <1>5 DEF At
    <3>2. slot'[nl] = slot[nl]
      BY <1>3, <1>5
    <3>3. QED
      BY <1>2, <1>3, <1>5, <1>7, <1>9, <1>16, <3>1, <3>2 DEF TurnOK
  <2>5. LockOK(d)'
    <3>1. /\ d.pc \notin DeletePc \cup {"unlock"} /\ d.pc # "found" /\ d.pc \notin AssignPc \cup StorePc /\ d.pc \notin MidPc
          /\ d.pc # "remove" /\ d.pc # "gc_lock" /\ d.pc \notin DeletePc /\ d.pc # "unlock" /\ d.pc \in LayerPc
      BY <1>7, TurnPcs
    <3>2. QED
      BY <1>2, <1>3, <1>9, <2>3, <2>4, <3>1 DEF LockOK
  <2>6. ThreadOK(d)'
    BY <1>7, <2>2, <2>5, TurnPcs, HolderOK
  <2>7. QED
    BY <1>10, <2>6
<1>25. /\ t'[p].node # None => Alloc(t'[p].node)
       /\ t'[p].other # None => Alloc(t'[p].other)
  BY <1>1, <1>3, <1>7, <1>9, <1>10
<1>26. QED
  BY <1>10, <1>11, <1>12, <1>13, <1>14, <1>15, <1>18, <1>19, <1>20, <1>21, <1>22, <1>23, <1>24, <1>25, StayStep

LEMMA TurnMine ==
  ASSUME IInv, NEW p \in Procs, t[p].pc \in TurnPc
  PROVE  /\ t[p].node \in Leaves /\ t[p].p \in Slots /\ slot[t[p].node][t[p].p] \in Slot
         /\ TurnOK(t[p]) /\ layer[t[p].other] \in Layers
<1>1. PICK c \in Thread : c = t[p] /\ c.pc \in TurnPc
  BY Mine
<1>2. /\ TypeOK /\ LockOK(c) /\ c.node \in Leaves
  BY <1>1, LockMine, TurnPcs
<1>3. TurnOK(c)
  BY <1>1, <1>2, TurnPcs DEF LockOK
<1>4. c.p \in Slots /\ layer[c.other] \in Layers
  BY <1>2, <1>3, ThreadType DEF TurnOK, TypeOK, LeafTypeOK
<1>5. slot[c.node][c.p] \in Slot
  BY <1>2, <1>4 DEF TypeOK, LeafTypeOK
<1>6. QED
  BY <1>1, <1>2, <1>3, <1>4, <1>5

LEMMA LayerLvStep ==
  ASSUME IInv, NEW p \in Procs, LayerLv(p)
  PROVE  IInv'
<1>1. PICK c \in Thread : c = t[p] /\ c.pc = "layer_lv"
  BY Mine DEF LayerLv
<1>2. /\ c.node \in Leaves /\ c.p \in Slots /\ slot[c.node][c.p] \in Slot /\ c.pc \in TurnPc
      /\ TurnOK(c) /\ layer[c.other] \in Layers
  BY <1>1, TurnMine, TurnPcs
<1>3. PICK v \in Int \cup Layers : v = layer[c.other]
  BY <1>2
<1>4. PICK old \in Slot : old = slot[c.node][c.p] /\ old.kind = "ksuf"
  BY <1>1, <1>2 DEF TurnOK
<1>5. PICK x \in Slot : x = [old EXCEPT !.lv = v]
  BY SlotLv
<1>6. x.ikey = old.ikey /\ x.suf = old.suf /\ x.kind = old.kind /\ x.lv = v
  BY <1>5 DEF Slot
<1>7. slot' = [slot EXCEPT ![c.node] = [slot[c.node] EXCEPT ![c.p] = x]]
  BY <1>1, <1>3, <1>4, <1>5 DEF LayerLv
<1>8. t' = [t EXCEPT ![p].pc = "layer_keylenx"]
      /\ UNCHANGED <<perm, modstate, locked, dirty, deleted, layer, low, next, prev, layers, gcs, scene, ops, db>>
  BY DEF LayerLv
<1>9. PICK u \in {"layer_keylenx", "layer_unlock"} : u = "layer_keylenx"
  OBVIOUS
<1>10. /\ x.ikey = slot[c.node][c.p].ikey /\ x.suf = slot[c.node][c.p].suf
       /\ x.lv = layer[c.other] /\ x.kind = IF u = "layer_unlock" THEN "layer" ELSE "ksuf"
  BY <1>3, <1>4, <1>6, <1>9
<1>11. QED
  BY <1>1, <1>2, <1>7, <1>8, <1>9, <1>10, TurnStep

LEMMA LayerKeylenxStep ==
  ASSUME IInv, NEW p \in Procs, LayerKeylenx(p)
  PROVE  IInv'
<1>1. PICK c \in Thread : c = t[p] /\ c.pc = "layer_keylenx"
  BY Mine DEF LayerKeylenx
<1>2. /\ c.node \in Leaves /\ c.p \in Slots /\ slot[c.node][c.p] \in Slot /\ c.pc \in TurnPc
      /\ TurnOK(c) /\ layer[c.other] \in Layers
  BY <1>1, TurnMine, TurnPcs
<1>3. PICK old \in Slot : old = slot[c.node][c.p] /\ old.lv = layer[c.other]
  BY <1>1, <1>2 DEF TurnOK
<1>4. PICK x \in Slot : x = [old EXCEPT !.kind = "layer"]
  BY DEF Slot
<1>5. x.ikey = old.ikey /\ x.suf = old.suf /\ x.kind = "layer" /\ x.lv = old.lv
  BY <1>4 DEF Slot
<1>6. slot' = [slot EXCEPT ![c.node] = [slot[c.node] EXCEPT ![c.p] = x]]
  BY <1>1, <1>3, <1>4 DEF LayerKeylenx
<1>7. t' = [t EXCEPT ![p].pc = "layer_unlock"]
      /\ UNCHANGED <<perm, modstate, locked, dirty, deleted, layer, low, next, prev, layers, gcs, scene, ops, db>>
  BY DEF LayerKeylenx
<1>8. PICK u \in {"layer_keylenx", "layer_unlock"} : u = "layer_unlock"
  OBVIOUS
<1>9. /\ x.ikey = slot[c.node][c.p].ikey /\ x.suf = slot[c.node][c.p].suf
      /\ x.lv = layer[c.other] /\ x.kind = IF u = "layer_unlock" THEN "layer" ELSE "ksuf"
  BY <1>3, <1>5, <1>8
<1>10. QED
  BY <1>1, <1>2, <1>6, <1>7, <1>8, <1>9, TurnStep

-----------------------------------------------------------------------------
(* gc_layer takes the lock of the layer's leaf.                            *)

LEMMA GcPcs ==
  /\ "gc_lock" \in LockPc /\ "gc_lock" \notin MidPc \cup TurnPc \cup UnlinkPc
  /\ "gc_lock" \notin DeletePc \cup {"unlock"} /\ "gc_lock" \in OtherPc
  /\ "unlock" \in Pcs
BY DEF LockPc, MidPc, TurnPc, UnlinkPc, AssignPc, StorePc, LayerPc, DeletePc, OtherPc, Pcs

LEMMA ThreadRelease ==
  ASSUME NEW c \in Thread, NEW u \in Pcs
  PROVE  [c EXCEPT !.pc = u, !.other = None] \in Thread
BY DEF Thread

(* The entry of a layer in the root layer's leaf.                          *)
LEMMA GcEntry ==
  ASSUME IInv, NEW c \in Thread, KeyOK(c), HomeOK(c), c.node \in Leaves, GcAt(c), c.op = "gc",
         \A s : Ent(c.node, s) = slot[c.node][s]
  PROVE  /\ c.depth = 1 /\ layer[c.node] = RootLayer
         /\ c.i \in Index(perm[c.node]) /\ At(c.node, c.i) \in Entries(c.node)
         /\ At(c.node, c.i).lv \in layers \ {RootLayer}
         /\ IsLayer(At(c.node, c.i), At(c.node, c.i).lv, c.key[1])
<1>1. c.depth = 1
  BY IkeyType DEF KeyOK
<1>2. layer[c.node] = RootLayer /\ layer[c.node] \in layers /\ In(c.node, layer[c.node])
  BY <1>1 DEF HomeOK, Level
<1>3. c.i \in Index(perm[c.node]) /\ At(c.node, c.i).kind = "layer" /\ At(c.node, c.i).ikey = c.key[1]
  BY DEF GcAt
<1>4. At(c.node, c.i) \in Entries(c.node)
  BY <1>3, EntriesAt
<1>5. QED
  BY <1>1, <1>2, <1>3, <1>4 DEF IInv, StoreInv, LeafInv, IsLayer

LEMMA GcLockStep ==
  ASSUME IInv, NEW p \in Procs, GcLock(p)
  PROVE  IInv'
<1>1. PICK c \in Thread : c = t[p] /\ c.pc = "gc_lock" /\ locked[c.other] = None
  BY Mine DEF GcLock
<1>2. /\ TypeOK /\ t \in [Procs -> Thread] /\ KeyOK(c) /\ LockOK(c) /\ c.op # "get"
      /\ c.node \in Leaves /\ locked[c.node] = p /\ gcs \subseteq Nat /\ ops \in Nat
      /\ Alloc(c.node) /\ c.other # c.node
      /\ c.other # None => c.other \in Leaves /\ Alloc(c.other)
      /\ \A n \in Leaves : locked[n] = p <=> Owns(t[p], n)
  BY <1>1, LockMine, GcPcs DEF TypeOK
<1>3. HomeOK(c) /\ GcOK(c) /\ c.node \notin deleted
  BY <1>1, <1>2, GcPcs DEF LockOK
<1>4. PICK n \in Leaves, lf \in Leaves : n = c.node /\ lf = c.other /\ n # lf
  BY <1>2, <1>3 DEF GcOK
<1>5. \A s : Ent(c.node, s) = slot[c.node][s]
  BY <1>1, <1>2, EntSlot, GcPcs
<1>6. /\ c.op = "gc" /\ GcAt(c) /\ layer[lf] = At(n, c.i).lv /\ prev[lf] = None /\ n \notin dirty
      /\ c.i \in Index(perm[n])
  BY <1>3, <1>4 DEF GcOK, GcAt
<1>7. PICK l \in layers : l = At(n, c.i).lv /\ l # RootLayer /\ l \in Layers
  <2>1. At(n, c.i).lv \in layers \ {RootLayer}
    BY <1>2, <1>3, <1>4, <1>5, <1>6, GcEntry
  <2>2. QED
    BY <1>2, <2>1 DEF TypeOK, LeafTypeOK
<1>8. perm[n].size # 0
  BY <1>2, <1>6, LeafType, PermuterType DEF Index
<1>9. UNCHANGED <<slot, perm, locked, dirty, deleted, layer, low, next, prev, layers, gcs, scene, ops, db>>
  BY DEF GcLock
<1>10. \A d \in Thread : d.pc \in {"remove", "unlock"} /\ d.node = n /\ d.other = None =>
         \A m \in Leaves : Owns(d, m) <=> Owns(c, m)
  BY <1>1, <1>4, ConstantFacts, GcPcs, RemovePcs, UnlockPcs DEF Owns
<1>11. CASE t' = [t EXCEPT ![p].pc = "unlock", ![p].other = None] /\ UNCHANGED modstate
  <2> DEFINE d == [c EXCEPT !.pc = "unlock", !.other = None]
  <2>1. d \in Thread
    BY ThreadRelease, GcPcs
  <2>2. SameLock(c, d) /\ d.pc = "unlock" /\ d.i = c.i /\ d.other = None /\ d.held = c.held
    BY DEF Thread, SameLock
  <2>3. t' = [t EXCEPT ![p] = d]
    BY <1>1, <1>11
  <2> HIDE DEF d
  <2>4. d.node = n
    BY <1>4, <2>2 DEF SameLock
  <2>5. KeyOK(d)
    BY <1>2, <2>1, <2>2, LockKey
  <2>6. UnlockOK(d)
    BY <1>6, <2>4 DEF UnlockOK
  <2>7. LockOK(d)
    BY <2>2, <2>6, UnlockPcs DEF LockOK
  <2>8. ThreadOK(d)
    BY <2>2, <2>5, <2>7, UnlockPcs, PcFacts DEF ThreadOK
  <2>9. UNCHANGED leafVars
    BY <1>9, <1>11 DEF leafVars
  <2>10. d.pc \notin MidPc \cup TurnPc \cup UnlinkPc /\ t[p].pc \notin MidPc \cup TurnPc \cup UnlinkPc
    BY <1>1, <2>2, UnlockPcs, GcPcs
  <2>11. QED
    BY <1>1, <1>2, <1>4, <1>6, <1>9, <1>10, <2>1, <2>2, <2>3, <2>4, <2>8, <2>9, <2>10, ConstantFacts, SearchStep
<1>12. CASE /\ next[lf] = None /\ perm[lf].size = 0
            /\ modstate' = [modstate EXCEPT ![lf] = "deleted_layer"]
            /\ t' = [t EXCEPT ![p].pc = "remove", ![p].other = None]
  <2> DEFINE d == [c EXCEPT !.pc = "remove", !.other = None]
  <2>1. d \in Thread
    BY ThreadRelease, RemovePcs
  <2>2. SameLock(c, d) /\ d.pc = "remove" /\ d.i = c.i /\ d.other = None /\ d.held = c.held
    BY DEF Thread, SameLock
  <2>3. t' = [t EXCEPT ![p] = d]
    BY <1>1, <1>12
  <2> HIDE DEF d
  <2>4. d.node = n /\ d.op = c.op /\ d.key = c.key
    BY <1>4, <2>2 DEF SameLock
  <2>5. ThreadFrame(p) /\ t'[p] = d /\ \A q \in Procs \ {p} : t'[q] = t[q]
    BY <1>2, <1>9, <2>3, OneFrame
  <2>6. /\ modstate' \in [Leaves -> {"insert", "remove", "deleted_layer"}] /\ modstate'[lf] = "deleted_layer"
        /\ \A m \in Leaves : m # lf => modstate'[m] = modstate[m]
    BY <1>2, <1>12 DEF TypeOK, LeafTypeOK
  <2>7. TypeOK'
    <3>1. t' \in [Procs -> Thread]
      BY <1>2, <2>1, <2>3
    <3>2. QED
      BY <1>2, <1>9, <2>6, <3>1 DEF TypeOK, LeafTypeOK
  <2>8. LocksFrame(p) /\ NodeKept(p) /\ Confined(p)
    <3>1. locked[lf] \notin Procs
      BY <1>1, <1>4, ConstantFacts
    <3>2. QED
      BY <1>2, <1>4, <1>9, <2>4, <2>5, <2>6, <3>1 DEF LocksFrame, NodeKept, Confined
  <2>9. LockInv /\ lf \notin dirty
    BY <1>1, <1>4 DEF IInv, StoreInv, LockInv
  <2>10. LockInv'
    <3>1. \A m \in Leaves : locked'[m] = p <=> Owns(t'[p], m)
      BY <1>1, <1>2, <1>9, <1>10, <2>1, <2>2, <2>4, <2>5
    <3>2. \A m \in dirty' : locked'[m] # None /\ m \in dirty
      BY <1>9, <2>9 DEF LockInv
    <3>3. t'[p].node \in Leaves /\ t'[p].other # t'[p].node /\ t'[p].node \notin dirty'
      BY <1>6, <1>9, <2>2, <2>4, <2>5, ConstantFacts
    <3>4. QED
      BY <1>2, <2>5, <2>7, <2>8, <2>9, <3>1, <3>2, <3>3, LockStep
  <2>11. /\ t[p].pc \notin UnlinkPc \cup {"split_tree"} \cup TurnPc /\ t'[p].pc \notin TurnPc
         /\ t[p].pc \notin MidPc /\ t'[p].pc \notin MidPc
    BY <1>1, <2>2, <2>5, RemovePcs, GcPcs
  <2>12. \A m \in Leaves : Splitting(m)' <=> Splitting(m)
    BY <1>2, <2>5, <2>7, <2>8, <2>11, SplittingSame
  <2>13. \A m \in Leaves : Entries(m)' = Entries(m)
    BY <1>9, <2>5, <2>7, <2>8, <2>11, EntriesSame
  <2>14. ReadFrame(p)
    <3>1. SUFFICES ASSUME NEW q \in Procs \ {p}, t[q].pc \in ReadPc, t'[q].held = "same", Regime(t[q])
                   PROVE  Regime(t[q])'
      BY <1>9 DEF ReadFrame
    <3>2. PICK a \in Thread : a = t[q] /\ t'[q] = a
      BY <1>2, <2>5
    <3>3. a.perm \in Permuters /\ a.perm0 \in Permuters /\ a.node \in Leaves
      BY <3>1, <3>2, ThreadType, SearchMine, PcFacts
    <3>4. CASE a.node # lf
      BY <1>9, <2>6, <3>1, <3>2, <3>3, <3>4 DEF Regime
    <3>5. CASE a.node = lf
      <4>1. perm[lf] \in Permuters /\ modstate[lf] \in {"insert", "remove", "deleted_layer"}
        BY <1>2, LeafType
      <4>2. PermLe(perm[lf], a.perm)
        BY <1>12, <3>3, <4>1, PermLeEmpty
      <4>3. PermLe(a.perm, a.perm0)
        <5>1. CASE modstate[lf] = "insert"
          <6>1. PermLe(a.perm, perm[lf])
            BY <3>1, <3>2, <3>5, <5>1 DEF Regime
          <6>2. a.perm.size = 0
            BY <1>12, <3>3, <4>1, <6>1, PermLeEmpty
          <6>3. QED
            BY <3>3, <6>2, PermLeEmpty
        <5>2. CASE modstate[lf] # "insert"
          BY <3>1, <3>2, <3>5, <5>2 DEF Regime
        <5>3. QED
          BY <5>1, <5>2
      <4>4. QED
        BY <1>9, <2>6, <3>2, <3>5, <4>2, <4>3 DEF Regime
    <3>6. QED
      BY <3>4, <3>5
  <2>15. DeadInv'
    <3>1. ASSUME NEW m \in Leaves, modstate'[m] = "deleted_layer"
          PROVE  /\ locked'[m] = None /\ perm'[m].size = 0 /\ next'[m] = None /\ prev'[m] = None
                 /\ layer'[m] # None /\ layer'[m] # RootLayer /\ m \notin deleted'
      <4>1. CASE m = lf
        BY <1>1, <1>4, <1>6, <1>7, <1>9, <1>12, <4>1, ConstantFacts DEF IInv, StoreInv, BoundInv
      <4>2. CASE m # lf
        BY <1>9, <2>6, <3>1, <4>2 DEF IInv, StoreInv, DeadInv
      <4>3. QED
        BY <4>1, <4>2
    <3>2. QED
      BY <3>1 DEF DeadInv
  <2>16. BoundInv' /\ SortInv'
    BY <1>9, PlainSame
  <2>17. Quiet => LeftInv'
    BY <1>9, <2>6, <2>9, LeftSame DEF At
  <2>18. ASSUME Quiet PROVE ThreadOK(t[p])'
    <3>1. KeyOK(d) /\ HomeOK(d)
      BY <1>2, <1>3, <2>1, <2>2, LockKey
    <3>2. KeyOK(d)'
      BY <1>9, <3>1 DEF KeyOK
    <3>3. HomeOK(d)'
      BY <1>2, <1>9, <2>1, <2>4, <2>18, <3>1, QuietHome
    <3>4. GcAt(d)'
      BY <1>4, <1>6, <1>9, <2>2, <2>4 DEF GcAt, At
    <3>5. Dead(l)'
      <4>1. SUFFICES ASSUME NEW m \in Leaves, In(m, l) PROVE m = lf
        BY <1>7, <2>6, <2>18 DEF Dead, Quiet
      <4>2. In(lf, l)
        BY <1>6, <1>7 DEF In, Linked
      <4>3. low[lf] = 0 /\ low[m] \in Nat
        BY <1>2, <1>6, <4>2, LeafType DEF IInv, StoreInv, ListInv
      <4>4. ~(low[lf] < low[m])
        BY <1>12, <4>1, <4>2 DEF IInv, StoreInv, ListInv
      <4>5. QED
        BY <4>1, <4>2, <4>3, <4>4 DEF IInv, StoreInv, ListInv
    <3>6. At(n, c.i)'.lv = l
      BY <1>7, <1>9 DEF At
    <3>7. RemoveOK(d)'
      BY <1>6, <1>9, <2>2, <2>4, <3>4, <3>5, <3>6 DEF RemoveOK
    <3>8. LockOK(d)'
      BY <1>3, <1>4, <1>9, <2>2, <2>4, <3>3, <3>7, RemovePcs DEF LockOK
    <3>9. ThreadOK(d)'
      BY <2>1, <2>2, <3>2, <3>8, RemovePcs, HolderOK
    <3>10. QED
      BY <2>5, <3>9
  <2>19. /\ t'[p].node # None => Alloc(t'[p].node)
         /\ t'[p].other # None => Alloc(t'[p].other)
         /\ \A m \in Leaves : ~Alloc(m) => modstate'[m] = modstate[m]
         /\ \A m \in Leaves : modstate[m] = "deleted_layer" => modstate'[m] = "deleted_layer"
    BY <1>2, <1>4, <2>2, <2>4, <2>5, <2>6, ConstantFacts
  <2>20. QED
    BY <1>9, <2>5, <2>7, <2>8, <2>10, <2>11, <2>12, <2>13, <2>14, <2>15, <2>16, <2>17, <2>18, <2>19, StayStep
<1>13. QED
  BY <1>1, <1>4, <1>11, <1>12 DEF GcLock

-----------------------------------------------------------------------------
(* Steps that change how a leaf is reached.                                *)

LEMMA QuietHomeAt ==
  ASSUME TypeOK, Quiet, NEW c \in Thread, c.node \in Leaves, HomeOK(c), layer'[c.node] = layer[c.node]
  PROVE  HomeOK(c)'
BY QuietViews DEF Quiet, HomeOK, Level, Ikey, TypeOK, LeafTypeOK

(* A step that changes only how the thread's leaves are reached.           *)
LEMMA ShiftStep ==
  ASSUME IInv, NEW p \in Procs, TypeOK', Quiet,
         UNCHANGED <<slot, perm, modstate, locked, low, next, prev, layers, db>>,
         ThreadFrame(p), NodeKept(p), LockInv',
         dirty \subseteq dirty', \A n \in dirty' : n \in dirty \/ locked[n] = p,
         deleted \subseteq deleted',
         \A n \in Leaves : layer'[n] # layer[n] => locked[n] = p /\ prev[n] # None,
         \A n \in Leaves : layer'[n] # None => layer'[n] \in layers,
         \A n \in Leaves : n \in deleted' /\ n \notin deleted =>
           /\ locked[n] = p /\ prev[n] # None
           /\ \A q \in Procs \ {p} : t[q].node = n => t'[q].held = "split",
         \A n \in Leaves : locked[n] = p /\ layer'[n] = None => n \in deleted',
         \A n \in Leaves : locked[n] = p /\ layer'[n] # None /\ (~Linked(n) \/ n \in deleted') =>
           t'[p].pc \in UnlinkPc /\ t'[p].node = n,
         t'[p].node # None => Alloc(t'[p].node),
         t'[p].other # None => Alloc(t'[p].other),
         ThreadOK(t[p])'
  PROVE  IInv'
<1>1. TypeOK /\ AllocInv /\ DeadInv /\ BoundInv
  BY DEF IInv, StoreInv
<1>2. LocksFrame(p)
  BY DEF LocksFrame
<1>3. ListInv' /\ LeafInv' /\ DbInv' /\ AttachInv'
  BY QuietStore
<1>4. \A n \in Leaves : Alloc(n)' <=> Alloc(n)
  BY ConstantFacts DEF Alloc
<1>5. AllocInv'
  <2>1. \A n \in Leaves : locked'[n] # None /\ layer'[n] = None /\ n \notin deleted' =>
           layer[n] = None /\ locked[n] = locked'[n] /\ (locked[n] = p => t'[p].pc = t[p].pc /\ t'[p].other = t[p].other)
    OBVIOUS
  <2>2. \A n \in Leaves : layer'[n] # None /\ (~Linked(n) \/ n \in deleted') =>
           \/ locked'[n] = p /\ t'[p].pc \in UnlinkPc /\ t'[p].node = n
           \/ /\ layer[n] # None /\ (~Linked(n) \/ n \in deleted)
              /\ locked'[n] = locked[n] /\ locked[n] # p
    OBVIOUS
  <2>3. QED
    BY <1>1, <1>2, <1>4, <2>1, <2>2, AllocStep
<1>6. LeafFrame(p) /\ ListFrame(p) /\ LayerFrame(p)
  <2>1. \A n \in Leaves : Alloc(n) => Alloc(n)' /\ (prev[n] = None => layer'[n] = layer[n])
    BY <1>4
  <2>2. QED
    BY <2>1, QuietFrame
<1>7. Confined(p)
  BY <1>1 DEF Confined, TypeOK, LeafTypeOK
<1>8. LockedFrame(p)
  BY <1>1, <1>7, ConfinedFrame
<1>9. ReadFrame(p)
  BY <1>1, ReadsFrame DEF ReadsKept, PermSame
<1>10. Frame(p)
  BY <1>6, <1>8, <1>9 DEF Frame
<1>11. ThreadInv'
  BY <1>3, <1>5, <1>10, ThreadInvStep
<1>12. DeadInv'
  BY <1>1, ConstantFacts DEF DeadInv
<1>13. BoundInv' /\ SortInv'
  BY <1>1 DEF IInv, StoreInv, BoundInv, SortInv, SortedBy, TypeOK, LeafTypeOK
<1>14. LeftInv'
  BY LeftSame DEF At
<1>15. QED
  BY <1>3, <1>5, <1>11, <1>12, <1>13, <1>14 DEF IInv, StoreInv

(* A leaf that only its predecessor reaches.                               *)
LEMMA Orphan ==
  ASSUME IInv, NEW x \in Leaves, layer[x] = None, x \notin deleted, prev[x] # None
  PROVE  prev[x] \in Leaves /\ layer[prev[x]] # None /\ In(prev[x], layer[prev[x]])
<1>1. TypeOK /\ AllocInv /\ ListInv
  BY DEF IInv, StoreInv
<1>2. prev[x] \in Leaves
  BY <1>1, LeafType
<1>3. Alloc(x)
  BY <1>1 DEF AllocInv
<1>4. PICK l \in layers : In(x, l)
  BY <1>1, <1>3 DEF AllocInv
<1>5. l \in Layers /\ l # None
  BY <1>1, <1>4, ConstantFacts DEF TypeOK, LeafTypeOK
<1>6. layer[prev[x]] = l
  BY <1>4, <1>5 DEF In
<1>7. In(prev[x], l)
  BY <1>1, <1>4 DEF ListInv
<1>8. QED
  BY <1>2, <1>5, <1>6, <1>7

LEMMA SplitTreeStep ==
  ASSUME IInv, NEW p \in Procs, SplitTree(p)
  PROVE  IInv'
<1>1. PICK c \in Thread : c = t[p] /\ c.pc = "split_tree"
  BY Mine DEF SplitTree
<1>2. /\ TypeOK /\ t \in [Procs -> Thread] /\ KeyOK(c) /\ LockOK(c) /\ c.node \in Leaves /\ locked[c.node] = p
      /\ c.op # "get" /\ Alloc(c.node) /\ c.other # c.node
      /\ c.other # None => c.other \in Leaves /\ locked[c.other] = p /\ Alloc(c.other)
      /\ \A n \in Leaves : locked[n] = p <=> Owns(t[p], n)
  BY <1>1, LockMine, MidPcs
<1>3. HomeOK(c) /\ MidOK(c) /\ c.node \notin deleted /\ c.other # None
  BY <1>1, <1>2, MidPcs DEF LockOK, MidOK
<1>4. PICK n \in Leaves, nr \in Leaves : n = c.node /\ nr = c.other /\ n # nr
  BY <1>2, <1>3
<1>5. next[n] = nr /\ nr \notin deleted /\ layer[nr] = None /\ layer[n] \in layers /\ In(n, layer[n])
  BY <1>1, <1>3, <1>4 DEF MidOK, HomeOK
<1>6. prev[nr] = n /\ layer[n] # None /\ layer[n] \in Layers
  <2>1. next[n] # None
    BY <1>5, ConstantFacts
  <2>2. QED
    BY <1>2, <1>5, <2>1, ConstantFacts DEF IInv, StoreInv, ListInv, TypeOK, LeafTypeOK
<1> DEFINE d == [c EXCEPT !.pc = "split_mark"]
<1>7. /\ layer' = [layer EXCEPT ![nr] = layer[n]] /\ t' = [t EXCEPT ![p] = d]
      /\ UNCHANGED <<slot, perm, modstate, locked, dirty, deleted, low, next, prev, layers, gcs, scene, ops, db>>
  BY <1>1, <1>4 DEF SplitTree
<1>8. d \in Thread
  BY ThreadPc, MidPcs
<1>9. SameLock(c, d) /\ d.pc = "split_mark" /\ d.i = c.i /\ d.p = c.p /\ d.other = c.other /\ d.held = c.held /\ d.state = c.state
  BY DEF Thread, SameLock
<1> HIDE DEF d
<1>10. d.node = n /\ d.key = c.key /\ d.op = c.op
  BY <1>4, <1>9 DEF SameLock
<1>11. ThreadFrame(p) /\ t'[p] = d /\ \A q \in Procs \ {p} : t'[q] = t[q]
  BY <1>2, <1>7, OneFrame
<1>12. /\ layer' \in [Leaves -> Layers \cup {None}] /\ layer'[nr] = layer[n]
       /\ \A m \in Leaves : m # nr => layer'[m] = layer[m]
  BY <1>2, <1>6, <1>7 DEF TypeOK, LeafTypeOK
<1>13. TypeOK'
  <2>1. t' \in [Procs -> Thread]
    BY <1>2, <1>7, <1>8
  <2>2. QED
    BY <1>2, <1>7, <1>12, <2>1 DEF TypeOK, LeafTypeOK
<1>14. LockInv' /\ LocksFrame(p)
  <2>1. /\ t[p].pc \in LockPc /\ t'[p].pc \in LockPc /\ t[p].pc # "gc_lock" /\ t'[p].pc # "gc_lock"
        /\ t'[p].node = t[p].node /\ t'[p].other = t[p].other /\ t'[p].held = t[p].held
    BY <1>1, <1>4, <1>9, <1>10, <1>11, MidPcs
  <2>2. QED
    BY <1>7, <1>11, <1>13, <2>1, KeepLocks
<1>15. NodeKept(p)
  BY <1>2, <1>4, <1>10, <1>11 DEF NodeKept
<1>16. /\ t[p].pc \in MidPc /\ t'[p].pc \in MidPc /\ t'[p].node = t[p].node /\ t'[p].p = t[p].p
       /\ t[p].pc \notin TurnPc /\ t'[p].pc \notin TurnPc
  BY <1>1, <1>4, <1>9, <1>10, <1>11, MidPcs
<1>17. Quiet
  <2>1. \A m \in Leaves : Splitting(m)' <=> Splitting(m)
    BY <1>2, <1>7, <1>11, <1>13, <1>14, <1>16, SplittingSame
  <2>2. \A m \in Leaves : layer[m] # None /\ prev[m] = None => layer'[m] = layer[m]
    BY <1>5, <1>12
  <2>3. \A m \in Leaves : Entries(m)' = Entries(m)
    BY <1>7, <1>11, <1>13, <1>14, <1>16, <2>2, EntriesSame
  <2>4. \A m \in Leaves : \A l \in Layers : In(m, l)' <=> In(m, l)
    <3>1. SUFFICES ASSUME NEW m \in Leaves, NEW l \in Layers PROVE In(m, l)' <=> In(m, l)
      OBVIOUS
    <3>2. Linked(m)' <=> Linked(m)
      BY <1>7 DEF Linked
    <3>3. CASE m = nr
      <4>1. Linked(nr) /\ n # None
        BY <1>5, <1>6, ConstantFacts DEF Linked
      <4>2. In(nr, l) <=> layer[n] = l
        BY <1>5, <1>6, <4>1, ConstantFacts DEF In
      <4>3. In(nr, l)' <=> layer[n] = l
        BY <1>4, <1>6, <1>7, <1>12, <3>2, <3>3, <4>1, ConstantFacts DEF In
      <4>4. QED
        BY <3>3, <4>2, <4>3
    <3>4. CASE m # nr /\ ~(layer[m] = None /\ m \notin deleted /\ prev[m] # None)
      BY <1>7, <1>12, <3>2, <3>4 DEF In
    <3>5. CASE m # nr /\ layer[m] = None /\ m \notin deleted /\ prev[m] # None
      <4>1. prev[m] \in Leaves /\ layer[prev[m]] # None
        BY <3>5, Orphan
      <4>2. prev[m] # nr
        BY <1>5, <4>1
      <4>3. QED
        BY <1>7, <1>12, <3>2, <3>5, <4>1, <4>2 DEF In
    <3>6. QED
      BY <3>3, <3>4, <3>5
  <2>5. QED
    BY <1>7, <2>1, <2>3, <2>4 DEF Quiet
<1>18. ThreadOK(t[p])'
  <2>1. KeyOK(d) /\ HomeOK(d) /\ Ikey(d) = Ikey(c) /\ (HasSuffix(d) <=> HasSuffix(c))
        /\ \A s : Compare(d, s) = Compare(c, s)
    BY <1>2, <1>3, <1>8, <1>9, LockKey
  <2>2. KeyOK(d)'
    BY <1>7, <2>1 DEF KeyOK
  <2>3. HomeOK(d)'
    BY <1>2, <1>4, <1>8, <1>10, <1>12, <1>17, <2>1, QuietHomeAt
  <2>4. Position(d)
    BY <1>3, <1>4, <1>9, <1>10, <2>1 DEF MidOK, Position
  <2>5. Position(d)'
    BY <1>7, <2>4 DEF Position, At
  <2>6. \A s : SlotIs(c, s) => SlotIs(d, s)
    BY <1>9, <2>1 DEF SlotIs, SameLock
  <2>7. \A s : SlotIs(d, s) => SlotIs(d, s)'
    BY DEF SlotIs, Ikey, HasSuffix
  <2>8. MidOK(d)'
    <3>1. \A m, j : At(m, j)' = At(m, j)
      BY <1>7 DEF At
    <3>2. Ikey(d)' = Ikey(c)
      BY <2>1 DEF Ikey
    <3>3. layer'[d.other] = layer'[d.node] /\ d.pc # "split_tree" /\ d.pc # "split_strip"
      BY <1>4, <1>9, <1>10, <1>12
    <3>4. QED
      BY <1>3, <1>4, <1>7, <1>9, <1>10, <2>5, <2>6, <2>7, <3>1, <3>2, <3>3 DEF MidOK
  <2>9. LockOK(d)'
    BY <1>3, <1>4, <1>7, <1>9, <1>10, <2>3, <2>8, MidPcs DEF LockOK
  <2>10. ThreadOK(d)'
    BY <1>8, <1>9, <2>2, <2>9, MidPcs, HolderOK
  <2>11. QED
    BY <1>11, <2>10
<1>19. \A m \in Leaves : locked[m] = p => m \in {n, nr}
  BY <1>1, <1>2, <1>4 DEF Owns
<1>20. Linked(nr) /\ Linked(n) /\ n \notin deleted'
  <2>1. Linked(nr)
    BY <1>5, <1>6 DEF Linked
  <2>2. QED
    BY <1>3, <1>4, <1>5, <1>7, <2>1 DEF In
<1>21. /\ \A m \in Leaves : layer'[m] # layer[m] => locked[m] = p /\ prev[m] # None
       /\ \A m \in Leaves : layer'[m] # None => layer'[m] \in layers
       /\ \A m \in Leaves : locked[m] = p /\ layer'[m] = None => m \in deleted'
       /\ \A m \in Leaves : locked[m] = p => ~(~Linked(m) \/ m \in deleted')
  <2>1. locked[nr] = p /\ prev[nr] # None
    BY <1>2, <1>4, <1>6, ConstantFacts
  <2>2. \A m \in Leaves : layer[m] # None => layer[m] \in layers
    BY DEF IInv, StoreInv, AllocInv
  <2>3. QED
    BY <1>5, <1>6, <1>7, <1>12, <1>19, <1>20, <2>1, <2>2
<1>22. /\ t'[p].node # None => Alloc(t'[p].node)
       /\ t'[p].other # None => Alloc(t'[p].other)
  BY <1>2, <1>4, <1>9, <1>10, <1>11
<1>23. QED
  BY <1>7, <1>11, <1>13, <1>14, <1>15, <1>17, <1>18, <1>21, <1>22, ShiftStep

LEMMA DeletePcs ==
  /\ DeletePc \subseteq LockPc /\ DeletePc \subseteq Pcs
  /\ \A u \in DeletePc : /\ u \notin TurnPc /\ u \notin MidPc /\ u \notin AssignPc \cup StorePc /\ u \notin LayerPc
                         /\ u \notin OtherPc /\ u \notin {"found", "remove", "gc_lock", "unlock"}
  /\ "delete" \in DeletePc /\ "delete_unlink" \in DeletePc /\ "delete_tree" \in DeletePc
  /\ "delete_unlink" \in UnlinkPc /\ "delete_tree" \in UnlinkPc /\ "delete" \notin UnlinkPc
  /\ "unlock" \in LockPc /\ "unlock" \in Pcs /\ "unlock" # "delete_tree"
BY DEF LockPc, MidPc, TurnPc, UnlinkPc, AssignPc, StorePc, LayerPc, DeletePc, OtherPc, Pcs

LEMMA DeleteMine ==
  ASSUME IInv, NEW p \in Procs, t[p].pc \in DeletePc
  PROVE  /\ TypeOK /\ t[p] \in Thread /\ t \in [Procs -> Thread] /\ KeyOK(t[p]) /\ DeleteOK(t[p])
         /\ t[p].node \in Leaves /\ locked[t[p].node] = p /\ Alloc(t[p].node) /\ t[p].other = None
         /\ \A n \in Leaves : locked[n] = p <=> n = t[p].node
         /\ layer[t[p].node] \in layers /\ layer[t[p].node] \in Layers
         /\ prev[t[p].node] \in Leaves
         /\ perm[t[p].node].size = 0 /\ modstate[t[p].node] = "remove" /\ t[p].op # "get"
<1>1. t[p].pc \in LockPc /\ t[p].pc # "gc_lock" /\ t[p].pc \notin OtherPc
  BY DeletePcs
<1>2. /\ TypeOK /\ t[p] \in Thread /\ t \in [Procs -> Thread] /\ KeyOK(t[p]) /\ LockOK(t[p])
      /\ t[p].node \in Leaves /\ locked[t[p].node] = p /\ Alloc(t[p].node) /\ t[p].other = None
      /\ \A n \in Leaves : locked[n] = p <=> Owns(t[p], n)
      /\ t[p].op # "get"
  BY <1>1, LockMine
<1>3. DeleteOK(t[p])
  BY <1>2 DEF LockOK
<1>4. \A n \in Leaves : locked[n] = p <=> n = t[p].node
  BY <1>1, <1>2, ConstantFacts DEF Owns
<1>5. layer[t[p].node] \in layers
  BY <1>2, <1>3 DEF DeleteOK, IInv, StoreInv, AllocInv
<1>6. layer[t[p].node] \in Layers /\ prev[t[p].node] \in Leaves
  BY <1>2, <1>3, <1>5, LeafType DEF DeleteOK, TypeOK, LeafTypeOK
<1>7. QED
  BY <1>2, <1>3, <1>4, <1>5, <1>6 DEF DeleteOK

LEMMA DeleteMarkStep ==
  ASSUME IInv, NEW p \in Procs, DeleteMark(p)
  PROVE  IInv'
<1>1. PICK c \in Thread : c = t[p] /\ c.pc = "delete"
  BY Mine DEF DeleteMark
<1>2. /\ TypeOK /\ t \in [Procs -> Thread] /\ KeyOK(c) /\ DeleteOK(c)
      /\ c.node \in Leaves /\ locked[c.node] = p /\ Alloc(c.node) /\ c.other = None
      /\ \A m \in Leaves : locked[m] = p <=> m = c.node
      /\ layer[c.node] \in layers /\ layer[c.node] \in Layers /\ prev[c.node] \in Leaves
      /\ perm[c.node].size = 0 /\ modstate[c.node] = "remove" /\ c.op # "get"
  BY <1>1, DeleteMine, DeletePcs
<1>3. PICK n \in Leaves : n = c.node
  BY <1>2
<1>4. layer[n] # None /\ prev[n] # None /\ Linked(n)
  BY <1>1, <1>2, <1>3 DEF DeleteOK
<1>5. /\ deleted' = deleted \cup {n} /\ dirty' = dirty \cup {n}
      /\ t' = [Seen(n, "split") EXCEPT ![p].pc = "delete_unlink"]
      /\ UNCHANGED <<slot, perm, modstate, locked, layer, low, next, prev, layers, gcs, scene, ops, db>>
  BY <1>1, <1>3 DEF DeleteMark
<1>6. PICK how \in {"insert", "split"} : how = "split"
  OBVIOUS
<1>7. PICK x \in {"insert", "split"} : Seen(n, how)[p] = [c EXCEPT !.held = x] /\ x = "split"
  <2>1. PICK y \in {"insert", "split"} : /\ Seen(c.node, how)[p] = [c EXCEPT !.held = y]
                                         /\ c.held = "split" \/ how = "split" => y = "split"
    BY <1>1, <1>2, SeenSelf
  <2>2. QED
    BY <1>3, <1>6, <2>1
<1>8. PICK d \in Thread : d = [c EXCEPT !.held = x, !.pc = "delete_unlink"]
  BY ThreadHeld, DeletePcs
<1>9. SameLock(c, d) /\ d.pc = "delete_unlink" /\ d.other = c.other /\ d.i = c.i /\ d.p = c.p /\ d.held = "split" /\ d.state = c.state
  BY <1>7, <1>8 DEF Thread, SameLock
<1>10. Seen(n, how) \in [Procs -> Thread]
  BY <1>1, <1>2, <1>3, SeenSelf
<1>11. t'[p] = d /\ t' \in [Procs -> Thread] /\ \A q \in Procs \ {p} : t'[q] = Seen(n, how)[q]
  <2>1. t'[p] = [Seen(n, how)[p] EXCEPT !.pc = "delete_unlink"]
    BY <1>5, <1>6, <1>10
  <2>2. t'[p] = d
    BY <1>7, <1>8, <2>1 DEF Thread
  <2>3. t' = [Seen(n, how) EXCEPT ![p] = d]
    BY <1>5, <1>6, <1>7, <1>8, <1>10, <2>1, <2>2
  <2>4. QED
    BY <1>10, <2>2, <2>3
<1>12. d.node = n /\ d.key = c.key /\ d.op = c.op
  BY <1>3, <1>9 DEF SameLock
<1>13. /\ ThreadFrame(p)
       /\ \A q \in Procs \ {p} : t[q].node = n => t'[q].held # "same"
       /\ \A q \in Procs \ {p} : t[q].node = n => t'[q].held = "split"
  BY <1>2, <1>5, <1>6, <1>11, SeenFrame
<1>14. TypeOK'
  BY <1>2, <1>5, <1>11 DEF TypeOK, LeafTypeOK
<1>15. LockInv' /\ LocksFrame(p)
  <2>1. \A q \in Procs : t[q].node = t[p].node => t'[q].held # "same"
    BY <1>1, <1>3, <1>9, <1>11, <1>13
  <2>2. /\ t[p].pc \in LockPc /\ t'[p].pc \in LockPc /\ t[p].pc # "gc_lock" /\ t'[p].pc # "gc_lock"
        /\ t'[p].node = t[p].node /\ t'[p].other = t[p].other /\ t'[p].held # "same"
        /\ dirty' = dirty \cup {t[p].node} /\ locked' = locked
    BY <1>1, <1>3, <1>5, <1>9, <1>11, <1>12, DeletePcs
  <2>3. QED
    BY <1>13, <1>14, <2>1, <2>2, KeepLocks
<1>16. NodeKept(p)
  BY <1>2, <1>3, <1>11, <1>12 DEF NodeKept
<1>17. t[p].pc \notin MidPc /\ t'[p].pc \notin MidPc /\ t[p].pc \notin TurnPc /\ t'[p].pc \notin TurnPc
  BY <1>1, <1>9, <1>11, DeletePcs
<1>18. Quiet
  <2>1. \A m \in Leaves : Splitting(m)' <=> Splitting(m)
    BY <1>2, <1>13, <1>14, <1>15, <1>17, SplittingSame
  <2>2. \A m \in Leaves : Entries(m)' = Entries(m)
    BY <1>5, <1>13, <1>14, <1>15, <1>17, EntriesSame
  <2>3. \A m \in Leaves : \A l \in Layers : In(m, l)' <=> In(m, l)
    BY <1>4, <1>5 DEF In, Linked
  <2>4. QED
    BY <1>5, <2>1, <2>2, <2>3 DEF Quiet
<1>19. ThreadOK(t[p])'
  <2>1. KeyOK(d)
    BY <1>2, <1>9, LockKey
  <2>2. KeyOK(d)'
    BY <1>5, <2>1 DEF KeyOK
  <2>3. DeleteOK(d)'
    BY <1>2, <1>3, <1>4, <1>5, <1>9, <1>12 DEF DeleteOK, Linked
  <2>4. LockOK(d)'
    BY <1>9, <2>3, DeletePcs DEF LockOK
  <2>5. ThreadOK(d)'
    BY <1>2, <1>9, <2>2, <2>4, DeletePcs, HolderOK
  <2>6. QED
    BY <1>11, <2>5
<1>20. /\ \A m \in Leaves : m \in deleted' /\ m \notin deleted => m = n
       /\ \A m \in Leaves : locked[m] = p => m = n
       /\ locked[n] = p /\ layer' = layer
       /\ \A m \in Leaves : layer[m] # None => layer[m] \in layers
  BY <1>2, <1>3, <1>5 DEF IInv, StoreInv, AllocInv
<1>21. t'[p].pc \in UnlinkPc /\ t'[p].node = n /\ Alloc(n) /\ t'[p].other = None
  BY <1>2, <1>3, <1>9, <1>11, <1>12, DeletePcs
<1>22. QED
  BY <1>4, <1>5, <1>13, <1>14, <1>15, <1>16, <1>18, <1>19, <1>20, <1>21, ShiftStep

LEMMA DeleteTreeStep ==
  ASSUME IInv, NEW p \in Procs, DeleteTree(p)
  PROVE  IInv'
<1>1. PICK c \in Thread : c = t[p] /\ c.pc = "delete_tree"
  BY Mine DEF DeleteTree
<1>2. /\ TypeOK /\ t \in [Procs -> Thread] /\ KeyOK(c) /\ DeleteOK(c)
      /\ c.node \in Leaves /\ locked[c.node] = p /\ Alloc(c.node) /\ c.other = None
      /\ \A m \in Leaves : locked[m] = p <=> m = c.node
      /\ layer[c.node] \in layers /\ layer[c.node] \in Layers /\ prev[c.node] \in Leaves
      /\ perm[c.node].size = 0 /\ modstate[c.node] = "remove" /\ c.op # "get"
  BY <1>1, DeleteMine, DeletePcs
<1>3. PICK n \in Leaves : n = c.node
  BY <1>2
<1>4. layer[n] # None /\ prev[n] # None /\ ~Linked(n) /\ n \in deleted /\ n \in dirty
  BY <1>1, <1>2, <1>3 DEF DeleteOK
<1> DEFINE d == [c EXCEPT !.pc = "unlock"]
<1>5. /\ layer' = [layer EXCEPT ![n] = None] /\ t' = [t EXCEPT ![p] = d]
      /\ UNCHANGED <<slot, perm, modstate, locked, dirty, deleted, low, next, prev, layers, gcs, scene, ops, db>>
  BY <1>1, <1>3 DEF DeleteTree
<1>6. d \in Thread
  BY ThreadPc, DeletePcs
<1>7. SameLock(c, d) /\ d.pc = "unlock" /\ d.i = c.i /\ d.p = c.p /\ d.other = c.other /\ d.held = c.held /\ d.state = c.state
  BY DEF Thread, SameLock
<1> HIDE DEF d
<1>8. d.node = n /\ d.key = c.key /\ d.op = c.op
  BY <1>3, <1>7 DEF SameLock
<1>9. ThreadFrame(p) /\ t'[p] = d /\ \A q \in Procs \ {p} : t'[q] = t[q]
  BY <1>2, <1>5, OneFrame
<1>10. /\ layer' \in [Leaves -> Layers \cup {None}] /\ layer'[n] = None
       /\ \A m \in Leaves : m # n => layer'[m] = layer[m]
  BY <1>2, <1>5 DEF TypeOK, LeafTypeOK
<1>11. TypeOK'
  <2>1. t' \in [Procs -> Thread]
    BY <1>2, <1>5, <1>6
  <2>2. QED
    BY <1>2, <1>5, <1>10, <2>1 DEF TypeOK, LeafTypeOK
<1>12. LockInv' /\ LocksFrame(p)
  <2>1. /\ t[p].pc \in LockPc /\ t'[p].pc \in LockPc /\ t[p].pc # "gc_lock" /\ t'[p].pc # "gc_lock"
        /\ t'[p].node = t[p].node /\ t'[p].other = t[p].other /\ t'[p].held = t[p].held
    BY <1>1, <1>3, <1>7, <1>8, <1>9, DeletePcs
  <2>2. QED
    BY <1>5, <1>9, <1>11, <2>1, KeepLocks
<1>13. NodeKept(p)
  BY <1>2, <1>3, <1>8, <1>9 DEF NodeKept
<1>14. t[p].pc \notin MidPc /\ t'[p].pc \notin MidPc /\ t[p].pc \notin TurnPc /\ t'[p].pc \notin TurnPc
  BY <1>1, <1>7, <1>9, DeletePcs, UnlockPcs
<1>15. Quiet
  <2>1. \A m \in Leaves : Splitting(m)' <=> Splitting(m)
    BY <1>2, <1>9, <1>11, <1>12, <1>14, SplittingSame
  <2>2. \A m \in Leaves : layer[m] # None /\ prev[m] = None => layer'[m] = layer[m]
    BY <1>4, <1>10
  <2>3. \A m \in Leaves : Entries(m)' = Entries(m)
    BY <1>5, <1>9, <1>11, <1>12, <1>14, <2>2, EntriesSame
  <2>4. \A m \in Leaves : \A l \in Layers : In(m, l)' <=> In(m, l)
    <3>1. SUFFICES ASSUME NEW m \in Leaves, NEW l \in Layers PROVE In(m, l)' <=> In(m, l)
      OBVIOUS
    <3>2. Linked(m)' <=> Linked(m)
      BY <1>5 DEF Linked
    <3>3. CASE m = n
      BY <1>4, <3>2, <3>3 DEF In
    <3>4. CASE m # n /\ ~(layer[m] = None /\ m \notin deleted /\ prev[m] # None)
      BY <1>5, <1>10, <3>2, <3>4 DEF In
    <3>5. CASE m # n /\ layer[m] = None /\ m \notin deleted /\ prev[m] # None
      <4>1. prev[m] \in Leaves /\ In(prev[m], layer[prev[m]])
        BY <3>5, Orphan
      <4>2. prev[m] # n
        BY <1>4, <4>1 DEF In
      <4>3. QED
        BY <1>5, <1>10, <3>2, <3>5, <4>1, <4>2 DEF In
    <3>6. QED
      BY <3>3, <3>4, <3>5
  <2>5. QED
    BY <1>5, <2>1, <2>3, <2>4 DEF Quiet
<1>16. ThreadOK(t[p])'
  <2>1. KeyOK(d)
    BY <1>2, <1>6, <1>7, LockKey
  <2>2. KeyOK(d)'
    BY <1>5, <2>1 DEF KeyOK
  <2>3. UnlockOK(d)'
    BY <1>2, <1>3, <1>5, <1>8 DEF UnlockOK
  <2>4. LockOK(d)'
    BY <1>7, <2>3, UnlockPcs DEF LockOK
  <2>5. ThreadOK(d)'
    BY <1>2, <1>6, <1>7, <2>2, <2>4, UnlockPcs, HolderOK
  <2>6. QED
    BY <1>9, <2>5
<1>17. /\ \A m \in Leaves : layer'[m] # layer[m] => m = n
       /\ \A m \in Leaves : locked[m] = p => m = n
       /\ locked[n] = p
       /\ \A m \in Leaves : layer'[m] # None => layer'[m] \in layers
  BY <1>2, <1>3, <1>10 DEF IInv, StoreInv, AllocInv
<1>18. t'[p].node = n /\ Alloc(n) /\ t'[p].other = None
  BY <1>2, <1>3, <1>7, <1>8, <1>9
<1>19. QED
  BY <1>4, <1>5, <1>9, <1>10, <1>11, <1>12, <1>13, <1>15, <1>16, <1>17, <1>18, ShiftStep

-----------------------------------------------------------------------------
(* Which lookups a new value is told to.                                   *)

LEMMA KeyEqual ==
  ASSUME NEW a \in Seq(Nat), NEW b \in Seq(Nat), Len(a) = Len(b), Len(a) \in 1..2, a[1] = b[1],
         Len(a) = 2 => a[2] = b[2]
  PROVE  a = b
<1>1. \A i \in 1..Len(a) : a[i] = b[i]
  <2>1. \A m \in 1..2 : \A i \in 1..m : i = 1 \/ (i = 2 /\ m = 2)
    OBVIOUS
  <2>2. QED
    BY <2>1
<1>2. QED
  BY <1>1

(* A leaf that is locked and not splitting shares no slice with another one. *)
LEMMA SoleLeaf ==
  ASSUME IInv, NEW p \in Procs, t[p].pc \notin MidPc, NEW n \in Leaves, locked[n] = p,
         NEW l \in layers, In(n, l), NEW m \in Leaves, In(m, l),
         NEW x \in Nat, Covers(n, x), Covers(m, x)
  PROVE  m = n
<1>1. TypeOK /\ ListInv
  BY DEF IInv, StoreInv
<1>2. low[n] \in Nat /\ low[m] \in Nat
  BY <1>1, LeafType
<1>3. CASE low[n] < low[m]
  <2>1. Splitting(n)
    BY <1>1, <1>3, Disjoint
  <2>2. QED
    BY <2>1 DEF Splitting
<1>4. CASE low[m] < low[n]
  <2>1. Splitting(m) /\ n = next[m]
    BY <1>1, <1>4, Disjoint
  <2>2. PICK q \in Procs : t[q].pc \in MidPc /\ locked[next[m]] = q
    BY <2>1, SplitterFacts
  <2>3. QED
    BY <2>1, <2>2
<1>5. CASE low[m] = low[n]
  BY <1>1, <1>5 DEF ListInv
<1>6. QED
  BY <1>2, <1>3, <1>4, <1>5

(* A lookup that reads the slot of the writer's key looks for that key.    *)
LEMMA SameKey ==
  ASSUME IInv, NEW p \in Procs, NEW c \in Thread, c = t[p], c.pc \in LockPc, KeyOK(c), HomeOK(c),
         c.op # "gc", NEW q \in Procs \ {p}, NEW d \in Thread, d = t[q], d.pc \in ReadPc,
         d.held = "same", d.op = "get", d.node = c.node,
         NEW s \in Slot, Compare(c, s) = 0, KsufMatches(c, s) = 1,
         Compare(d, s) = 0, KsufMatches(d, s) = 1
  PROVE  d.key = c.key
<1>1. /\ KeyOK(d) /\ RootOK(d) /\ SearchOK(d) /\ c.node \in Leaves /\ d.pc \in SearchPc
      /\ modstate[c.node] # "deleted_layer" /\ TypeOK
  BY SearchMine, LockMine, PcFacts
<1>2. d.bit = "live" /\ d.pc # "walk" /\ d.held # "split"
  BY <1>1 DEF SearchOK, ReadPc
<1>3. In(c.node, d.root) /\ In(c.node, layer[c.node]) /\ layer[c.node] \in layers
  BY <1>1, <1>2 DEF SearchOK, HomeOK
<1>4. d.root \in layers /\ d.root \in Layers /\ layer[c.node] \in Layers
  BY <1>1, <1>3, RootFacts DEF TypeOK, LeafTypeOK
<1>5. d.root = layer[c.node]
  BY <1>1, <1>3, <1>4, InUnique
<1>6. /\ Ikey(c) = c.key[c.depth] /\ Ikey(d) = d.key[d.depth] /\ Ikey(c) = s.ikey /\ Ikey(d) = s.ikey
      /\ HasSuffix(c) <=> s.kind # "plain"
      /\ HasSuffix(d) <=> s.kind # "plain"
  BY <1>1, IkeyType, CompareFacts
<1>7. /\ HasSuffix(c) <=> c.depth = 1 /\ Len(c.key) = 2
      /\ HasSuffix(d) <=> d.depth = 1 /\ Len(d.key) = 2
      /\ c.depth = 1 \/ (c.depth = 2 /\ Len(c.key) = 2)
      /\ d.depth = 1 \/ (d.depth = 2 /\ Len(d.key) = 2)
      /\ c.key[1] \in Nat /\ d.key[1] \in Nat
  BY <1>1, IkeyType
<1>8. HasSuffix(c) => s.suf = c.key[c.depth + 1] /\ s.suf = d.key[d.depth + 1]
  BY <1>6, MatchFacts
<1>9. c.key \in Seq(Nat) /\ d.key \in Seq(Nat) /\ Len(c.key) \in 1..2 /\ Len(d.key) \in 1..2
  BY <1>1, ThreadType DEF KeyOK
<1>10. c.depth = 2 => layer[c.node] # RootLayer /\ Attached(layer[c.node], c.key[1])
  <2>1. c.depth = 2 => Attached(layer[c.node], c.key[1])
    BY DEF HomeOK, Level
  <2>2. QED
    BY <1>4, <1>7, <2>1, AttachedAt
<1>11. d.depth = 2 => layer[c.node] # RootLayer /\ Attached(layer[c.node], d.key[1])
  <2>1. SUFFICES ASSUME d.depth = 2 PROVE layer[c.node] # RootLayer /\ Attached(layer[c.node], d.key[1])
    OBVIOUS
  <2>2. LayerRef(d, d.root)
    BY <1>1, <2>1 DEF RootOK
  <2>3. ~Dead(d.root)
    BY <1>1, <1>3 DEF Dead
  <2>4. QED
    BY <1>5, <2>2, <2>3 DEF LayerRef
<1>12. c.depth = d.depth
  <2>1. c.depth = 1 => layer[c.node] = RootLayer
    BY DEF HomeOK, Level
  <2>2. d.depth = 1 => d.root = RootLayer
    BY <1>1 DEF RootOK
  <2>3. QED
    BY <1>5, <1>7, <1>10, <1>11, <2>1, <2>2
<1>13. CASE c.depth = 1
  <2>1. c.key[1] = d.key[1]
    BY <1>6, <1>12, <1>13
  <2>2. Len(c.key) = Len(d.key)
    BY <1>6, <1>7, <1>9, <1>12, <1>13
  <2>3. Len(c.key) = 2 => c.key[2] = d.key[2]
    BY <1>7, <1>8, <1>12, <1>13
  <2>4. QED
    BY <1>9, <2>1, <2>2, <2>3, KeyEqual
<1>14. CASE c.depth = 2
  <2>1. c.key[2] = d.key[2] /\ Len(c.key) = 2 /\ Len(d.key) = 2
    <3>1. d.depth = 2 /\ c.depth = 2 /\ c.depth # 1 /\ d.depth # 1
      BY <1>12, <1>14
    <3>2. Len(c.key) = 2 /\ Len(d.key) = 2
      BY <1>7, <3>1, Zenon
    <3>3. QED
      BY <1>6, <3>1, <3>2, Zenon
  <2>2. c.key[1] = d.key[1]
    BY <1>3, <1>7, <1>10, <1>11, <1>12, <1>14 DEF IInv, StoreInv, AttachInv
  <2>3. QED
    BY <1>9, <2>1, <2>2, KeyEqual
<1>15. QED
  BY <1>7, <1>13, <1>14

LEMMA ThreadSelf == ASSUME NEW c \in Thread PROVE c = [c EXCEPT !.held = c.held, !.may = c.may]
BY DEF Thread

(* What the other threads are told of a new value.                         *)
LEMMA ToldFrame ==
  ASSUME TypeOK, NEW p \in Procs, NEW k \in Keys, NEW v \in Int \cup Layers,
         db' = [db EXCEPT ![k] = v], \A q \in Procs \ {p} : t'[q] = Told(k, v)[q]
  PROVE  /\ ThreadFrame(p)
         /\ \A q \in Procs \ {p} : t[q].op = "get" /\ t[q].key = k => v \in t'[q].may
         /\ \A q \in Procs \ {p} : t'[q].held = t[q].held
         /\ Told(k, v) \in [Procs -> Thread]
<1>1. t \in [Procs -> Thread] /\ db \in [Keys -> Int \cup Layers]
  BY DEF TypeOK
<1>2. ASSUME NEW q \in Procs
      PROVE  LET x == Told(k, v)[q] IN
             /\ x \in Thread /\ x.held = t[q].held /\ x = [t[q] EXCEPT !.held = x.held, !.may = x.may]
             /\ t[q].may \subseteq x.may
             /\ t[q].op = "get" /\ t[q].key = k => v \in x.may
             /\ t[q].op = "get" /\ t[q].key \in Keys /\ db[t[q].key] \in t[q].may => db'[t[q].key] \in x.may
  <2>1. PICK c \in Thread : c = t[q]
    BY <1>1, <1>2
  <2>2. CASE c.op = "get" /\ c.key = k
    <3>1. PICK x : x = Told(k, v)[q]
      OBVIOUS
    <3>2. x = [c EXCEPT !.may = @ \cup {v}]
      BY <1>2, <2>1, <2>2, <3>1 DEF Told
    <3>3. /\ x \in Thread /\ x.held = c.held /\ x.may = c.may \cup {v}
          /\ x = [c EXCEPT !.held = x.held, !.may = x.may]
      BY <3>2 DEF Thread
    <3>4. db'[k] = v
      BY <1>1
    <3>5. QED
      BY <2>1, <2>2, <3>1, <3>3, <3>4
  <2>3. CASE ~(c.op = "get" /\ c.key = k)
    <3>1. Told(k, v)[q] = c
      BY <1>2, <2>1, <2>3 DEF Told
    <3>2. c.op = "get" /\ c.key \in Keys => db'[c.key] = db[c.key]
      BY <1>1, <2>3
    <3>3. QED
      BY <2>1, <2>3, <3>1, <3>2, ThreadSelf
  <2>4. QED
    BY <2>2, <2>3
<1>3. Told(k, v) \in [Procs -> Thread]
  BY <1>2 DEF Told
<1>4. ThreadFrame(p)
  BY <1>2 DEF ThreadFrame
<1>5. QED
  BY <1>2, <1>3, <1>4

-----------------------------------------------------------------------------
(* Steps that change the value of one key.                                 *)

(* A step that changes the contents of the thread's leaf only.             *)
LEMMA EditStep ==
  ASSUME IInv, NEW p \in Procs, TypeOK',
         UNCHANGED <<modstate, locked, dirty, deleted, layer, low, next, prev, layers>>,
         ThreadFrame(p), t[p].pc \in LockPc, t[p].pc \notin {"gc_lock", "split_tree"} \cup UnlinkPc,
         \A m \in Leaves : m # t[p].node => slot'[m] = slot[m] /\ perm'[m] = perm[m],
         LockInv', t'[p].node \in Leaves, locked[t'[p].node] = p,
         t'[p].other # None => t'[p].other \in Leaves /\ locked[t'[p].other] = p,
         \A m \in Leaves : \A l \in layers : In(m, l) => \A x \in Nat : Covers(m, x) =>
           \/ Covers(m, x)'
           \/ locked[m] = p /\ \A q \in Procs \ {p} : t[q].node = m => t[q].held = "split",
         BoundInv', SortInv', LeafInv', LeftInv', DbInv', AttachInv',
         \A l \in layers : \A a \in Nat : Attached(l, a) =>
           \/ Attached(l, a)'
           \/ Dead(l) /\ \A q \in Procs \ {p} :
                t[q].op = "get" /\ t[q].key \in Keys /\ Len(t[q].key) = 2 /\ t[q].key[1] = a
                /\ db[t[q].key] \in t[q].may => 0 \in t'[q].may,
         ReadFrame(p), ThreadOK(t[p])'
  PROVE  IInv'
<1>1. /\ TypeOK /\ AllocInv /\ t[p].node \in Leaves /\ locked[t[p].node] = p /\ Alloc(t[p].node)
      /\ modstate[t[p].node] # "deleted_layer"
  BY LockMine DEF IInv, StoreInv
<1>2. /\ \A m \in Leaves : Alloc(m)' <=> Alloc(m)
      /\ \A m \in Leaves : Linked(m)' <=> Linked(m)
      /\ \A m \in Leaves : \A l : In(m, l)' <=> In(m, l)
  BY DEF Alloc, Linked, In
<1>3. \A m \in Leaves : Gone(m)' <=> Gone(m)
  BY <1>2 DEF Gone
<1>4. \A l : Dead(l)' <=> Dead(l)
  BY <1>2 DEF Dead
<1>5. ListInv'
  BY <1>1, <1>2 DEF IInv, StoreInv, ListInv, TypeOK, LeafTypeOK
<1>6. AllocInv'
  <2>1. next \in [Leaves -> Leaves \cup {None}] /\ prev \in [Leaves -> Leaves \cup {None}] /\ None \notin Procs
    BY <1>1, ConstantFacts DEF TypeOK, LeafTypeOK
  <2>2. \A m \in Leaves : ~Alloc(m)' =>
          low'[m] = 0 /\ next'[m] = None /\ prev'[m] = None /\ modstate'[m] = "insert" /\ perm'[m].size = 0
    BY <1>1, <1>2 DEF AllocInv
  <2>3. /\ \A m \in Leaves : next'[m] # None => Alloc(next[m])'
        /\ \A m \in Leaves : prev'[m] # None => Alloc(prev[m])'
    BY <1>1, <1>2, <2>1 DEF AllocInv
  <2>4. ASSUME NEW q \in Procs
        PROVE (t'[q].node # None => Alloc(t[q].node)') /\ (t'[q].other # None => Alloc(t[q].other)')
    <3>1. CASE q = p
      BY <2>1, <3>1 DEF Alloc
    <3>2. CASE q # p
      <4>1. PICK c, d \in Thread : c = t[q] /\ d = t'[q] /\ Later(c, d)
        BY <1>1, <3>2, FrameThread
      <4>2. /\ c.node # None => c.node \in Leaves /\ Alloc(c.node)
            /\ c.other # None => c.other \in Leaves /\ Alloc(c.other)
        BY <1>1, <4>1, ThreadType DEF AllocInv
      <4>3. /\ d.node # None => Alloc(d.node)'
            /\ d.other # None => Alloc(d.other)'
        BY <1>2, <4>1, <4>2 DEF Later
      <4>4. QED
        BY <4>1, <4>3
    <3>3. QED
      BY <3>1, <3>2
  <2>5. \A m \in Leaves : locked[m] # None => locked[m] \in Procs /\
          (t[locked[m]].pc \in UnlinkPc \cup {"split_tree"} =>
             /\ t'[locked[m]].pc = t[locked[m]].pc /\ t'[locked[m]].node = t[locked[m]].node
             /\ t'[locked[m]].other = t[locked[m]].other)
    <3>1. SUFFICES ASSUME NEW m \in Leaves, locked[m] # None, t[locked[m]].pc \in UnlinkPc \cup {"split_tree"}
                   PROVE  /\ t'[locked[m]].pc = t[locked[m]].pc /\ t'[locked[m]].node = t[locked[m]].node
                          /\ t'[locked[m]].other = t[locked[m]].other
      BY <1>1, LeafType
    <3>2. locked[m] \in Procs \ {p}
      BY <1>1, <3>1, LeafType
    <3>3. PICK c, d \in Thread : c = t[locked[m]] /\ d = t'[locked[m]] /\ Later(c, d)
      BY <1>1, <3>2, FrameThread
    <3>4. QED
      BY <3>3 DEF Later
  <2>6. \A m \in Leaves : locked[m] # None /\ layer[m] = None /\ m \notin deleted =>
          t'[locked[m]].pc = "split_tree" /\ t'[locked[m]].other = m
    BY <1>1, <2>5 DEF AllocInv
  <2>7. \A m \in Leaves : layer[m] # None /\ (~Linked(m) \/ m \in deleted) =>
          locked[m] # None /\ t'[locked[m]].pc \in UnlinkPc /\ t'[locked[m]].node = m
    BY <1>1, <2>5 DEF AllocInv
  <2>8. \A m \in Leaves : Alloc(m) /\ m \notin deleted => \E l \in layers : In(m, l)
    BY <1>1 DEF AllocInv
  <2>9. \A m \in Leaves : layer[m] # None => layer[m] \in layers
    BY <1>1 DEF AllocInv
  <2>10. QED
    BY <1>2, <2>2, <2>3, <2>4, <2>6, <2>7, <2>8, <2>9 DEF AllocInv
<1>7. LeafFrame(p)
  BY <1>1, <1>2, <1>3 DEF LeafFrame
<1>8. ListFrame(p)
  BY <1>2 DEF ListFrame
<1>9. LayerFrame(p)
  BY <1>4 DEF LayerFrame
<1>10. LockedFrame(p)
  <2>1. Confined(p)
    BY <1>1 DEF Confined
  <2>2. NodeKept(p)
    BY DEF NodeKept
  <2>3. QED
    BY <1>1, <2>1, <2>2, ConfinedFrame
<1>11. Frame(p)
  BY <1>7, <1>8, <1>9, <1>10 DEF Frame
<1>12. ThreadInv'
  BY <1>5, <1>6, <1>11, ThreadInvStep
<1>13. DeadInv'
  BY <1>1 DEF IInv, StoreInv, DeadInv
<1>14. QED
  BY <1>5, <1>6, <1>12, <1>13 DEF IInv, StoreInv

Hit(c, e) == e.ikey = Ikey(c) /\ (HasSuffix(c) <=> e.kind # "plain")
OneKey(c, e) == e.kind # "layer" /\ (HasSuffix(c) => e.kind = "ksuf" /\ e.suf = c.key[2])

(* The entries T follow S by a change of what the leaf says of the key, to v. *)
Edited(c, S, T, v) ==
  /\ \A e \in T : e.kind \in {"plain", "ksuf", "layer"}
  /\ \A e : ~Hit(c, e) => (e \in T <=> e \in S)
  /\ \A e \in T \cup S : Hit(c, e) => OneKey(c, e)
  /\ \A e \in T : Hit(c, e) => e.lv = v /\ v # 0
  /\ (\A e \in T : ~Hit(c, e)) => v = 0

(* A step that changes what the thread's leaf says of the thread's key.    *)
LEMMA PointStep ==
  ASSUME IInv, TypeOK', NEW p \in Procs, NEW c \in Thread, c = t[p], c.pc \in LockPc, c.pc \notin MidPc, KeyOK(c),
         HomeOK(c), c.op # "gc", NEW n \in Leaves, n = c.node,
         UNCHANGED <<locked, deleted, layer, low, next, prev, layers>>,
         \A m \in Leaves : Splitting(m)' <=> Splitting(m),
         \A m \in Leaves : m # n => Entries(m)' = Entries(m),
         NEW T, T = Entries(n)', NEW v \in Int \cup Layers, Edited(c, Entries(n), T, v),
         db' = [db EXCEPT ![c.key] = v]
  PROVE  /\ LeafInv' /\ DbInv' /\ AttachInv'
         /\ \A l, a : Attached(l, a)' <=> Attached(l, a)
         /\ \A m \in Leaves : \A l : In(m, l)' <=> In(m, l)
         /\ \A m \in Leaves : \A x : Covers(m, x)' <=> Covers(m, x)
         /\ \A m \in Leaves : \A x : Below(m, x)' <=> Below(m, x)
<1>0. /\ \A e \in T : e.kind \in {"plain", "ksuf", "layer"}
      /\ \A e : ~Hit(c, e) => (e \in T <=> e \in Entries(n))
      /\ \A e \in T \cup Entries(n) : Hit(c, e) => OneKey(c, e)
      /\ \A e \in T : Hit(c, e) => e.lv = v /\ v # 0
      /\ (\A e \in T : ~Hit(c, e)) => v = 0
  BY DEF Edited
<1> USE <1>0
<1>1. /\ TypeOK /\ locked[n] = p /\ modstate[n] # "deleted_layer" /\ c.key \in Keys
      /\ \A l \in layers : l \in Layers
      /\ db \in [Keys -> Int \cup Layers] /\ RootLayer \in layers
  BY LockMine DEF KeyOK, TypeOK, LeafTypeOK
<1>2. /\ \A m \in Leaves : \A l : In(m, l)' <=> In(m, l)
      /\ \A m \in Leaves : Hi(m)' = Hi(m)
      /\ \A m \in Leaves : \A x : Covers(m, x)' <=> Covers(m, x)
      /\ \A m \in Leaves : \A x : Below(m, x)' <=> Below(m, x)
  BY DEF Linked, In, Hi, Covers, Below
<1>3. PICK l0 \in layers : l0 = layer[n] /\ In(n, l0) /\ l0 \in Layers
  BY <1>1 DEF HomeOK
<1>4. /\ Ikey(c) \in Nat /\ c.key[1] \in Nat
      /\ HasSuffix(c) <=> c.depth = 1 /\ Len(c.key) = 2
      /\ Len(c.key) = 2 => c.key[2] \in Nat
      /\ c.depth = 1 \/ (c.depth = 2 /\ Len(c.key) = 2)
      /\ Ikey(c) = c.key[c.depth]
  BY IkeyType
<1>5. c.key \in Seq(Nat) /\ Len(c.key) \in 1..2
  BY ThreadType DEF KeyOK
<1>6. Covers(n, Ikey(c))
  BY DEF HomeOK
<1>7. /\ c.depth = 1 => l0 = RootLayer
      /\ c.depth = 2 => l0 # RootLayer /\ Attached(l0, c.key[1])
  <2>1. /\ c.depth = 1 => l0 = RootLayer
        /\ c.depth = 2 => Attached(l0, c.key[1])
    BY <1>3 DEF HomeOK, Level
  <2>2. QED
    BY <1>3, <1>4, <2>1, AttachedAt
<1>8. \A m \in Leaves : In(m, l0) /\ Covers(m, Ikey(c)) => m = n
  BY <1>1, <1>3, <1>4, <1>6, SoleLeaf
<1>9. \A e : e.kind = "layer" => (e \in T <=> e \in Entries(n))
  BY DEF OneKey
<1>10. \A l, a : Attached(l, a)' <=> Attached(l, a)
  <2>1. ASSUME NEW m \in Leaves, NEW e, e.kind = "layer" PROVE e \in Entries(m)' <=> e \in Entries(m)
    BY <1>9, <2>1
  <2>2. ASSUME NEW l, NEW a, NEW m \in Leaves
        PROVE  (\E e \in Entries(m)' : IsLayer(e, l, a)) <=> (\E e \in Entries(m) : IsLayer(e, l, a))
    BY <2>1 DEF IsLayer
  <2>3. QED
    BY <1>2, <2>2 DEF Attached, IsLayer
<1>11. LeafInv'
  <2>1. SUFFICES ASSUME NEW l \in layers, NEW m \in Leaves, In(m, l), NEW e \in Entries(m)'
                 PROVE  /\ Covers(m, e.ikey)
                        /\ e.kind # "layer" => e.lv # 0
                        /\ l # RootLayer => e.kind = "plain"
                        /\ e.kind = "layer" => e.lv \in layers \ {RootLayer}
    BY <1>2 DEF LeafInv
  <2>2. CASE e \in Entries(m)
    BY <2>1, <2>2 DEF IInv, StoreInv, LeafInv
  <2>3. CASE e \notin Entries(m)
    <3>1. m = n /\ e \in T /\ Hit(c, e)
      BY <2>1, <2>3
    <3>2. OneKey(c, e) /\ e.lv = v /\ v # 0 /\ e.ikey = Ikey(c) /\ (HasSuffix(c) <=> e.kind # "plain")
      BY <3>1 DEF Hit
    <3>3. l = l0
      BY <1>1, <1>3, <2>1, <3>1, InUnique
    <3>4. l # RootLayer => ~HasSuffix(c)
      BY <1>4, <1>7, <3>3
    <3>5. QED
      BY <1>6, <3>1, <3>2, <3>4 DEF OneKey
  <2>4. QED
    BY <2>2, <2>3
<1>12. ASSUME NEW k \in Keys, k # c.key PROVE db'[k] = db[k]
  BY <1>1, <1>12
<1>13. db'[c.key] = v
  BY <1>1
<1>14. ASSUME NEW k \in Keys, NEW m \in Leaves, In(m, RootLayer), Covers(m, k[1])
       PROVE  /\ Len(k) = 1 => PlainSays(m, k[1], k)'
              /\ Len(k) = 2 => SufSays(m, k)'
  <2>1. /\ Len(k) = 1 => PlainSays(m, k[1], k)
        /\ Len(k) = 2 => SufSays(m, k)
    BY <1>14 DEF IInv, StoreInv, DbInv
  <2>2. k \in Seq(Nat) /\ Len(k) \in 1..2 /\ k[1] \in Nat
    BY KeyFacts
  <2>3. CASE m # n /\ k # c.key
    <3>1. Entries(m)' = Entries(m) /\ db'[k] = db[k]
      BY <1>12, <2>3
    <3>2. QED
      BY <2>1, <3>1 DEF PlainSays, SufSays
  <2>4. CASE m # n /\ k = c.key
    <3>1. c.depth # 1
      BY <1>4, <1>7, <1>8, <1>14, <2>4
    <3>2. c.depth = 2 /\ Len(k) = 2
      BY <1>4, <2>4, <3>1
    <3>3. PICK e \in Entries(m) : IsLayer(e, l0, k[1])
      BY <1>3, <1>7, <1>14, <2>2, <2>4, <3>2, AttachedAt
    <3>4. \A f \in Entries(m) : f.ikey = k[1] /\ f.kind # "plain" => f = e
      BY <3>3, EntryUnique DEF IsLayer
    <3>5. Entries(m)' = Entries(m)
      BY <2>4
    <3>6. \A f \in Entries(m) : f.ikey = k[1] => f.kind # "ksuf"
      BY <3>3, <3>4 DEF IsLayer
    <3>7. e.ikey = k[1] /\ e.kind # "plain"
      BY <3>3 DEF IsLayer
    <3>8. SufSays(m, k)'
      BY <3>5, <3>6, <3>7 DEF SufSays
    <3>9. QED
      BY <3>2, <3>8
  <2>5. CASE m = n
    <3>1. l0 = RootLayer /\ c.depth = 1
      BY <1>1, <1>3, <1>4, <1>7, <1>14, <2>5, InUnique
    <3>2. Ikey(c) = c.key[1] /\ (HasSuffix(c) <=> Len(c.key) = 2)
      BY <1>4, <3>1
    <3>3. CASE k # c.key /\ ~(k[1] = c.key[1] /\ Len(k) = Len(c.key))
      <4>1. \A e : e.ikey = k[1] /\ (Len(k) = 2 <=> e.kind # "plain") => (e \in T <=> e \in Entries(n))
        BY <1>5, <2>2, <3>2, <3>3 DEF Hit
      <4>2. db'[k] = db[k]
        BY <1>12, <3>3
      <4>3. CASE Len(k) = 1
        <5>1. \A e : e.ikey = k[1] /\ e.kind = "plain" => (e \in T <=> e \in Entries(n))
          BY <4>1, <4>3
        <5>2. PlainSays(n, k[1], k)
          BY <2>1, <2>5, <4>3
        <5>3. PlainSays(n, k[1], k)'
          BY <4>2, <5>1, <5>2 DEF PlainSays
        <5>4. QED
          BY <2>5, <4>3, <5>3
      <4>4. CASE Len(k) = 2
        <5>1. \A e : e.ikey = k[1] /\ e.kind # "plain" => (e \in T <=> e \in Entries(n))
          BY <4>1, <4>4
        <5>2. SufSays(n, k)
          BY <2>1, <2>5, <4>4
        <5>3. SufSays(n, k)'
          BY <4>2, <5>1, <5>2 DEF SufSays
        <5>4. QED
          BY <2>5, <4>4, <5>3
      <4>5. QED
        BY <2>2, <4>3, <4>4
    <3>4. CASE k = c.key /\ Len(k) = 1
      <4>1. \A e \in T : e.ikey = k[1] /\ e.kind = "plain" <=> Hit(c, e)
        BY <3>2, <3>4 DEF Hit
      <4>2. PlainSays(n, k[1], k)'
        BY <1>13, <3>4, <4>1 DEF PlainSays
      <4>3. QED
        BY <2>5, <3>4, <4>2
    <3>5. CASE k = c.key /\ Len(k) = 2
      <4>1. \A e \in T : e.ikey = k[1] /\ e.kind # "plain" <=> Hit(c, e)
        BY <3>2, <3>5 DEF Hit
      <4>2. \A e \in T : Hit(c, e) => e.suf = k[2]
        BY <3>2, <3>5 DEF OneKey
      <4>3. \A e \in T : Hit(c, e) => e.lv = v
        OBVIOUS
      <4>4. SufSays(n, k)'
        BY <1>13, <3>5, <4>1, <4>2, <4>3 DEF SufSays
      <4>5. QED
        BY <2>5, <3>5, <4>4
    <3>6. CASE k # c.key /\ k[1] = c.key[1] /\ Len(k) = Len(c.key)
      <4>1. Len(k) = 2 /\ k[2] # c.key[2]
        BY <1>5, <2>2, <3>6, KeyEqual
      <4>2. HasSuffix(c)
        BY <3>2, <3>6, <4>1
      <4>3. \A e \in T \cup Entries(n) : e.ikey = k[1] /\ e.kind # "plain" => e.kind = "ksuf" /\ e.suf # k[2]
        BY <3>2, <3>6, <4>1, <4>2 DEF Hit, OneKey
      <4>4. db[k] = 0
        <5>1. SufSays(n, k)
          BY <2>1, <2>5, <4>1
        <5>2. CASE \E e \in Entries(n) : e.ikey = k[1] /\ e.kind # "plain"
          BY <4>3, <5>1, <5>2 DEF SufSays
        <5>3. CASE \A e \in Entries(n) : ~(e.ikey = k[1] /\ e.kind # "plain")
          BY <5>1, <5>3 DEF SufSays
        <5>4. QED
          BY <5>2, <5>3
      <4>5. db'[k] = 0
        BY <1>12, <3>6, <4>4
      <4>6. \A e \in T : e.ikey = k[1] /\ e.kind = "ksuf" => e.suf # k[2]
        BY <4>3
      <4>7. SufSays(n, k)'
        BY <4>5, <4>6 DEF SufSays
      <4>8. QED
        BY <2>5, <4>1, <4>7
    <3>7. QED
      BY <1>5, <2>2, <3>3, <3>4, <3>5, <3>6
  <2>6. QED
    BY <2>3, <2>4, <2>5
<1>15. ASSUME NEW k \in Keys, NEW l \in layers, Len(k) = 2, Attached(l, k[1]),
              NEW m \in Leaves, In(m, l), Covers(m, k[2])
       PROVE  PlainSays(m, k[2], k)'
  <2>1. PlainSays(m, k[2], k)
    BY <1>15 DEF IInv, StoreInv, DbInv
  <2>2. k \in Seq(Nat) /\ k[1] \in Nat /\ k[2] \in Nat /\ l \in Layers
    BY <1>1, <1>15, KeyFacts
  <2>3. l # RootLayer
    BY <1>15, <2>2, AttachedAt
  <2>4. k = c.key => c.depth = 2 /\ l = l0
    <3>1. SUFFICES ASSUME k = c.key PROVE c.depth = 2 /\ l = l0
      OBVIOUS
    <3>2. c.depth # 1
      <4>1. SUFFICES ASSUME c.depth = 1 PROVE FALSE
        OBVIOUS
      <4>2. HasSuffix(c) /\ l0 = RootLayer /\ Ikey(c) = k[1]
        BY <1>4, <1>7, <1>15, <3>1, <4>1
      <4>3. PICK e \in Entries(n) : IsLayer(e, l, k[1])
        BY <1>3, <1>6, <1>15, <2>2, <4>2, AttachedAt
      <4>4. Hit(c, e) /\ ~OneKey(c, e)
        BY <4>2, <4>3 DEF Hit, OneKey, IsLayer
      <4>5. QED
        BY <4>4
    <3>3. c.depth = 2
      BY <1>4, <3>2
    <3>4. QED
      BY <1>3, <1>7, <1>15, <2>2, <3>1, <3>3, AttachedUnique
  <2>5. CASE m # n
    <3>1. k # c.key
      <4>1. SUFFICES ASSUME k = c.key PROVE FALSE
        OBVIOUS
      <4>2. Ikey(c) = k[2]
        BY <1>4, <2>4, <4>1
      <4>3. QED
        BY <1>8, <1>15, <2>4, <2>5, <4>1, <4>2
    <3>2. Entries(m)' = Entries(m) /\ db'[k] = db[k]
      BY <1>12, <2>5, <3>1
    <3>3. QED
      BY <2>1, <3>2 DEF PlainSays
  <2>6. CASE m = n
    <3>1. l = l0
      BY <1>1, <1>3, <1>15, <2>2, <2>6, InUnique
    <3>2. c.depth = 2
      BY <1>4, <1>7, <2>3, <3>1
    <3>3. c.key[1] = k[1] /\ Ikey(c) = c.key[2] /\ Len(c.key) = 2 /\ ~HasSuffix(c)
      BY <1>4, <1>7, <1>15, <2>2, <3>1, <3>2 DEF IInv, StoreInv, AttachInv
    <3>4. CASE k[2] = c.key[2]
      <4>1. k = c.key
        BY <1>5, <1>15, <2>2, <3>3, <3>4, KeyEqual
      <4>2. \A e \in T : e.ikey = k[2] /\ e.kind = "plain" <=> Hit(c, e)
        BY <3>3, <3>4 DEF Hit
      <4>3. PlainSays(n, k[2], k)'
        BY <1>13, <4>1, <4>2 DEF PlainSays
      <4>4. QED
        BY <2>6, <4>3
    <3>5. CASE k[2] # c.key[2]
      <4>1. \A e : e.ikey = k[2] => (e \in T <=> e \in Entries(n))
        BY <3>3, <3>5 DEF Hit
      <4>2. k # c.key
        BY <3>5
      <4>3. db'[k] = db[k] /\ PlainSays(n, k[2], k)
        BY <1>12, <2>1, <2>6, <4>2
      <4>4. PlainSays(n, k[2], k)'
        BY <4>1, <4>3 DEF PlainSays
      <4>5. QED
        BY <2>6, <4>4
    <3>6. QED
      BY <3>4, <3>5
  <2>7. QED
    BY <2>5, <2>6
<1>16. DbInv'
  BY <1>2, <1>10, <1>14, <1>15 DEF DbInv
<1>17. AttachInv'
  BY <1>10 DEF IInv, StoreInv, AttachInv
<1>18. QED
  BY <1>2, <1>10, <1>11, <1>16, <1>17

TellPc == {"found", "publish", "remove"}

LEMMA TellPcs ==
  /\ TellPc \subseteq LockPc /\ TellPc \cap (MidPc \cup TurnPc \cup UnlinkPc \cup OtherPc) = {}
  /\ TellPc \cap (DeletePc \cup {"unlock", "gc_lock", "split_tree"}) = {}
  /\ \A u \in {"unlock", "delete"} : /\ u \in LockPc /\ u \in Pcs /\ u \notin MidPc /\ u \notin TurnPc
                                     /\ u \notin UnlinkPc /\ u \notin OtherPc
                                     /\ u \notin AssignPc \cup StorePc /\ u \notin LayerPc
                                     /\ u \notin {"found", "remove", "gc_lock"} /\ u \in DeletePc \cup {"unlock"}
BY DEF TellPc, LockPc, MidPc, TurnPc, UnlinkPc, AssignPc, StorePc, LayerPc, DeletePc, OtherPc, Pcs

Filled(pm, f) == {f[pm.slot[i]] : i \in Index(pm)}

LEMMA EntriesNow ==
  ASSUME NEW n, \A s : Ent(n, s) = slot[n][s]
  PROVE  Entries(n) = Filled(perm[n], slot[n])
BY DEF Entries, Index, Filled

LEMMA EntriesNext ==
  ASSUME NEW n, locked'[n] = None \/ t'[locked'[n]].node # n \/ t'[locked'[n]].pc \notin TurnPc
  PROVE  Entries(n)' = Filled(perm'[n], slot'[n])
<1>1. ASSUME NEW i PROVE Ent(n, perm[n].slot[i])' = slot'[n][perm'[n].slot[i]]
  BY DEF Ent, Turning
<1>2. QED
  BY <1>1 DEF Entries, Index, Filled

(* A thread that stores, publishes or removes the value of its key.        *)
Tells(p, c, n, v, u) ==
  /\ c = t[p]
  /\ c.pc \in TellPc
  /\ c.op # "gc"
  /\ n = c.node
  /\ t' = [Told(c.key, v) EXCEPT ![p].pc = u]
  /\ db' = [db EXCEPT ![c.key] = v]
  /\ slot' \in [Leaves -> [Slots -> Slot]]
  /\ perm' \in [Leaves -> Permuters]
  /\ gcs' \subseteq Nat
  /\ \A m \in Leaves : m # n => slot'[m] = slot[m] /\ perm'[m] = perm[m]
  /\ UNCHANGED <<modstate, locked, dirty, deleted, layer, low, next, prev, layers, scene, ops>>
  /\ Edited(c, Entries(n), Filled(perm'[n], slot'[n]), v)
  /\ slot'[n][0].ikey = slot[n][0].ikey
  /\ Injective(perm'[n])
  /\ SortedBy(n, perm[n])'
  /\ perm'[n].size = 0 => Ikey(c) = slot'[n][perm'[n].slot[0]].ikey
  /\ ReadFrame(p)
  /\ u = "unlock" => perm'[n].size > 0 \/ modstate[n] # "insert" \/ n \notin dirty
  /\ u = "delete" => perm'[n].size = 0 /\ prev[n] # None /\ modstate[n] = "remove"

LEMMA TellStep ==
  ASSUME IInv, NEW p \in Procs, NEW c \in Thread, NEW n \in Leaves, NEW v \in Int \cup Layers, NEW u \in {"unlock", "delete"},
         Tells(p, c, n, v, u)
  PROVE  IInv'
<1>a. /\ c = t[p]
      /\ c.pc \in TellPc
      /\ c.op # "gc"
      /\ n = c.node
  BY DEF Tells
<1>t. t' = [Told(c.key, v) EXCEPT ![p].pc = u]
  BY DEF Tells
<1>d. db' = [db EXCEPT ![c.key] = v]
  BY DEF Tells
<1>s. /\ slot' \in [Leaves -> [Slots -> Slot]]
      /\ perm' \in [Leaves -> Permuters]
      /\ gcs' \subseteq Nat
      /\ (\A m \in Leaves : m # n => slot'[m] = slot[m] /\ perm'[m] = perm[m])
  BY DEF Tells
<1>u. UNCHANGED <<modstate, locked, dirty, deleted, layer, low, next, prev, layers, scene, ops>>
  BY DEF Tells
<1>e. Edited(c, Entries(n), Filled(perm'[n], slot'[n]), v)
  BY DEF Tells
<1>k. /\ slot'[n][0].ikey = slot[n][0].ikey
      /\ Injective(perm'[n])
      /\ SortedBy(n, perm[n])'
      /\ (perm'[n].size = 0 => Ikey(c) = slot'[n][perm'[n].slot[0]].ikey)
      /\ ReadFrame(p)
  BY DEF Tells
<1>o. /\ (u = "unlock" => perm'[n].size > 0 \/ modstate[n] # "insert" \/ n \notin dirty)
      /\ (u = "delete" => perm'[n].size = 0 /\ prev[n] # None /\ modstate[n] = "remove")
  BY DEF Tells
<1>1. /\ TypeOK /\ t \in [Procs -> Thread] /\ KeyOK(c) /\ LockOK(c) /\ c.op # "get"
      /\ locked[n] = p /\ Alloc(n) /\ c.other = None
      /\ modstate[n] # "deleted_layer" /\ c.key \in Keys
  BY <1>a, LockMine, TellPcs DEF KeyOK
<1>2. HomeOK(c) /\ n \notin deleted /\ c.pc \in LockPc /\ c.pc \notin MidPc /\ c.pc \notin TurnPc
      /\ c.pc \notin {"gc_lock", "split_tree"} \cup UnlinkPc
  BY <1>a, <1>1, TellPcs DEF LockOK
<1>3. Told(c.key, v) \in [Procs -> Thread] /\ Told(c.key, v)[p] = c
  <2>1. Told(c.key, v)[p] = c
    BY <1>a, <1>1 DEF Told
  <2>2. ASSUME NEW q \in Procs PROVE Told(c.key, v)[q] \in Thread
    <3>1. t[q] \in Thread
      BY <1>1
    <3>2. [t[q] EXCEPT !.may = @ \cup {v}] \in Thread
      BY <3>1 DEF Thread
    <3>3. QED
      BY <3>1, <3>2 DEF Told
  <2>3. QED
    BY <2>1, <2>2 DEF Told
<1>4. PICK d \in Thread : d = [c EXCEPT !.pc = u]
  BY ThreadPc, TellPcs
<1>5. SameLock(c, d) /\ d.pc = u /\ d.i = c.i /\ d.p = c.p /\ d.other = c.other /\ d.held = c.held /\ d.state = c.state
  BY <1>4 DEF Thread, SameLock
<1>6. t' = [Told(c.key, v) EXCEPT ![p] = d]
  BY <1>t, <1>3, <1>4
<1>7. t'[p] = d /\ t' \in [Procs -> Thread] /\ \A q \in Procs \ {p} : t'[q] = Told(c.key, v)[q]
  BY <1>3, <1>6
<1>8. ThreadFrame(p)
  BY <1>d, <1>u, <1>1, <1>7, ToldFrame
<1>9. TypeOK'
  <2>1. db' \in [Keys -> Int \cup Layers]
    BY <1>d, <1>u, <1>1 DEF TypeOK
  <2>2. QED
    BY <1>s, <1>u, <1>1, <1>7, <2>1 DEF TypeOK, LeafTypeOK
<1>10. d.node = n /\ d.key = c.key /\ d.op = c.op /\ d.depth = c.depth
  BY <1>a, <1>5 DEF SameLock
<1>11. LockInv' /\ LocksFrame(p)
  <2>1. /\ t[p].pc \in LockPc /\ t'[p].pc \in LockPc /\ t[p].pc # "gc_lock" /\ t'[p].pc # "gc_lock"
        /\ t'[p].node = t[p].node /\ t'[p].other = t[p].other /\ t'[p].held = t[p].held
    BY <1>a, <1>2, <1>5, <1>7, <1>10, TellPcs
  <2>2. QED
    BY <1>u, <1>8, <1>9, <2>1, KeepLocks
<1>12. t[p].pc \notin MidPc /\ t'[p].pc \notin MidPc /\ t[p].pc \notin TurnPc /\ t'[p].pc \notin TurnPc
  BY <1>a, <1>2, <1>5, <1>7, TellPcs
<1>13. \A m \in Leaves : Splitting(m)' <=> Splitting(m)
  BY <1>1, <1>8, <1>9, <1>11, <1>12, SplittingSame
<1>14. ASSUME NEW m \in Leaves, m # n PROVE Entries(m)' = Entries(m)
  BY <1>s, <1>u, <1>8, <1>9, <1>11, <1>12, <1>14, EntriesSame
<1>15. PICK T : T = Entries(n)' /\ Edited(c, Entries(n), T, v)
  <2>1. Entries(n)' = Filled(perm'[n], slot'[n])
    BY <1>u, <1>1, <1>12, EntriesNext
  <2>2. QED
    BY <1>e, <1>k, <2>1
<1>17. /\ LeafInv' /\ DbInv' /\ AttachInv'
       /\ \A l, a : Attached(l, a)' <=> Attached(l, a)
       /\ \A m \in Leaves : \A l : In(m, l)' <=> In(m, l)
       /\ \A m \in Leaves : \A x : Covers(m, x)' <=> Covers(m, x)
       /\ \A m \in Leaves : \A x : Below(m, x)' <=> Below(m, x)
  <2>1. \A m \in Leaves : m # n => Entries(m)' = Entries(m)
    BY <1>14
  <2>2. UNCHANGED <<locked, deleted, layer, low, next, prev, layers>>
    BY <1>u
  <2>3. QED
    BY <1>a, <1>d, <1>1, <1>2, <1>9, <1>13, <1>15, <2>1, <2>2, PointStep
<1>18. BoundInv'
  BY <1>a, <1>s, <1>u, <1>k DEF IInv, StoreInv, BoundInv
<1>19. SortInv'
  <2>1. ASSUME NEW m \in Leaves PROVE Injective(perm'[m]) /\ SortedBy(m, perm[m])'
    <3>1. Injective(perm[m]) /\ SortedBy(m, perm[m])
      BY DEF IInv, StoreInv, SortInv
    <3>2. CASE m # n
      BY <1>s, <3>1, <3>2 DEF SortedBy
    <3>3. QED
      BY <1>e, <1>k, <3>2
  <2>2. QED
    BY <2>1 DEF SortInv, Injective
<1>20. LeftInv'
  <2>1. SUFFICES ASSUME NEW l \in layers, NEW m \in Leaves, In(m, l), perm'[m].size = 0,
                        ~(m \in dirty /\ modstate[m] = "insert")
                 PROVE  Below(m, At(m, 0).ikey)'
    BY <1>u, <1>17 DEF LeftInv
  <2>2. CASE m # n
    <3>1. perm[m].size = 0 /\ At(m, 0)' = At(m, 0)
      BY <1>s, <2>1, <2>2 DEF At
    <3>2. Below(m, At(m, 0).ikey)
      BY <2>1, <3>1 DEF IInv, StoreInv, LeftInv
    <3>3. PICK x : x = At(m, 0).ikey
      OBVIOUS
    <3>4. Below(m, x)'
      BY <1>17, <3>2, <3>3
    <3>5. QED
      BY <3>1, <3>3, <3>4
  <2>3. CASE m = n
    <3>1. At(n, 0)'.ikey = Ikey(c)
      BY <1>e, <1>k, <2>1, <2>3 DEF At
    <3>2. Below(n, Ikey(c))
      BY <1>a, <1>2 DEF HomeOK, Covers
    <3>3. PICK x : x = Ikey(c)
      OBVIOUS
    <3>4. Below(n, x)'
      BY <1>17, <3>2, <3>3
    <3>5. QED
      BY <2>3, <3>1, <3>3, <3>4
  <2>4. QED
    BY <2>2, <2>3
<1>21. ThreadOK(t[p])'
  <2>1. KeyOK(d)
    BY <1>1, <1>5, TellPcs, LockKey
  <2>2. KeyOK(d)'
    BY <1>1, <1>10, <2>1 DEF KeyOK
  <2>3. d.pc = "unlock" => UnlockOK(d)'
    BY <1>o, <1>u, <1>5, <1>10 DEF UnlockOK
  <2>4. layer[n] \in layers /\ Linked(n) /\ layer[n] # None
    BY <1>a, <1>1, <1>2, ConstantFacts DEF HomeOK, In, TypeOK, LeafTypeOK
  <2>5. d.pc = "delete" => DeleteOK(d)'
    BY <1>o, <1>u, <1>5, <1>10, <2>4 DEF DeleteOK, Linked
  <2>6. LockOK(d)'
    <3>1. d.pc \in DeletePc => d.pc = "delete"
      BY <1>5 DEF DeletePc
    <3>2. QED
      BY <1>5, <2>3, <2>5, <3>1, TellPcs DEF LockOK
  <2>7. ThreadOK(d)'
    BY <1>1, <1>5, <2>2, <2>6, TellPcs, HolderOK
  <2>8. QED
    BY <1>7, <2>7
<1>22. \A m \in Leaves : m # t[p].node => slot'[m] = slot[m] /\ perm'[m] = perm[m]
  BY <1>a, <1>s, <1>u
<1>23. t'[p].node \in Leaves /\ locked[t'[p].node] = p /\ t'[p].other = None
  <2>1. t'[p] = d /\ d.node = n /\ d.other = None /\ locked[n] = p
    BY <1>1, <1>5, <1>7, <1>10
  <2>2. QED
    BY <2>1, Zenon
<1>24. QED
  <2>1. \A m \in Leaves : \A l \in layers : In(m, l) => \A x \in Nat : Covers(m, x) =>
          \/ Covers(m, x)'
          \/ locked[m] = p /\ \A q \in Procs \ {p} : t[q].node = m => t[q].held = "split"
    BY <1>17
  <2>2. \A l \in layers : \A a \in Nat : Attached(l, a) => Attached(l, a)'
    BY <1>17
  <2>3. UNCHANGED <<modstate, locked, dirty, deleted, layer, low, next, prev, layers>>
    BY <1>u
  <2>4. t[p].pc \in LockPc /\ t[p].pc \notin {"gc_lock", "split_tree"} \cup UnlinkPc /\ ReadFrame(p)
    BY <1>a, <1>k, <1>2
  <2>5. LockInv' /\ LeafInv' /\ DbInv' /\ AttachInv'
    BY <1>11, <1>17
  <2>6. QED
    BY <1>8, <1>9, <1>18, <1>19, <1>20, <1>21, <1>22, <1>23, <2>1, <2>2, <2>3, <2>4, <2>5, EditStep

LEMMA HitFacts ==
  ASSUME NEW c \in Thread, KeyOK(c), NEW e \in Slot
  PROVE  /\ Hit(c, e) <=> Compare(c, e) = 0
         /\ Hit(c, e) => (OneKey(c, e) <=> KsufMatches(c, e) = 1)
         /\ SlotIs(c, e) => Hit(c, e) /\ OneKey(c, e)
<1>1. HasSuffix(c) => c.depth = 1 /\ c.key[c.depth + 1] = c.key[2]
  BY IkeyType
<1>2. Hit(c, e) <=> Compare(c, e) = 0
  BY CompareFacts DEF Hit
<1>3. Hit(c, e) => (OneKey(c, e) <=> KsufMatches(c, e) = 1)
  BY <1>1, MatchFacts, SlotType DEF Hit, OneKey
<1>4. SlotIs(c, e) => Hit(c, e) /\ OneKey(c, e)
  BY <1>1 DEF SlotIs, Hit, OneKey
<1>5. QED
  BY <1>2, <1>3, <1>4

LEMMA HitIndex ==
  ASSUME IInv, NEW c \in Thread, KeyOK(c), NEW n \in Leaves,
         NEW i \in Index(perm[n]), NEW j \in Index(perm[n]), Hit(c, At(n, i)), Hit(c, At(n, j))
  PROVE  i = j
<1>1. TypeOK /\ SortedBy(n, perm[n])
  BY DEF IInv, StoreInv, SortInv
<1>2. At(n, i) \in Slot /\ At(n, j) \in Slot
  BY <1>1, AtType
<1>3. Compare(c, At(n, i)) = 0 /\ Compare(c, At(n, j)) = 0
  BY <1>2, HitFacts
<1>4. i \in Int /\ j \in Int
  BY <1>1, LeafType, IndexType
<1>5. CASE i < j
  <2>1. Less(At(n, i), At(n, j))
    BY <1>1, <1>5 DEF SortedBy, At
  <2>2. QED
    BY <1>2, <1>3, <2>1, CompareMono
<1>6. CASE j < i
  <2>1. Less(At(n, j), At(n, i))
    BY <1>1, <1>6 DEF SortedBy, At
  <2>2. QED
    BY <1>2, <1>3, <2>1, CompareMono
<1>7. QED
  BY <1>4, <1>5, <1>6

LEMMA UpdateStep ==
  ASSUME IInv, NEW p \in Procs, Update(p)
  PROVE  IInv'
<1>1. PICK c \in Thread : c = t[p] /\ c.pc = "found" /\ c.op = "put" /\ c.state = 1
  BY Mine DEF Update
<1>2. /\ TypeOK /\ t \in [Procs -> Thread] /\ KeyOK(c) /\ HomeOK(c) /\ FoundOK(c) /\ c.node \in Leaves
      /\ c.other = None /\ locked[c.node] = p
  BY <1>1, FoundMine DEF IInv, StoreInv
<1>3. PICK n \in Leaves : n = c.node
  BY <1>2
<1>4. FoundAt(c) /\ n \notin dirty
  BY <1>1, <1>2, <1>3 DEF FoundOK
<1>5. PICK i0 \in Index(perm[n]) : i0 = c.i /\ c.p = perm[n].slot[i0]
  BY <1>3, <1>4 DEF FoundAt
<1>6. PICK f \in Slot : f = At(n, i0) /\ f = slot[n][c.p] /\ c.p \in Slots
  BY <1>2, <1>5, AtType DEF At
<1>7. Compare(c, f) = 0 /\ KsufMatches(c, f) = 1 /\ Hit(c, f) /\ OneKey(c, f) /\ f.kind # "layer"
  <2>1. Compare(c, f) = 0 /\ KsufMatches(c, f) = 1
    BY <1>1, <1>3, <1>4, <1>5, <1>6 DEF FoundAt
  <2>2. QED
    BY <1>2, <2>1, HitFacts DEF OneKey
<1>8. PICK v \in Int \cup Layers : v = c.val /\ v # 0
  BY <1>1, <1>2 DEF KeyOK
<1>9. PICK x \in Slot : x = [f EXCEPT !.lv = v]
  BY SlotLv
<1>10. x.ikey = f.ikey /\ x.kind = f.kind /\ x.suf = f.suf /\ x.lv = v
  BY <1>9 DEF Slot
<1>11. /\ slot' = [slot EXCEPT ![n] = [slot[n] EXCEPT ![c.p] = x]]
       /\ db' = [db EXCEPT ![c.key] = v]
       /\ t' = [Told(c.key, v) EXCEPT ![p].pc = "unlock"]
       /\ UNCHANGED <<perm, modstate, locked, dirty, deleted, layer, low, next, prev, layers, gcs, scene, ops>>
  BY <1>1, <1>3, <1>6, <1>8, <1>9 DEF Update
<1>12. slot \in [Leaves -> [Slots -> Slot]] /\ perm \in [Leaves -> Permuters] /\ gcs \subseteq Nat
  BY <1>2 DEF TypeOK, LeafTypeOK
<1>13. /\ slot' \in [Leaves -> [Slots -> Slot]] /\ slot'[n][c.p] = x
       /\ \A m \in Leaves : m # n => slot'[m] = slot[m]
       /\ \A r \in Slots : r # c.p => slot'[n][r] = slot[n][r]
  BY <1>6, <1>11, <1>12, OneSlot
<1>14. Hit(c, x) /\ OneKey(c, x)
  BY <1>7, <1>10 DEF Hit, OneKey
<1>15. Entries(n) = Filled(perm[n], slot[n])
  BY <1>4, CleanEnt, EntriesNow
<1>16. \A i \in Index(perm[n]) : perm[n].slot[i] \in Slots /\ slot[n][perm[n].slot[i]] \in Slot
                                 /\ (i # i0 => perm[n].slot[i] # c.p)
  <2>1. Injective(perm[n]) /\ Index(perm[n]) \subseteq Slots
    BY <1>12, PermuterType DEF IInv, StoreInv, SortInv
  <2>2. QED
    BY <1>2, <1>5, <1>12, <2>1, AtType DEF At, Injective
<1>17. Edited(c, Entries(n), Filled(perm'[n], slot'[n]), v)
  <2> DEFINE T == Filled(perm[n], slot'[n])
             S == Filled(perm[n], slot[n])
  <2>1. \A e \in T : e = x \/ \E i \in Index(perm[n]) : i # i0 /\ e = At(n, i)
    <3>1. SUFFICES ASSUME NEW i \in Index(perm[n]), i # i0 PROVE slot'[n][perm[n].slot[i]] = At(n, i)
      BY <1>5, <1>13 DEF Filled
    <3>2. QED
      BY <1>13, <1>16, <3>1 DEF At
  <2>2. x \in T /\ \A i \in Index(perm[n]) : i # i0 => At(n, i) \in T
    <3>1. \A i \in Index(perm[n]) : slot'[n][perm[n].slot[i]] \in T
      BY DEF Filled
    <3>2. \A i \in Index(perm[n]) : i # i0 => slot'[n][perm[n].slot[i]] = At(n, i)
      BY <1>13, <1>16 DEF At
    <3>3. QED
      BY <1>5, <1>13, <3>1, <3>2
  <2>3. (\A e \in S : \E i \in Index(perm[n]) : e = At(n, i)) /\ \A i \in Index(perm[n]) : At(n, i) \in S
    BY DEF Filled, At
  <2> HIDE DEF T, S
  <2>4. \A i \in Index(perm[n]) : At(n, i) \in Slot /\ (Hit(c, At(n, i)) => i = i0)
    <3>1. \A i \in Index(perm[n]) : At(n, i) \in Slot
      BY <1>16 DEF At
    <3>2. Hit(c, At(n, i0))
      BY <1>6, <1>7
    <3>3. QED
      BY <1>2, <3>1, <3>2, HitIndex
  <2>5. \A e \in T : e.kind \in {"plain", "ksuf", "layer"}
    BY <2>1, <2>4, SlotType
  <2>6. \A e : ~Hit(c, e) => (e \in T <=> e \in S)
    BY <1>6, <1>7, <1>14, <2>1, <2>2, <2>3, <2>4
  <2>7. \A e \in T \cup S : Hit(c, e) => OneKey(c, e)
    BY <1>6, <1>7, <1>14, <2>1, <2>3, <2>4
  <2>8. \A e \in T : Hit(c, e) => e.lv = v /\ v # 0
    BY <1>8, <1>10, <2>1, <2>4
  <2>9. ~(\A e \in T : ~Hit(c, e))
    BY <1>14, <2>2
  <2>10. Edited(c, S, T, v)
    BY <2>5, <2>6, <2>7, <2>8, <2>9 DEF Edited
  <2>11. QED
    BY <1>11, <1>15, <2>10 DEF T, S
<1>18. perm'[n].size > 0
  BY <1>5, <1>11, <1>12, PermuterType DEF Index
<1>19. \A r \in Slots : slot'[n][r].ikey = slot[n][r].ikey /\ slot'[n][r].kind = slot[n][r].kind /\ slot'[n][r].suf = slot[n][r].suf
  BY <1>6, <1>10, <1>13
<1>20. Injective(perm'[n]) /\ SortedBy(n, perm[n])'
  <2>1. Injective(perm[n]) /\ SortedBy(n, perm[n])
    BY DEF IInv, StoreInv, SortInv
  <2>2. ASSUME NEW i \in Index(perm[n]), NEW j \in Index(perm[n]), i < j
        PROVE  Less(slot'[n][perm[n].slot[i]], slot'[n][perm[n].slot[j]])
    <3>1. Less(slot[n][perm[n].slot[i]], slot[n][perm[n].slot[j]])
      BY <2>1, <2>2 DEF SortedBy
    <3>2. perm[n].slot[i] \in Slots /\ perm[n].slot[j] \in Slots
      BY <1>16
    <3>3. QED
      BY <1>19, <3>1, <3>2 DEF Less
  <2>3. SortedBy(n, perm[n])'
    BY <1>11, <2>2 DEF SortedBy
  <2>4. QED
    BY <1>11, <2>1, <2>3
<1>21. PICK k \in Keys : k = c.key
  BY <1>1, <1>2 DEF KeyOK
<1>22. ReadFrame(p)
  <2>1. \A q \in Procs \ {p} : t'[q] = Told(k, v)[q]
    BY <1>11, <1>21 DEF Told
  <2>2. db' = [db EXCEPT ![k] = v]
    BY <1>11, <1>21
  <2>3. /\ ThreadFrame(p)
        /\ \A q \in Procs \ {p} : t[q].op = "get" /\ t[q].key = c.key => v \in t'[q].may
        /\ \A q \in Procs \ {p} : t'[q].held = t[q].held
    <3>1. /\ ThreadFrame(p)
          /\ \A q \in Procs \ {p} : t[q].op = "get" /\ t[q].key = k => v \in t'[q].may
          /\ \A q \in Procs \ {p} : t'[q].held = t[q].held
          /\ Told(k, v) \in [Procs -> Thread]
      BY <1>2, <2>1, <2>2, ToldFrame
    <3>2. QED
      BY <1>21, <3>1
  <2>4. SUFFICES ASSUME NEW q \in Procs \ {p}, t[q].pc \in ReadPc, t'[q].held = "same"
                 PROVE  /\ Regime(t[q]) => Regime(t[q])'
                        /\ \A j \in Index(t[q].perm) :
                             LET s == slot[t[q].node][t[q].perm.slot[j]]
                                 r == slot'[t[q].node][t[q].perm.slot[j]]
                             IN  /\ r.ikey = s.ikey /\ r.kind = s.kind /\ r.suf = s.suf
                                 /\ \/ r.lv = s.lv
                                    \/ s.kind # "layer" /\ (t[q].op = "get" /\ Compare(t[q], s) = 0
                                                            /\ KsufMatches(t[q], s) = 1 => r.lv \in t'[q].may)
    BY DEF ReadFrame
  <2>5. PICK d \in Thread : d = t[q] /\ d.node \in Leaves /\ d.pc \in ReadPc /\ d.held = "same"
    BY <2>3, <2>4, SearchMine, PcFacts
  <2>6. Regime(t[q])' <=> Regime(t[q])
    <3>1. /\ t'[q].node = d.node /\ t'[q].perm = d.perm /\ t'[q].perm0 = d.perm0
      <4>1. t'[q] = [d EXCEPT !.held = t'[q].held, !.may = t'[q].may]
        BY <2>3, <2>5 DEF ThreadFrame
      <4>2. QED
        BY <4>1 DEF Thread
    <3>2. QED
      BY <1>11, <2>5, <3>1 DEF Regime
  <2>7. ASSUME NEW j \in Index(d.perm)
        PROVE  LET s == slot[d.node][d.perm.slot[j]]
                   r == slot'[d.node][d.perm.slot[j]]
               IN  /\ r.ikey = s.ikey /\ r.kind = s.kind /\ r.suf = s.suf
                   /\ \/ r.lv = s.lv
                      \/ s.kind # "layer" /\ (d.op = "get" /\ Compare(d, s) = 0
                                              /\ KsufMatches(d, s) = 1 => r.lv \in t'[q].may)
    <3>1. PICK z \in Slots : z = d.perm.slot[j]
      BY <2>5, <2>7, ThreadType, PermuterType
    <3>2. CASE d.node # n \/ z # c.p
      BY <1>13, <2>5, <3>1, <3>2
    <3>3. CASE d.node = n /\ z = c.p
      <4>1. slot[d.node][z] = f /\ slot'[d.node][z] = x
        BY <1>6, <1>13, <3>3
      <4>2. d.op = "get" /\ Compare(d, f) = 0 /\ KsufMatches(d, f) = 1 => d.key = c.key
        BY <1>1, <1>2, <1>3, <1>7, <2>5, <3>3, SameKey, FoundPc
      <4>3. d.op = "get" /\ Compare(d, f) = 0 /\ KsufMatches(d, f) = 1 => x.lv \in t'[q].may
        BY <1>10, <2>3, <2>5, <4>2
      <4>4. QED
        BY <1>7, <1>10, <3>1, <4>1, <4>3
    <3>4. QED
      BY <3>2, <3>3
  <2>8. QED
    BY <2>5, <2>6, <2>7
<1>23. slot'[n][0].ikey = slot[n][0].ikey
  BY <1>19, WidthFacts
<1>24. PICK u \in {"unlock", "delete"} : u = "unlock"
  OBVIOUS
<1>25. c.pc \in TellPc /\ c.op # "gc"
  BY <1>1 DEF TellPc
<1>26. /\ t' = [Told(c.key, v) EXCEPT ![p].pc = u] /\ db' = [db EXCEPT ![c.key] = v]
       /\ Edited(c, Entries(n), Filled(perm'[n], slot'[n]), v)
       /\ u # "delete"
  BY <1>11, <1>17, <1>24
<1>27. /\ perm' \in [Leaves -> Permuters] /\ gcs' \subseteq Nat
       /\ \A m \in Leaves : m # n => slot'[m] = slot[m] /\ perm'[m] = perm[m]
       /\ UNCHANGED <<modstate, locked, dirty, deleted, layer, low, next, prev, layers, scene, ops>>
       /\ ~(perm'[n].size = 0)
  BY <1>11, <1>12, <1>13, <1>18
<1>28. Tells(p, c, n, v, u)
  BY <1>1, <1>3, <1>13, <1>18, <1>20, <1>22, <1>23, <1>25, <1>26, <1>27 DEF Tells
<1>29. QED
  BY <1>28, TellStep

(* What the others read survives if it only grows while inserts are made and only *)
(* shrinks while removes are made.                                         *)
LEMMA GrowFrame ==
  ASSUME TypeOK, TypeOK', NEW p \in Procs, ThreadFrame(p), slot' = slot, modstate' = modstate,
         \A q \in Procs \ {p} : t[q].pc \in ReadPc => t[q].node \in Leaves,
         \A m \in Leaves : \/ perm'[m] = perm[m]
                           \/ modstate[m] = "insert" /\ PermLe(perm[m], perm'[m])
                           \/ modstate[m] # "insert" /\ PermLe(perm'[m], perm[m])
  PROVE  ReadFrame(p)
<1>1. SUFFICES ASSUME NEW q \in Procs \ {p}, t[q].pc \in ReadPc, Regime(t[q]) PROVE Regime(t[q])'
  BY DEF ReadFrame
<1>2. PICK c, d \in Thread : c = t[q] /\ d = t'[q] /\ Later(c, d)
  BY <1>1, FrameThread
<1>3. /\ d.node = c.node /\ d.perm = c.perm /\ d.perm0 = c.perm0 /\ c.perm \in Permuters
      /\ c.node \in Leaves /\ perm[c.node] \in Permuters /\ perm'[c.node] \in Permuters
  BY <1>1, <1>2, ThreadType DEF Later, TypeOK, LeafTypeOK
<1>4. Regime(c)
  BY <1>1, <1>2
<1>5. Regime(d)'
  <2>1. CASE modstate[c.node] = "insert"
    <3>1. PermLe(c.perm0, c.perm) /\ PermLe(c.perm, perm[c.node])
      BY <1>4, <2>1 DEF Regime
    <3>2. PermLe(c.perm, perm'[c.node])
      BY <1>3, <2>1, <3>1, PermLeTransitive
    <3>3. QED
      BY <1>3, <2>1, <3>1, <3>2 DEF Regime
  <2>2. CASE modstate[c.node] # "insert"
    <3>1. PermLe(c.perm, c.perm0) /\ PermLe(perm[c.node], c.perm)
      BY <1>4, <2>2 DEF Regime
    <3>2. PermLe(perm'[c.node], c.perm)
      BY <1>3, <2>2, <3>1, PermLeTransitive
    <3>3. QED
      BY <1>3, <2>2, <3>1, <3>2 DEF Regime
  <2>3. QED
    BY <2>1, <2>2
<1>6. QED
  BY <1>2, <1>5

(* The order of the leaf with the new key at its position.                 *)
LEMMA NewLess ==
  ASSUME NEW c \in Thread, KeyOK(c), NEW x \in Slot, SlotIs(c, x), NEW s \in Slot
  PROVE  /\ Compare(c, s) = 1 => Less(s, x)
         /\ Compare(c, s) = -1 => Less(x, s)
<1>1. x.ikey = Ikey(c) /\ (x.kind = "plain" <=> ~HasSuffix(c))
  BY DEF SlotIs
<1>2. x.ikey \in Nat /\ s.ikey \in Nat
  BY SlotType
<1>3. QED
  BY <1>1, <1>2, CompareFacts DEF Less

LEMMA InsertIndex ==
  ASSUME NEW s \in Nat, NEW i \in 0..s, NEW j \in 0..s
  PROVE  /\ j < i => j \in 0..(s - 1)
         /\ j > i => j - 1 \in 0..(s - 1) /\ j - 1 >= i
         /\ j = i \/ j < i \/ j > i
OBVIOUS

LEMMA FinishInsertStep ==
  ASSUME IInv, NEW p \in Procs, FinishInsert(p)
  PROVE  IInv'
<1>1. PICK c \in Thread : c = t[p] /\ c.pc = "publish"
  BY Mine DEF FinishInsert
<1>2. /\ TypeOK /\ t \in [Procs -> Thread] /\ KeyOK(c) /\ NewOK(c)
      /\ c.node \in Leaves /\ c.p \in Slots /\ slot[c.node][c.p] \in Slot
      /\ perm[c.node] \in Permuters /\ Injective(perm[c.node])
      /\ locked[c.node] = p
  BY <1>1, FillMine, FillPcs
<1>3. PICK n \in Leaves : n = c.node
  BY <1>2
<1>4. PICK x \in Slot : x = slot[n][c.p] /\ SlotIs(c, x) /\ x.lv = c.val
  BY <1>1, <1>2, <1>3, FillPcs DEF NewOK
<1>5. PICK v \in Int \cup Layers : v = c.val /\ v # 0
  BY <1>2 DEF KeyOK, NewOK
<1>6. PICK k \in Keys : k = c.key
  BY <1>2 DEF KeyOK, NewOK
<1>7. PICK pm \in Permuters : pm = perm[n] /\ Injective(pm) /\ pm.size < Width /\ pm.size \in Nat /\ c.p = Back(pm)
  BY <1>2, <1>3, PermuterType DEF NewOK
<1>8. PICK i0 \in 0..pm.size : i0 = c.i
  BY <1>2, <1>3, <1>7 DEF NewOK, Position
<1>9. PICK new \in Permuters : /\ new = InsertFromBack(pm, i0) /\ Injective(new) /\ new.size = pm.size + 1
                               /\ PermLe(pm, new)
                               /\ \A j \in 0..pm.size :
                                    new.slot[j] = IF j < i0 THEN pm.slot[j] ELSE IF j = i0 THEN c.p ELSE pm.slot[j - 1]
  BY <1>7, InsertFromBackOK, PermLeInsert
<1>10. /\ perm' = [perm EXCEPT ![n] = new] /\ db' = [db EXCEPT ![k] = v]
       /\ t' = [Told(k, v) EXCEPT ![p].pc = "unlock"]
       /\ UNCHANGED <<slot, modstate, locked, dirty, deleted, layer, low, next, prev, layers, gcs, scene, ops>>
  BY <1>1, <1>3, <1>5, <1>6, <1>7, <1>8, <1>9 DEF FinishInsert
<1>11. /\ slot \in [Leaves -> [Slots -> Slot]] /\ perm \in [Leaves -> Permuters] /\ gcs \subseteq Nat
       /\ db \in [Keys -> Int \cup Layers]
  BY <1>2 DEF TypeOK, LeafTypeOK
<1>12. /\ perm' \in [Leaves -> Permuters] /\ perm'[n] = new
       /\ \A m \in Leaves : m # n => perm'[m] = perm[m]
  BY <1>10, <1>11
<1>13. /\ \A j \in 0..(pm.size - 1) : /\ At(n, j) = slot[n][pm.slot[j]] /\ At(n, j) \in Slot
                                      /\ j < i0 => Compare(c, At(n, j)) = 1
                                      /\ j >= i0 => Compare(c, At(n, j)) = -1
  <2>1. Position(c) /\ Index(perm[n]) = 0..(pm.size - 1)
    BY <1>2, <1>7 DEF NewOK, Index
  <2>2. \A j \in 0..(pm.size - 1) : At(n, j) \in Slot
    BY <1>2, <2>1, AtType
  <2>3. \A j \in 0..(pm.size - 1) : /\ j < i0 => Compare(c, At(n, j)) = 1
                                    /\ j >= i0 => Compare(c, At(n, j)) = -1
    BY <1>3, <1>8, <2>1 DEF Position
  <2>4. QED
    BY <1>7, <2>2, <2>3 DEF At
<1> DEFINE Is(j) == slot[n][new.slot[j]]
<1>14. \A j \in 0..pm.size : Is(j) = IF j < i0 THEN At(n, j) ELSE IF j = i0 THEN x ELSE At(n, j - 1)
  <2>1. SUFFICES ASSUME NEW j \in 0..pm.size
                 PROVE  Is(j) = IF j < i0 THEN At(n, j) ELSE IF j = i0 THEN x ELSE At(n, j - 1)
    OBVIOUS
  <2>2. CASE j < i0
    BY <1>9, <1>7, <2>2 DEF At
  <2>3. CASE j = i0
    BY <1>4, <1>9, <2>3
  <2>4. CASE ~(j < i0) /\ j # i0
    BY <1>7, <1>9, <2>4 DEF At
  <2>5. QED
    BY <2>2, <2>3, <2>4
<1>15. SortedBy(n, perm[n])'
  <2>1. SUFFICES ASSUME NEW a \in 0..pm.size, NEW b \in 0..pm.size, a < b PROVE Less(Is(a), Is(b))
    <3>1. Index(new) = 0..pm.size
      <4>1. new.size - 1 = pm.size
        BY <1>7, <1>9
      <4>2. QED
        BY <4>1 DEF Index
    <3>2. QED
      BY <1>10, <1>12, <3>1 DEF SortedBy
  <2>2. ASSUME NEW i \in 0..(pm.size - 1), NEW j \in 0..(pm.size - 1), i < j PROVE Less(At(n, i), At(n, j))
    <3>1. SortedBy(n, pm) /\ Index(pm) = 0..(pm.size - 1)
      BY <1>7 DEF IInv, StoreInv, SortInv, Index
    <3>2. QED
      BY <1>13, <2>2, <3>1 DEF SortedBy
  <2>3. \A i \in 0..(pm.size - 1) : /\ i < i0 => Less(At(n, i), x)
                                    /\ i >= i0 => Less(x, At(n, i))
    BY <1>2, <1>4, <1>13, NewLess
  <2> HIDE DEF Is
  <2>4. a \in Int /\ b \in Int /\ i0 \in Int /\ pm.size \in Int
    BY <1>7
  <2>5. CASE b < i0
    <3>1. a < i0 /\ a \in 0..(pm.size - 1) /\ b \in 0..(pm.size - 1)
      BY <2>1, <2>4, <2>5
    <3>2. Is(a) = At(n, a) /\ Is(b) = At(n, b)
      BY <1>14, <2>5, <3>1
    <3>3. QED
      BY <2>1, <2>2, <3>1, <3>2
  <2>6. CASE b = i0
    <3>1. a < i0 /\ a \in 0..(pm.size - 1) /\ ~(b < i0)
      BY <2>1, <2>4, <2>6
    <3>2. Is(a) = At(n, a) /\ Is(b) = x
      BY <1>14, <2>6, <3>1
    <3>3. QED
      BY <2>3, <3>1, <3>2
  <2>7. CASE b > i0 /\ a < i0
    <3>1. a \in 0..(pm.size - 1) /\ b - 1 \in 0..(pm.size - 1) /\ a < b - 1 /\ ~(b < i0) /\ b # i0
      BY <2>4, <2>7
    <3>2. Is(a) = At(n, a) /\ Is(b) = At(n, b - 1)
      BY <1>14, <2>7, <3>1
    <3>3. QED
      BY <2>2, <3>1, <3>2
  <2>8. CASE b > i0 /\ a = i0
    <3>1. b - 1 \in 0..(pm.size - 1) /\ b - 1 >= i0 /\ ~(b < i0) /\ b # i0 /\ ~(a < i0)
      BY <2>4, <2>8
    <3>2. Is(a) = x /\ Is(b) = At(n, b - 1)
      BY <1>14, <2>8, <3>1
    <3>3. QED
      BY <2>3, <3>1, <3>2
  <2>9. CASE b > i0 /\ a > i0
    <3>1. a - 1 \in 0..(pm.size - 1) /\ b - 1 \in 0..(pm.size - 1) /\ a - 1 < b - 1 /\ ~(b < i0) /\ b # i0
          /\ ~(a < i0) /\ a # i0
      BY <2>1, <2>4, <2>9
    <3>2. Is(a) = At(n, a - 1) /\ Is(b) = At(n, b - 1)
      BY <1>14, <2>9, <3>1
    <3>3. QED
      BY <2>2, <3>1, <3>2
  <2>10. QED
    BY <2>4, <2>5, <2>6, <2>7, <2>8, <2>9
<1>16. Entries(n) = Filled(perm[n], slot[n])
  <2>1. \A s : Ent(n, s) = slot[n][s]
    BY <1>1, <1>2, <1>3, EntSlot, FillPcs
  <2>2. QED
    BY <2>1, EntriesNow
<1>17. Edited(c, Entries(n), Filled(perm'[n], slot'[n]), v)
  <2> DEFINE T == Filled(new, slot[n])
             S == Filled(pm, slot[n])
  <2>1. (\A e \in S : \E i \in 0..(pm.size - 1) : e = At(n, i)) /\ \A i \in 0..(pm.size - 1) : At(n, i) \in S
    BY <1>13 DEF Filled, Index
  <2>2. (\A e \in T : \E j \in 0..pm.size : e = Is(j)) /\ \A j \in 0..pm.size : Is(j) \in T
    <3>1. new.size - 1 = pm.size
      BY <1>7, <1>9
    <3>2. Index(new) = 0..pm.size
      BY <3>1 DEF Index
    <3>3. QED
      BY <3>2 DEF Filled
  <2> HIDE DEF T, S, Is
  <2>3. \A e \in T : e = x \/ e \in S
    <3>1. ASSUME NEW j \in 0..pm.size PROVE Is(j) = x \/ Is(j) \in S
      BY <1>7, <1>14, <2>1, <3>1, InsertIndex
    <3>2. QED
      BY <2>2, <3>1
  <2>4. x \in T
    BY <1>14, <2>2
  <2>5. \A e \in S : e \in T
    <3>1. ASSUME NEW i \in 0..(pm.size - 1) PROVE At(n, i) \in T
      <4>1. CASE i < i0
        <5>1. i \in 0..pm.size
          BY <1>7
        <5>2. Is(i) = At(n, i)
          BY <1>14, <4>1, <5>1
        <5>3. QED
          BY <2>2, <5>1, <5>2
      <4>2. CASE ~(i < i0)
        <5>1. i + 1 \in 0..pm.size /\ ~(i + 1 < i0) /\ i + 1 # i0 /\ (i + 1) - 1 = i
          BY <1>7, <4>2
        <5>2. Is(i + 1) = At(n, i)
          BY <1>14, <5>1
        <5>3. QED
          BY <2>2, <5>1, <5>2
      <4>3. QED
        BY <4>1, <4>2
    <3>2. QED
      BY <2>1, <3>1
  <2>6. \A e \in S : e \in Slot /\ ~Hit(c, e)
    <3>1. ASSUME NEW i \in 0..(pm.size - 1) PROVE At(n, i) \in Slot /\ ~Hit(c, At(n, i))
      <4>1. At(n, i) \in Slot /\ Compare(c, At(n, i)) # 0
        BY <1>13
      <4>2. QED
        BY <1>2, <4>1, HitFacts
    <3>2. QED
      BY <2>1, <3>1
  <2>7. Hit(c, x) /\ OneKey(c, x)
    BY <1>2, <1>4, HitFacts
  <2>8. \A e \in T : e.kind \in {"plain", "ksuf", "layer"}
    BY <2>3, <2>6, SlotType
  <2>9. \A e : ~Hit(c, e) => (e \in T <=> e \in S)
    BY <2>3, <2>5, <2>7
  <2>10. \A e \in T \cup S : Hit(c, e) => OneKey(c, e)
    BY <2>3, <2>6, <2>7
  <2>11. \A e \in T : Hit(c, e) => e.lv = v /\ v # 0
    BY <1>4, <1>5, <2>3, <2>6
  <2>12. ~(\A e \in T : ~Hit(c, e))
    BY <2>4, <2>7
  <2>13. Edited(c, S, T, v)
    BY <2>8, <2>9, <2>10, <2>11, <2>12 DEF Edited
  <2>14. QED
    BY <1>7, <1>10, <1>12, <1>16, <2>13 DEF T, S
<1>18. \A q \in Procs \ {p} : t'[q] = Told(k, v)[q]
  BY <1>10 DEF Told
<1>19. /\ ThreadFrame(p)
       /\ \A q \in Procs \ {p} : t[q].op = "get" /\ t[q].key = k => v \in t'[q].may
       /\ \A q \in Procs \ {p} : t'[q].held = t[q].held
       /\ Told(k, v) \in [Procs -> Thread]
  BY <1>2, <1>10, <1>18, ToldFrame
<1>20. TypeOK'
  <2>1. Told(k, v)[p] \in Thread
    BY <1>19
  <2>2. [Told(k, v)[p] EXCEPT !.pc = "unlock"] \in Thread
    BY <2>1, ThreadPc, UnlockPcs, PcFacts
  <2>3. t' \in [Procs -> Thread]
    BY <1>10, <1>19, <2>2
  <2>4. db' \in [Keys -> Int \cup Layers]
    BY <1>10, <1>11
  <2>5. QED
    BY <1>2, <1>10, <1>12, <2>3, <2>4 DEF TypeOK, LeafTypeOK
<1>21. ReadFrame(p)
  <2>1. \A q \in Procs \ {p} : t[q].pc \in ReadPc => t[q].node \in Leaves
    BY SearchMine, PcFacts
  <2>2. modstate[n] = "insert"
    BY <1>2, <1>3 DEF NewOK
  <2>3. \A m \in Leaves : \/ perm'[m] = perm[m]
                          \/ modstate[m] = "insert" /\ PermLe(perm[m], perm'[m])
                          \/ modstate[m] # "insert" /\ PermLe(perm'[m], perm[m])
    BY <1>7, <1>9, <1>12, <2>2
  <2>4. QED
    BY <1>2, <1>10, <1>19, <1>20, <2>1, <2>3, GrowFrame
<1>22. PICK u \in {"unlock", "delete"} : u = "unlock"
  OBVIOUS
<1>23. c.pc \in TellPc /\ c.op # "gc"
  BY <1>1, <1>2 DEF TellPc, NewOK
<1>24. perm'[n].size > 0 /\ ~(perm'[n].size = 0)
  BY <1>7, <1>9, <1>12
<1>25. /\ perm' \in [Leaves -> Permuters] /\ gcs' \subseteq Nat /\ slot' \in [Leaves -> [Slots -> Slot]]
       /\ \A m \in Leaves : m # n => slot'[m] = slot[m] /\ perm'[m] = perm[m]
       /\ UNCHANGED <<modstate, locked, dirty, deleted, layer, low, next, prev, layers, scene, ops>>
       /\ slot'[n][0].ikey = slot[n][0].ikey
       /\ Injective(perm'[n])
  BY <1>9, <1>10, <1>11, <1>12
<1>26. /\ t' = [Told(c.key, v) EXCEPT ![p].pc = u] /\ db' = [db EXCEPT ![c.key] = v]
       /\ u # "delete"
  BY <1>6, <1>10, <1>22
<1>27. Tells(p, c, n, v, u)
  BY <1>1, <1>3, <1>15, <1>17, <1>21, <1>23, <1>24, <1>25, <1>26 DEF Tells
<1>28. QED
  BY <1>27, TellStep

-----------------------------------------------------------------------------
(* A key goes out of the permutation.                                      *)

LEMMA LessNot ==
  ASSUME NEW a \in Slot, Less(a, a)
  PROVE  FALSE
<1>1. a.ikey \in Nat
  BY SlotType
<1>2. QED
  BY <1>1 DEF Less

LEMMA DropIndex ==
  ASSUME NEW s \in Nat, NEW i \in 0..(s - 1)
  PROVE  /\ s - 1 \in Nat /\ (s - 1) - 1 = s - 2
         /\ \A j \in 0..(s - 2) : /\ j < i => j \in 0..(s - 1)
                                  /\ ~(j < i) => j + 1 \in 0..(s - 1) /\ j + 1 > i
         /\ \A j \in 0..(s - 1) : /\ j < i => j \in 0..(s - 2)
                                  /\ j > i => j - 1 \in 0..(s - 2) /\ ~(j - 1 < i) /\ (j - 1) + 1 = j
                                  /\ j < i \/ j = i \/ j > i
OBVIOUS

(* A permutation that gives up the slot at index i0.                       *)
LEMMA DropFacts ==
  ASSUME IInv, NEW n \in Leaves, NEW i0 \in Index(perm[n]), \A s : Ent(n, s) = slot[n][s],
         NEW new, new = RemoveAt(perm[n], i0)
  PROVE  /\ new \in Permuters /\ Injective(new) /\ PermLe(new, perm[n])
         /\ new.size = perm[n].size - 1 /\ perm[n].size \in Nat
         /\ new.size = 0 => slot[n][new.slot[0]] = At(n, i0)
         /\ \A a, b \in Index(new) : a < b => Less(slot[n][new.slot[a]], slot[n][new.slot[b]])
         /\ Filled(new, slot[n]) = Entries(n) \ {At(n, i0)}
         /\ At(n, i0) \in Entries(n)
<1>1. PICK pm \in Permuters : pm = perm[n] /\ Injective(pm) /\ pm.size \in Nat /\ SortedBy(n, pm)
  BY LeafType, PermuterType DEF IInv, StoreInv, SortInv
<1>2. i0 \in 0..(pm.size - 1) /\ i0 \in Int
  BY <1>1 DEF Index
<1>3. /\ new \in Permuters /\ Injective(new) /\ new.size = pm.size - 1 /\ PermLe(new, pm)
      /\ \A j \in 0..(pm.size - 2) : new.slot[j] = IF j < i0 THEN pm.slot[j] ELSE pm.slot[j + 1]
      /\ new.slot[pm.size - 1] = pm.slot[i0]
  BY <1>1, RemoveAtOK, PermLeRemove
<1>4. new.size = 0 => slot[n][new.slot[0]] = At(n, i0)
  BY <1>1, <1>3 DEF At
<1>5. Index(new) = 0..(pm.size - 2) /\ Index(pm) = 0..(pm.size - 1)
  BY <1>1, <1>2, <1>3, DropIndex DEF Index
<1> DEFINE Is(j) == slot[n][new.slot[j]]
<1>6. \A j \in 0..(pm.size - 2) : Is(j) = IF j < i0 THEN At(n, j) ELSE At(n, j + 1)
  BY <1>1, <1>3 DEF At
<1>7. \A a, b \in 0..(pm.size - 1) : a < b => Less(At(n, a), At(n, b))
  BY <1>1, <1>5 DEF SortedBy, At
<1>8. TypeOK
  BY DEF IInv, StoreInv
<1>9. \A a \in 0..(pm.size - 1) : At(n, a) \in Slot
  BY <1>1, <1>5, <1>8, AtType
<1>10. /\ \A e \in Entries(n) : \E i \in 0..(pm.size - 1) : e = At(n, i)
       /\ \A i \in 0..(pm.size - 1) : At(n, i) \in Entries(n)
  BY <1>1, <1>5, EntriesAt
<1>11. (\A e \in Filled(new, slot[n]) : \E j \in 0..(pm.size - 2) : e = Is(j))
       /\ \A j \in 0..(pm.size - 2) : Is(j) \in Filled(new, slot[n])
  BY <1>5 DEF Filled
<1> HIDE DEF Is
<1>12. ASSUME NEW a \in 0..(pm.size - 2), NEW b \in 0..(pm.size - 2), a < b PROVE Less(Is(a), Is(b))
  <2>1. PICK x \in 0..(pm.size - 1) : Is(a) = At(n, x) /\ x = IF a < i0 THEN a ELSE a + 1
    BY <1>1, <1>2, <1>6, DropIndex
  <2>2. PICK y \in 0..(pm.size - 1) : Is(b) = At(n, y) /\ y = IF b < i0 THEN b ELSE b + 1
    BY <1>1, <1>2, <1>6, DropIndex
  <2>3. x < y
    BY <1>2, <1>12, <2>1, <2>2
  <2>4. QED
    BY <1>7, <2>1, <2>2, <2>3
<1>13. ASSUME NEW j \in 0..(pm.size - 2) PROVE Is(j) \in Entries(n) /\ Is(j) # At(n, i0)
  <2>1. PICK x \in 0..(pm.size - 1) : Is(j) = At(n, x) /\ x = IF j < i0 THEN j ELSE j + 1
    BY <1>1, <1>2, <1>6, DropIndex
  <2>2. x < i0 \/ i0 < x
    BY <1>2, <2>1
  <2>3. Is(j) # At(n, i0)
    BY <1>2, <1>7, <1>9, <2>1, <2>2, LessNot
  <2>4. QED
    BY <1>10, <2>1, <2>3
<1>14. ASSUME NEW i \in 0..(pm.size - 1), At(n, i) # At(n, i0) PROVE At(n, i) \in Filled(new, slot[n])
  <2>1. CASE i < i0
    <3>1. i \in 0..(pm.size - 2)
      BY <1>1, <1>2, <2>1, DropIndex
    <3>2. QED
      BY <1>6, <1>11, <2>1, <3>1
  <2>2. CASE i > i0
    <3>1. i - 1 \in 0..(pm.size - 2) /\ ~(i - 1 < i0) /\ (i - 1) + 1 = i
      BY <1>1, <1>2, <2>2, DropIndex
    <3>2. Is(i - 1) = At(n, i)
      BY <1>6, <3>1
    <3>3. QED
      BY <1>11, <3>1, <3>2
  <2>3. QED
    BY <1>1, <1>2, <1>14, <2>1, <2>2, DropIndex
<1>15. \A e : e \in Filled(new, slot[n]) <=> e \in Entries(n) /\ e # At(n, i0)
  BY <1>10, <1>11, <1>13, <1>14
<1>16. Filled(new, slot[n]) = Entries(n) \ {At(n, i0)}
  BY <1>15
<1>17. \A a, b \in Index(new) : a < b => Less(slot[n][new.slot[a]], slot[n][new.slot[b]])
  BY <1>5, <1>12 DEF Is
<1>18. QED
  BY <1>1, <1>2, <1>3, <1>4, <1>10, <1>16, <1>17

LEMMA RemoveMine ==
  ASSUME IInv, NEW p \in Procs, t[p].pc = "remove"
  PROVE  /\ TypeOK /\ t[p] \in Thread /\ t \in [Procs -> Thread] /\ KeyOK(t[p]) /\ RemoveOK(t[p]) /\ HomeOK(t[p])
         /\ t[p].node \in Leaves /\ locked[t[p].node] = p /\ t[p].other = None
         /\ t[p].i \in Index(perm[t[p].node]) /\ t[p].node \notin deleted
         /\ \A s : Ent(t[p].node, s) = slot[t[p].node][s]
<1>1. /\ TypeOK /\ t[p] \in Thread /\ t \in [Procs -> Thread] /\ KeyOK(t[p]) /\ LockOK(t[p])
      /\ t[p].node \in Leaves /\ locked[t[p].node] = p /\ t[p].other = None
  BY LockMine, RemovePcs
<1>2. RemoveOK(t[p]) /\ HomeOK(t[p]) /\ t[p].node \notin deleted
  BY <1>1, RemovePcs DEF LockOK
<1>3. t[p].i \in Index(perm[t[p].node])
  BY <1>2 DEF RemoveOK, FoundAt, GcAt
<1>4. \A s : Ent(t[p].node, s) = slot[t[p].node][s]
  BY <1>1, EntSlot, RemovePcs
<1>5. QED
  BY <1>1, <1>2, <1>3, <1>4

LEMMA DropEdited ==
  ASSUME IInv, NEW c \in Thread, KeyOK(c), NEW n \in Leaves, NEW x \in Entries(n),
         Hit(c, x), OneKey(c, x), NEW T, T = Entries(n) \ {x}
  PROVE  Edited(c, Entries(n), T, 0)
<1>1. \A e \in Entries(n) : Hit(c, e) => e = x
  BY EntryUnique DEF Hit
<1>2. \A e \in T : ~Hit(c, e)
  BY <1>1
<1>3. \A e \in Entries(n) : e.kind \in {"plain", "ksuf", "layer"}
  BY EntryType, SlotType
<1>4. \A e : ~Hit(c, e) => (e \in T <=> e \in Entries(n))
  OBVIOUS
<1>5. \A e \in T \cup Entries(n) : Hit(c, e) => OneKey(c, e)
  BY <1>1
<1>6. QED
  BY <1>2, <1>3, <1>4, <1>5 DEF Edited

LEMMA RemoveKey ==
  ASSUME IInv, NEW p \in Procs, FinishRemove(p), t[p].op = "remove"
  PROVE  IInv'
<1>1. PICK c \in Thread : c = t[p] /\ c.pc = "remove" /\ c.op = "remove"
  BY Mine DEF FinishRemove
<1>2. /\ TypeOK /\ t \in [Procs -> Thread] /\ KeyOK(c) /\ RemoveOK(c)
      /\ c.node \in Leaves /\ locked[c.node] = p
      /\ c.i \in Index(perm[c.node])
      /\ \A s : Ent(c.node, s) = slot[c.node][s]
  BY <1>1, RemoveMine
<1>3. PICK n \in Leaves : n = c.node
  BY <1>2
<1>4. PICK i0 \in Index(perm[n]) : i0 = c.i
  BY <1>2, <1>3
<1>5. PICK v \in Int \cup Layers : v = 0
  OBVIOUS
<1>6. PICK k \in Keys : k = c.key
  BY <1>1, <1>2 DEF KeyOK
<1>7. \A s : Ent(n, s) = slot[n][s]
  BY <1>2, <1>3
<1>8. PICK new : new = RemoveAt(perm[n], i0)
  OBVIOUS
<1>9. /\ new \in Permuters /\ Injective(new) /\ PermLe(new, perm[n])
      /\ new.size = perm[n].size - 1 /\ perm[n].size \in Nat
      /\ new.size = 0 => slot[n][new.slot[0]] = At(n, i0)
      /\ \A a, b \in Index(new) : a < b => Less(slot[n][new.slot[a]], slot[n][new.slot[b]])
      /\ Filled(new, slot[n]) = Entries(n) \ {At(n, i0)}
      /\ At(n, i0) \in Entries(n)
  BY <1>7, <1>8, DropFacts
<1>10. PICK u \in {"unlock", "delete"} : u = IF perm[n].size = 1 /\ prev[n] # None THEN "delete" ELSE "unlock"
  OBVIOUS
<1>11. /\ perm' = [perm EXCEPT ![n] = new] /\ db' = [db EXCEPT ![k] = v]
       /\ t' = [Told(k, v) EXCEPT ![p].pc = u]
       /\ gcs' \in {gcs, gcs \cup {c.key[1]}} /\ modstate[n] = "remove"
       /\ UNCHANGED <<slot, modstate, locked, dirty, deleted, layer, low, next, prev, layers, scene, ops>>
  BY <1>1, <1>3, <1>4, <1>5, <1>6, <1>8, <1>10 DEF FinishRemove
<1>12. /\ slot \in [Leaves -> [Slots -> Slot]] /\ perm \in [Leaves -> Permuters] /\ gcs \subseteq Nat
       /\ db \in [Keys -> Int \cup Layers]
  BY <1>2 DEF TypeOK, LeafTypeOK
<1>13. /\ perm' \in [Leaves -> Permuters] /\ perm'[n] = new
       /\ \A m \in Leaves : m # n => perm'[m] = perm[m]
  BY <1>9, <1>11, <1>12
<1>14. gcs' \subseteq Nat
  BY <1>2, <1>11, <1>12, IkeyType
<1>15. SortedBy(n, perm[n])'
  BY <1>9, <1>11, <1>13 DEF SortedBy
<1>16. Hit(c, At(n, i0)) /\ OneKey(c, At(n, i0)) /\ At(n, i0).ikey = Ikey(c)
  <2>1. At(n, i0) \in Slot
    BY <1>2, AtType
  <2>2. Compare(c, At(n, i0)) = 0 /\ KsufMatches(c, At(n, i0)) = 1
    BY <1>1, <1>2, <1>3, <1>4 DEF RemoveOK, FoundAt
  <2>3. QED
    BY <1>2, <2>1, <2>2, HitFacts DEF Hit
<1>17. Edited(c, Entries(n), Filled(perm'[n], slot'[n]), v)
  <2>1. PICK T : T = Filled(perm'[n], slot'[n])
    OBVIOUS
  <2>2. T = Entries(n) \ {At(n, i0)}
    BY <1>9, <1>11, <1>13, <2>1
  <2>3. Edited(c, Entries(n), T, 0)
    BY <1>2, <1>9, <1>16, <2>2, DropEdited
  <2>4. QED
    BY <1>5, <2>1, <2>3
<1>18. \A q \in Procs \ {p} : t'[q] = Told(k, v)[q]
  BY <1>11 DEF Told
<1>19. /\ ThreadFrame(p)
       /\ \A q \in Procs \ {p} : t[q].op = "get" /\ t[q].key = k => v \in t'[q].may
       /\ \A q \in Procs \ {p} : t'[q].held = t[q].held
       /\ Told(k, v) \in [Procs -> Thread]
  BY <1>2, <1>11, <1>18, ToldFrame
<1>20. TypeOK'
  <2>1. Told(k, v)[p] \in Thread
    BY <1>19
  <2>2. [Told(k, v)[p] EXCEPT !.pc = u] \in Thread
    BY <2>1, ThreadPc, TellPcs
  <2>3. t' \in [Procs -> Thread]
    BY <1>11, <1>19, <2>2
  <2>4. db' \in [Keys -> Int \cup Layers]
    BY <1>11, <1>12
  <2>5. QED
    BY <1>2, <1>11, <1>13, <1>14, <2>3, <2>4 DEF TypeOK, LeafTypeOK
<1>21. ReadFrame(p)
  <2>1. \A q \in Procs \ {p} : t[q].pc \in ReadPc => t[q].node \in Leaves
    BY SearchMine, PcFacts
  <2>2. \A m \in Leaves : \/ perm'[m] = perm[m]
                          \/ modstate[m] = "insert" /\ PermLe(perm[m], perm'[m])
                          \/ modstate[m] # "insert" /\ PermLe(perm'[m], perm[m])
    BY <1>9, <1>11, <1>13
  <2>3. QED
    BY <1>2, <1>11, <1>19, <1>20, <2>1, <2>2, GrowFrame
<1>22. c.pc \in TellPc /\ c.op # "gc"
  BY <1>1 DEF TellPc
<1>23. /\ perm' \in [Leaves -> Permuters] /\ slot' \in [Leaves -> [Slots -> Slot]]
       /\ \A m \in Leaves : m # n => slot'[m] = slot[m] /\ perm'[m] = perm[m]
       /\ UNCHANGED <<modstate, locked, dirty, deleted, layer, low, next, prev, layers, scene, ops>>
       /\ slot'[n][0].ikey = slot[n][0].ikey
       /\ Injective(perm'[n])
  BY <1>9, <1>11, <1>12, <1>13
<1>24. /\ t' = [Told(c.key, v) EXCEPT ![p].pc = u] /\ db' = [db EXCEPT ![c.key] = v]
  BY <1>6, <1>11
<1>25. perm'[n].size = 0 => Ikey(c) = slot'[n][perm'[n].slot[0]].ikey
  BY <1>9, <1>11, <1>13, <1>16
<1>26. /\ u = "unlock" => perm'[n].size > 0 \/ modstate[n] # "insert" \/ n \notin dirty
       /\ u = "delete" => perm'[n].size = 0 /\ prev[n] # None /\ modstate[n] = "remove"
  BY <1>9, <1>10, <1>11, <1>13
<1>27. Tells(p, c, n, v, u)
  BY <1>1, <1>3, <1>14, <1>15, <1>17, <1>21, <1>22, <1>23, <1>24, <1>25, <1>26 DEF Tells
<1>28. QED
  BY <1>27, TellStep

(* No key of a dead layer is in the table.                                 *)
LEMMA DeadDb ==
  ASSUME IInv, NEW l \in layers, NEW a \in Nat, Attached(l, a), Dead(l), NEW k \in Keys, Len(k) = 2, k[1] = a
  PROVE  db[k] = 0
<1>1. PICK f \in Leaves : In(f, l) /\ prev[f] = None
  BY DEF IInv, StoreInv, ListInv
<1>2. modstate[f] = "deleted_layer"
  BY <1>1 DEF Dead
<1>3. locked[f] = None /\ perm[f].size = 0 /\ next[f] = None
  BY <1>2 DEF IInv, StoreInv, DeadInv
<1>4. low[f] = 0
  BY <1>1 DEF IInv, StoreInv, ListInv
<1>5. k[2] \in Nat
  BY KeyFacts
<1>6. Covers(f, k[2])
  BY <1>3, <1>4, <1>5 DEF Covers, Below, Hi, Splitting
<1>7. PlainSays(f, k[2], k)
  BY <1>1, <1>6 DEF IInv, StoreInv, DbInv
<1>8. Index(perm[f]) = {}
  BY <1>3 DEF Index
<1>9. Entries(f) = {}
  BY <1>8 DEF Entries
<1>10. QED
  BY <1>7, <1>9 DEF PlainSays

LEMMA RemoveLayer ==
  ASSUME IInv, NEW p \in Procs, FinishRemove(p), t[p].op = "gc"
  PROVE  IInv'
<1>1. PICK c \in Thread : c = t[p] /\ c.pc = "remove" /\ c.op = "gc"
  BY Mine DEF FinishRemove
<1>2. /\ TypeOK /\ t \in [Procs -> Thread] /\ KeyOK(c) /\ RemoveOK(c) /\ HomeOK(c)
      /\ c.node \in Leaves /\ locked[c.node] = p /\ c.other = None
      /\ c.i \in Index(perm[c.node]) /\ c.node \notin deleted
      /\ \A s : Ent(c.node, s) = slot[c.node][s]
  BY <1>1, RemoveMine
<1>3. PICK n \in Leaves : n = c.node
  BY <1>2
<1>4. PICK i0 \in Index(perm[n]) : i0 = c.i
  BY <1>2, <1>3
<1>5. \A s : Ent(n, s) = slot[n][s]
  BY <1>2, <1>3
<1>6. GcAt(c) /\ Dead(At(c.node, c.i).lv)
  BY <1>1, <1>2 DEF RemoveOK
<1>7. PICK x \in Slot : x = At(n, i0)
  BY <1>2, AtType
<1>8. /\ c.depth = 1 /\ layer[n] = RootLayer /\ x.lv \in layers \ {RootLayer} /\ IsLayer(x, x.lv, c.key[1]) /\ Dead(x.lv)
      /\ In(n, RootLayer) /\ Covers(n, x.ikey) /\ x.ikey = c.key[1] /\ x.kind = "layer"
  <2>1. /\ c.depth = 1 /\ layer[c.node] = RootLayer
        /\ c.i \in Index(perm[c.node]) /\ At(c.node, c.i) \in Entries(c.node)
        /\ At(c.node, c.i).lv \in layers \ {RootLayer}
        /\ IsLayer(At(c.node, c.i), At(c.node, c.i).lv, c.key[1])
    BY <1>1, <1>2, <1>6, GcEntry
  <2>2. x.ikey = c.key[1] /\ x.kind = "layer"
    BY <1>3, <1>4, <1>7, <2>1 DEF IsLayer
  <2>3. In(n, RootLayer) /\ Covers(n, Ikey(c)) /\ Ikey(c) = c.key[1]
    BY <1>2, <1>3, <2>1 DEF HomeOK, Ikey
  <2>4. QED
    BY <1>3, <1>4, <1>6, <1>7, <2>1, <2>2, <2>3
<1>9. PICK a \in Nat : a = c.key[1]
  BY <1>2, IkeyType
<1>10. PICK l \in layers : l = x.lv
  BY <1>8
<1>11. PICK new : new = RemoveAt(perm[n], i0)
  OBVIOUS
<1>12. /\ new \in Permuters /\ Injective(new) /\ PermLe(new, perm[n])
       /\ new.size = perm[n].size - 1 /\ perm[n].size \in Nat
       /\ new.size = 0 => slot[n][new.slot[0]] = x
       /\ \A i, j \in Index(new) : i < j => Less(slot[n][new.slot[i]], slot[n][new.slot[j]])
       /\ Filled(new, slot[n]) = Entries(n) \ {x}
       /\ x \in Entries(n)
  BY <1>5, <1>7, <1>11, DropFacts
<1>13. PICK u \in {"unlock", "delete"} : u = IF perm[n].size = 1 /\ prev[n] # None THEN "delete" ELSE "unlock"
  OBVIOUS
<1>14. /\ perm' = [perm EXCEPT ![n] = new] /\ db' = db
       /\ t' = [t EXCEPT ![p].pc = u]
       /\ gcs' \in {gcs, gcs \cup {c.key[1]}} /\ modstate[n] = "remove"
       /\ UNCHANGED <<slot, modstate, locked, dirty, deleted, layer, low, next, prev, layers, scene, ops>>
  BY <1>1, <1>3, <1>4, <1>11, <1>13 DEF FinishRemove
<1>15. /\ slot \in [Leaves -> [Slots -> Slot]] /\ perm \in [Leaves -> Permuters] /\ gcs \subseteq Nat
       /\ db \in [Keys -> Int \cup Layers]
  BY <1>2 DEF TypeOK, LeafTypeOK
<1>16. /\ perm' \in [Leaves -> Permuters] /\ perm'[n] = new
       /\ \A m \in Leaves : m # n => perm'[m] = perm[m]
  BY <1>12, <1>14, <1>15
<1>17. PICK d \in Thread : d = [c EXCEPT !.pc = u]
  BY ThreadPc, TellPcs
<1>18. /\ t' = [t EXCEPT ![p] = d] /\ d.pc = u /\ SameLock(c, d) /\ d.node = n /\ d.other = None
       /\ d.held = c.held /\ d.p = c.p
  BY <1>1, <1>2, <1>3, <1>14, <1>17 DEF SameLock
<1>19. ThreadFrame(p) /\ t'[p] = d /\ \A q \in Procs \ {p} : t'[q] = t[q]
  BY <1>2, <1>14, <1>18, OneFrame
<1>20. TypeOK'
  <2>1. t' \in [Procs -> Thread]
    BY <1>2, <1>18
  <2>2. gcs' \subseteq Nat
    BY <1>9, <1>14, <1>15
  <2>3. QED
    BY <1>2, <1>14, <1>16, <2>1, <2>2 DEF TypeOK, LeafTypeOK
<1>21. ReadFrame(p)
  <2>1. \A q \in Procs \ {p} : t[q].pc \in ReadPc => t[q].node \in Leaves
    BY SearchMine, PcFacts
  <2>2. \A m \in Leaves : \/ perm'[m] = perm[m]
                          \/ modstate[m] = "insert" /\ PermLe(perm[m], perm'[m])
                          \/ modstate[m] # "insert" /\ PermLe(perm'[m], perm[m])
    BY <1>12, <1>14, <1>16
  <2>3. QED
    BY <1>2, <1>14, <1>19, <1>20, <2>1, <2>2, GrowFrame
<1>22. /\ u \in LockPc /\ u # "gc_lock" /\ u \notin MidPc /\ u \notin TurnPc /\ u \notin OtherPc
       /\ c.pc \in LockPc /\ c.pc \notin MidPc /\ c.pc \notin TurnPc /\ c.pc # "gc_lock"
       /\ c.pc \notin {"gc_lock", "split_tree"} \cup UnlinkPc
  BY <1>1, RemovePcs, TellPcs DEF TellPc
<1>23. LockInv' /\ LocksFrame(p)
  BY <1>1, <1>2, <1>3, <1>14, <1>18, <1>19, <1>20, <1>22, KeepLocks
<1>24. \A m \in Leaves : Splitting(m)' <=> Splitting(m)
  BY <1>1, <1>2, <1>18, <1>19, <1>20, <1>22, <1>23, SplittingSame
<1>25. /\ \A m \in Leaves : \A y : In(m, y)' <=> In(m, y)
       /\ \A m \in Leaves : Hi(m)' = Hi(m)
       /\ \A m \in Leaves : \A y : Covers(m, y)' <=> Covers(m, y)
       /\ \A m \in Leaves : \A y : Below(m, y)' <=> Below(m, y)
  BY <1>14, <1>24 DEF Linked, In, Hi, Covers, Below
<1>26. \A m \in Leaves : m # n => Entries(m)' = Entries(m)
  <2>1. \A m \in Leaves : m # n => perm'[m].size = perm[m].size /\ \A i \in Index(perm[m]) :
           perm'[m].slot[i] = perm[m].slot[i] /\ slot'[m][perm[m].slot[i]] = slot[m][perm[m].slot[i]]
    BY <1>14, <1>16
  <2>2. t[p].pc \notin TurnPc /\ t'[p].pc \notin TurnPc
    BY <1>1, <1>18, <1>19, <1>22
  <2>3. QED
    BY <1>14, <1>19, <1>20, <1>23, <2>1, <2>2, EntriesSame
<1>27. Entries(n)' = Entries(n) \ {x}
  <2>1. Entries(n)' = Filled(perm'[n], slot'[n])
    BY <1>2, <1>3, <1>14, <1>18, <1>19, <1>22, EntriesNext
  <2>2. QED
    BY <1>12, <1>14, <1>16, <2>1
<1>28. Attached(l, a)
  BY <1>8, <1>9, <1>10, <1>12 DEF Attached
<1>29. \A k \in Keys : Len(k) = 2 /\ k[1] = a => db[k] = 0
  BY <1>8, <1>10, <1>28, DeadDb
<1>30. \A g, b : Attached(g, b)' => Attached(g, b)
  BY <1>25, <1>26, <1>27 DEF Attached, IsLayer
<1>31. ASSUME NEW g, NEW b, Attached(g, b), ~(g = l /\ b = a) PROVE Attached(g, b)'
  <2>0. PICK m \in Leaves : In(m, RootLayer) /\ \E e \in Entries(m) : IsLayer(e, g, b)
    BY <1>31 DEF Attached
  <2>1. PICK e \in Entries(m) : In(m, RootLayer) /\ IsLayer(e, g, b)
    BY <2>0
  <2>2. e # x
    BY <1>8, <1>9, <1>10, <1>31, <2>1 DEF IsLayer
  <2>3. e \in Entries(m)'
    BY <1>26, <1>27, <2>1, <2>2
  <2>4. IsLayer(e, g, b)'
    BY <2>1 DEF IsLayer
  <2>5. QED
    BY <1>25, <2>1, <2>3, <2>4 DEF Attached, IsLayer
<1>32. \A y \in layers : y \in Layers
  BY <1>2 DEF TypeOK, LeafTypeOK
<1>33. LeafInv'
  BY <1>14, <1>25, <1>26, <1>27 DEF IInv, StoreInv, LeafInv
<1>34. DbInv'
  <2>1. ASSUME NEW k \in Keys, NEW m \in Leaves, In(m, RootLayer), Covers(m, k[1])
        PROVE  /\ Len(k) = 1 => PlainSays(m, k[1], k)'
               /\ Len(k) = 2 => SufSays(m, k)'
    <3>1. /\ Len(k) = 1 => PlainSays(m, k[1], k)
          /\ Len(k) = 2 => SufSays(m, k)
      BY <2>1 DEF IInv, StoreInv, DbInv
    <3>2. CASE m # n
      BY <1>14, <1>26, <3>1, <3>2 DEF PlainSays, SufSays
    <3>3. CASE m = n
      <4>1. Len(k) = 1 => PlainSays(n, k[1], k)'
        BY <1>8, <1>14, <1>27, <3>1, <3>3 DEF PlainSays
      <4>2. CASE Len(k) = 2 /\ k[1] = a
        <5>1. db'[k] = 0
          BY <1>14, <1>29, <4>2
        <5>2. \A e \in Entries(n) : e.ikey = k[1] => e.kind # "ksuf"
          <6>1. \A e \in Entries(n) : e.ikey = x.ikey /\ e.kind # "plain" => e = x
            BY <1>8, <1>12, EntryUnique
          <6>2. QED
            BY <1>8, <1>9, <4>2, <6>1
        <5>3. SufSays(n, k)'
          BY <1>27, <5>1, <5>2 DEF SufSays
        <5>4. QED
          BY <3>3, <4>2, <5>3
      <4>3. CASE Len(k) = 2 /\ k[1] # a
        <5>1. \A e : e.ikey = k[1] => (e \in Entries(n)' <=> e \in Entries(n))
          BY <1>8, <1>9, <1>27, <4>3
        <5>2. SufSays(n, k)'
          BY <1>14, <3>1, <3>3, <4>3, <5>1 DEF SufSays
        <5>3. QED
          BY <3>3, <4>3, <5>2
      <4>4. QED
        BY <3>3, <4>1, <4>2, <4>3
    <3>4. QED
      BY <3>2, <3>3
  <2>2. ASSUME NEW k \in Keys, NEW g \in layers, Len(k) = 2, Attached(g, k[1])',
               NEW m \in Leaves, In(m, g), Covers(m, k[2])
        PROVE  PlainSays(m, k[2], k)'
    <3>1. Attached(g, k[1])
      BY <1>30, <2>2
    <3>2. PlainSays(m, k[2], k)
      BY <2>2, <3>1 DEF IInv, StoreInv, DbInv
    <3>3. k[1] \in Nat /\ g \in Layers
      BY <1>32, KeyFacts
    <3>4. g # RootLayer
      BY <3>1, <3>3, AttachedAt
    <3>5. m # n
      BY <1>2, <1>8, <2>2, <3>3, <3>4, InUnique, ConstantFacts
    <3>6. QED
      BY <1>14, <1>26, <3>2, <3>5 DEF PlainSays
  <2>3. QED
    BY <1>14, <1>25, <2>1, <2>2 DEF DbInv
<1>35. AttachInv'
  BY <1>14, <1>30 DEF IInv, StoreInv, AttachInv
<1>36. BoundInv' /\ SortInv'
  <2>1. BoundInv'
    BY <1>14 DEF IInv, StoreInv, BoundInv
  <2>2. SortedBy(n, perm[n])' /\ Injective(perm[n])'
    BY <1>12, <1>14, <1>16 DEF SortedBy, Injective
  <2>3. \A m \in Leaves : m # n => SortedBy(m, perm[m])' /\ Injective(perm[m])'
    BY <1>14, <1>16 DEF IInv, StoreInv, SortInv, SortedBy, Injective
  <2>4. QED
    BY <2>1, <2>2, <2>3 DEF SortInv
<1>37. LeftInv'
  <2>1. SUFFICES ASSUME NEW g \in layers, NEW m \in Leaves, In(m, g), perm'[m].size = 0,
                        ~(m \in dirty /\ modstate[m] = "insert")
                 PROVE  Below(m, At(m, 0)'.ikey)
    BY <1>14, <1>25 DEF LeftInv
  <2>2. CASE m # n
    <3>1. At(m, 0)' = At(m, 0)
      BY <1>14, <1>16, <2>2 DEF At
    <3>2. QED
      BY <1>16, <2>1, <2>2, <3>1 DEF IInv, StoreInv, LeftInv
  <2>3. CASE m = n
    <3>1. At(n, 0)' = x
      BY <1>12, <1>14, <1>16, <2>1, <2>3 DEF At
    <3>2. QED
      BY <1>8, <2>3, <3>1 DEF Covers
  <2>4. QED
    BY <2>2, <2>3
<1>38. \A g \in layers : \A b \in Nat : Attached(g, b) =>
           \/ Attached(g, b)'
           \/ Dead(g) /\ \A q \in Procs \ {p} :
                t[q].op = "get" /\ t[q].key \in Keys /\ Len(t[q].key) = 2 /\ t[q].key[1] = b
                /\ db[t[q].key] \in t[q].may => 0 \in t'[q].may
  <2>1. \A q \in Procs \ {p} : t[q].op = "get" /\ t[q].key \in Keys /\ Len(t[q].key) = 2 /\ t[q].key[1] = a
                /\ db[t[q].key] \in t[q].may => 0 \in t'[q].may
    BY <1>19, <1>29
  <2>2. QED
    BY <1>8, <1>10, <1>31, <2>1
<1>39. ThreadOK(t[p])'
  <2>1. KeyOK(d) /\ Ikey(d) = Ikey(c) /\ (HasSuffix(d) <=> HasSuffix(c))
    BY <1>1, <1>2, <1>13, <1>18, LockKey
  <2>2. KeyOK(d)'
    BY <1>14, <2>1 DEF KeyOK
  <2>3. u = "unlock" => UnlockOK(d)'
    BY <1>14, <1>18 DEF UnlockOK
  <2>4. u = "delete" => DeleteOK(d)'
    <3>1. SUFFICES ASSUME u = "delete" PROVE DeleteOK(d)'
      OBVIOUS
    <3>2. perm'[n].size = 0 /\ prev'[n] # None /\ layer'[n] # None /\ modstate'[n] = "remove"
      BY <1>8, <1>12, <1>13, <1>14, <1>16, <3>1, ConstantFacts
    <3>3. Linked(n)'
      BY <1>8, <1>25 DEF In
    <3>4. QED
      BY <1>18, <3>1, <3>2, <3>3 DEF DeleteOK
  <2>5. LockOK(d)'
    BY <1>18, <2>3, <2>4, TellPcs DEF LockOK, MidPc, DeletePc
  <2>6. ThreadOK(d)'
    BY <1>18, <1>22, <2>2, <2>5, HolderOK
  <2>7. QED
    BY <1>19, <2>6
<1>40. /\ UNCHANGED <<modstate, locked, dirty, deleted, layer, low, next, prev, layers>>
       /\ \A m \in Leaves : m # t[p].node => slot'[m] = slot[m] /\ perm'[m] = perm[m]
       /\ t'[p].node \in Leaves /\ locked[t'[p].node] = p
       /\ t'[p].other = None
       /\ t[p].pc \in LockPc /\ t[p].pc \notin {"gc_lock", "split_tree"} \cup UnlinkPc
  BY <1>1, <1>2, <1>3, <1>14, <1>16, <1>18, <1>19, <1>22
<1>41. \A m \in Leaves : \A g \in layers : In(m, g) => \A y \in Nat : Covers(m, y) =>
           \/ Covers(m, y)'
           \/ locked[m] = p /\ \A q \in Procs \ {p} : t[q].node = m => t[q].held = "split"
  BY <1>25
<1>42. QED
  BY <1>19, <1>20, <1>21, <1>23, <1>33, <1>34, <1>35, <1>36, <1>37, <1>38, <1>39, <1>40, <1>41, EditStep

LEMMA FinishRemoveStep ==
  ASSUME IInv, NEW p \in Procs, FinishRemove(p)
  PROVE  IInv'
<1>1. t[p].pc = "remove"
  BY DEF FinishRemove
<1>2. t[p].op \in {"remove", "gc"}
  BY <1>1, RemoveMine DEF RemoveOK
<1>3. QED
  BY <1>2, RemoveKey, RemoveLayer

-----------------------------------------------------------------------------
(* The last step of a split strips the old leaf.                           *)

LEMMA StripPerm ==
  ASSUME NEW pm \in Permuters, Injective(pm), pm.size \in {Width - 1, Width}, NEW left \in 0..pm.size, NEW new,
         new = IF pm.size # Width THEN Exchange(SetSize(pm, left), left, Width - 1) ELSE SetSize(pm, left)
  PROVE  /\ new \in Permuters /\ Injective(new) /\ new.size = left
         /\ \A j \in 0..(left - 1) : new.slot[j] = pm.slot[j]
         /\ Back(new) = IF pm.size = Width THEN Back(pm) ELSE pm.slot[left]
<1>1. Width \in Nat /\ Width >= 3 /\ Slots = 0..(Width - 1) /\ pm.size \in 0..Width
  BY WidthFacts, PermuterType DEF Slots
<1>2. PICK s : s = SetSize(pm, left)
  OBVIOUS
<1>3. left \in 0..Width
  BY <1>1
<1>4. s \in Permuters /\ Injective(s) /\ s.size = left /\ s.slot = pm.slot
  BY <1>2, <1>3, SetSizeOK
<1>5. CASE pm.size = Width
  BY <1>2, <1>4, <1>5 DEF Back
<1>6. CASE pm.size = Width - 1
  <2>1. left \in Slots /\ Width - 1 \in Slots /\ pm.size # Width
    BY <1>1, <1>6
  <2>2. new = Exchange(s, left, Width - 1)
    BY <1>2, <2>1
  <2>3. /\ new \in Permuters /\ Injective(new) /\ new.size = s.size
        /\ \A k \in Slots : k # left /\ k # Width - 1 => new.slot[k] = s.slot[k]
        /\ new.slot[Width - 1] = s.slot[left]
    <3>1. PICK z \in Slots : z = Width - 1
      BY <2>1
    <3>2. new = Exchange(s, left, z)
      BY <2>2, <3>1
    <3>3. /\ new \in Permuters /\ Injective(new) /\ new.size = s.size
          /\ \A k \in Slots : k # left /\ k # z => new.slot[k] = s.slot[k]
          /\ new.slot[z] = s.slot[left]
      <4>1. PICK i \in Slots : i = left
        BY <2>1
      <4>2. /\ Exchange(s, i, z) \in Permuters /\ Injective(Exchange(s, i, z))
            /\ Exchange(s, i, z).size = s.size
            /\ \A k \in Slots : k # i /\ k # z => Exchange(s, i, z).slot[k] = s.slot[k]
            /\ Exchange(s, i, z).slot[z] = s.slot[i]
        BY <1>4, ExchangeOK
      <4>3. new = Exchange(s, i, z)
        BY <3>2, <4>1
      <4>4. QED
        BY <4>1, <4>2, <4>3
    <3>4. QED
      BY <3>1, <3>3
  <2>4. \A j \in 0..(left - 1) : j \in Slots /\ j # left /\ j # Width - 1
    BY <1>1, <1>6
  <2>5. QED
    BY <1>4, <2>1, <2>3, <2>4 DEF Back
<1>7. QED
  BY <1>5, <1>6

LEMMA LessTwice ==
  ASSUME NEW a \in Slot, NEW b \in Slot, NEW c \in Slot, Less(a, b), Less(b, c)
  PROVE  a.ikey < c.ikey
<1>1. a.ikey \in Nat /\ b.ikey \in Nat /\ c.ikey \in Nat
  BY SlotType
<1>2. QED
  BY <1>1 DEF Less

(* The last slot of a full leaf is not the one that keeps its bound.       *)
LEMMA BackNotBound ==
  ASSUME IInv, NEW n \in Leaves, NEW l \in layers, In(n, l), perm[n].size = Width, prev[n] # None,
         \A s : Ent(n, s) = slot[n][s]
  PROVE  Back(perm[n]) # 0
<1>1. SUFFICES ASSUME Back(perm[n]) = 0 PROVE FALSE
  OBVIOUS
<1>2. PICK w \in Nat : w = Width /\ w >= 3
  BY WidthFacts
<1>3. TypeOK /\ Index(perm[n]) = 0..(w - 1)
  BY <1>2 DEF IInv, StoreInv, Index
<1>4. 0 \in Index(perm[n]) /\ 1 \in Index(perm[n]) /\ w - 1 \in Index(perm[n]) /\ 0 < 1 /\ 1 < w - 1
  BY <1>2, <1>3
<1>5. At(n, 0) \in Slot /\ At(n, 1) \in Slot /\ At(n, w - 1) \in Slot
  BY <1>3, <1>4, AtType
<1>6. Less(At(n, 0), At(n, 1)) /\ Less(At(n, 1), At(n, w - 1))
  BY <1>4 DEF IInv, StoreInv, SortInv, SortedBy, At
<1>7. At(n, 0).ikey < At(n, w - 1).ikey
  BY <1>5, <1>6, LessTwice
<1>8. At(n, w - 1).ikey = low[n]
  BY <1>1, <1>2 DEF Back, At, IInv, StoreInv, BoundInv
<1>9. At(n, 0) \in Entries(n)
  BY <1>4, EntriesAt
<1>10. low[n] <= At(n, 0).ikey
  BY <1>9 DEF IInv, StoreInv, LeafInv, Covers
<1>11. low[n] \in Nat /\ At(n, 0).ikey \in Nat
  BY <1>3, <1>5, LeafType, SlotType
<1>12. QED
  BY <1>7, <1>8, <1>10, <1>11

LEMMA ThreadSwap ==
  ASSUME NEW c \in Thread, NEW u \in Pcs, NEW n \in Leaves, NEW m \in Leaves, NEW i \in Int, NEW s \in Slots
  PROVE  [c EXCEPT !.pc = u, !.node = n, !.other = m, !.i = i, !.p = s] \in Thread
BY DEF Thread

MidView(p, c, n, nr) ==
  /\ TypeOK /\ c \in Thread /\ t \in [Procs -> Thread] /\ KeyOK(c) /\ MidOK(c) /\ HomeOK(c)
  /\ n \in Leaves /\ nr \in Leaves /\ locked[n] = p /\ locked[nr] = p /\ n # nr
  /\ n \notin deleted /\ next[n] = nr /\ prev[nr] = n /\ low[n] < low[nr]
  /\ layer[n] \in layers /\ In(n, layer[n]) /\ In(nr, layer[n])
  /\ Splitting(n) /\ ~Splitting(nr) /\ \A m \in Leaves : locked[m] = p => m = n \/ m = nr
  /\ \A s : Ent(n, s) = slot[n][s]
  /\ \A s : Ent(nr, s) = slot[nr][s]

LEMMA MidMine ==
  ASSUME IInv, NEW p \in Procs, t[p].pc \in MidPc
  PROVE  MidView(p, t[p], t[p].node, t[p].other)
<1> DEFINE c == t[p]
           n == c.node
           nr == c.other
<1>1. /\ TypeOK /\ c \in Thread /\ t \in [Procs -> Thread] /\ KeyOK(c) /\ LockOK(c)
      /\ n \in Leaves /\ locked[n] = p /\ nr # n
      /\ nr # None => nr \in Leaves /\ locked[nr] = p
      /\ \A m \in Leaves : locked[m] = p <=> Owns(c, m)
  BY LockMine, MidPcs
<1>2. MidOK(c) /\ HomeOK(c) /\ n \notin deleted
  BY <1>1, MidPcs DEF LockOK
<1>3. nr # None /\ next[n] = nr /\ layer[n] \in layers /\ In(n, layer[n])
  BY <1>2 DEF MidOK, HomeOK
<1>4. prev[nr] = n /\ low[n] < low[nr] /\ In(nr, layer[n])
  BY <1>1, <1>3 DEF IInv, StoreInv, ListInv
<1>5. None \notin Procs
  BY ConstantFacts
<1>6. Splitting(n) /\ ~Splitting(nr)
  BY <1>1, <1>3, <1>5 DEF Splitting
<1>7. \A m \in Leaves : locked[m] = p => m = n \/ m = nr
  BY <1>1 DEF Owns
<1>8. \A s : Ent(n, s) = slot[n][s]
  BY <1>1, EntSlot, MidPcs
<1>9. \A s : Ent(nr, s) = slot[nr][s]
  BY <1>1, <1>3, EntSlot, MidPcs
<1>10. QED
  BY <1>1, <1>2, <1>3, <1>4, <1>6, <1>7, <1>8, <1>9 DEF MidView

LEMMA StripPcs ==
  \A u \in {"assign_lv", "release"} :
     /\ u \in LockPc /\ u \in Pcs /\ u \notin MidPc /\ u \notin TurnPc /\ u \in OtherPc /\ u # "gc_lock" /\ u # "done"
     /\ u \in AssignPc \cup StorePc /\ u \notin DeletePc \cup {"unlock"} /\ u \notin DeletePc /\ u \notin LayerPc
     /\ u # "found" /\ u # "remove" /\ u # "unlock"
BY DEF LockPc, Pcs, MidPc, TurnPc, OtherPc, AssignPc, StorePc, DeletePc, LayerPc

(* The permutation and the cursor after the strip.                         *)
Stripped(p, c, n, nr, left, new, d) ==
  /\ c.pc = "split_strip" /\ left = perm[n].size - perm[nr].size
  /\ Injective(new) /\ new.size = left /\ \A j \in 0..(left - 1) : new.slot[j] = perm[n].slot[j]
  /\ Back(new) = IF perm[n].size = Width THEN Back(perm[n]) ELSE perm[n].slot[left]
  /\ perm' = [perm EXCEPT ![n] = new] /\ t' = [t EXCEPT ![p] = d]
  /\ UNCHANGED <<slot, modstate, locked, dirty, deleted, layer, low, next, prev, layers, gcs, scene, ops, db>>
  /\ d.key = c.key /\ d.depth = c.depth /\ d.root = c.root /\ d.op = c.op /\ d.may = c.may /\ d.val = c.val
  /\ d.held = c.held
  /\ c.state = 0 => d.pc = "assign_lv" /\ d.node = n /\ d.other = nr /\ d.i = c.i /\ d.p = Back(new)
  /\ c.state = 1 => d.pc = "release" /\ d.node = nr /\ d.other = n /\ d.i = c.i - left /\ d.p = c.i - left

LEMMA StripMine ==
  ASSUME IInv, NEW p \in Procs, SplitStrip(p),
         NEW c \in Thread, c = t[p], NEW n \in Leaves, n = c.node, NEW nr \in Leaves, nr = c.other
  PROVE  \E left \in 0..perm[n].size : \E new \in Permuters : \E d \in Thread : Stripped(p, c, n, nr, left, new, d)
<1>1. c.pc = "split_strip"
  BY DEF SplitStrip
<1>2. TypeOK /\ MidOK(c) /\ t \in [Procs -> Thread]
  BY <1>1, MidMine, MidPcs DEF MidView
<1>3. PICK pm \in Permuters : pm = perm[n] /\ Injective(pm) /\ pm.size \in 0..Width
  BY <1>2, LeafType, PermuterType DEF IInv, StoreInv, SortInv
<1>4. perm[nr].size \in 0..Width /\ Width \in Nat
  BY <1>2, LeafType, PermuterType, WidthFacts
<1>5. PICK left \in 0..pm.size : left = pm.size - perm[nr].size
  BY <1>2, <1>3, <1>4 DEF MidOK
<1>6. pm.size \in {Width - 1, Width}
  BY <1>2, <1>3 DEF MidOK
<1>7. PICK new : new = IF pm.size # Width THEN Exchange(SetSize(pm, left), left, Width - 1) ELSE SetSize(pm, left)
  OBVIOUS
<1>8. /\ new \in Permuters /\ Injective(new) /\ new.size = left
      /\ \A j \in 0..(left - 1) : new.slot[j] = pm.slot[j]
      /\ Back(new) = IF pm.size = Width THEN Back(pm) ELSE pm.slot[left]
  BY <1>3, <1>6, <1>7, StripPerm
<1>9. SetSize(pm, left).size = left
  BY <1>3, <1>5 DEF SetSize, Permuters
<1>10. /\ perm' = [perm EXCEPT ![n] = new]
       /\ UNCHANGED <<slot, modstate, locked, dirty, deleted, layer, low, next, prev, layers, gcs, scene, ops, db>>
       /\ t' = [t EXCEPT ![p] =
             IF c.state = 0 THEN [c EXCEPT !.pc = "assign_lv", !.p = Back(new)]
             ELSE [c EXCEPT !.pc = "release", !.node = nr, !.other = n,
                            !.i = @ - new.size, !.p = c.i - new.size]]
  BY <1>3, <1>5, <1>7, <1>9 DEF SplitStrip
<1>11. c.state \in {0, 1} /\ c.i \in Int /\ left \in Int
  BY <1>2, <1>3, ThreadType DEF MidOK
<1>12. CASE c.state = 0
  <2>1. PICK u \in Pcs : u = "assign_lv"
    BY StripPcs
  <2>2. PICK s \in Slots : s = Back(new)
    BY <1>8, PermuterType
  <2>3. PICK d \in Thread : d = [c EXCEPT !.pc = u, !.p = s]
    BY ThreadPlace
  <2>4. t' = [t EXCEPT ![p] = d]
    BY <1>10, <1>12, <2>1, <2>2, <2>3
  <2>5. /\ d.key = c.key /\ d.depth = c.depth /\ d.root = c.root /\ d.op = c.op /\ d.may = c.may /\ d.val = c.val
        /\ d.held = c.held /\ d.pc = "assign_lv" /\ d.node = n /\ d.other = nr /\ d.i = c.i /\ d.p = Back(new)
    BY <2>1, <2>2, <2>3 DEF Thread
  <2>6. Stripped(p, c, n, nr, left, new, d)
      <3>1. left = perm[n].size - perm[nr].size /\ pm = perm[n] /\ c.state # 1
      BY <1>3, <1>5, <1>12
    <3>2. /\ perm' = [perm EXCEPT ![n] = new]
          /\ UNCHANGED <<slot, modstate, locked, dirty, deleted, layer, low, next, prev, layers, gcs, scene, ops, db>>
      BY <1>10
    <3>3. QED
      BY <1>1, <1>8, <2>4, <2>5, <3>1, <3>2 DEF Stripped
  <2>7. QED
    BY <1>3, <1>8, <2>6
<1>13. CASE c.state = 1
  <2>1. PICK u \in Pcs : u = "release"
    BY StripPcs
  <2>2. PICK s \in Slots : s = c.i - left
    BY <1>2, <1>3, <1>5, <1>13 DEF MidOK
  <2>3. PICK i \in Int : i = c.i - left
    BY <1>11
  <2>4. PICK d \in Thread : d = [c EXCEPT !.pc = u, !.node = nr, !.other = n, !.i = i, !.p = s]
    BY ThreadSwap
  <2>5. t' = [t EXCEPT ![p] = d]
    BY <1>8, <1>10, <1>13, <2>1, <2>2, <2>3, <2>4
  <2>6. /\ d.key = c.key /\ d.depth = c.depth /\ d.root = c.root /\ d.op = c.op /\ d.may = c.may /\ d.val = c.val
        /\ d.held = c.held /\ d.pc = "release" /\ d.node = nr /\ d.other = n /\ d.i = c.i - left /\ d.p = c.i - left
    BY <2>1, <2>2, <2>3, <2>4 DEF Thread
  <2>7. Stripped(p, c, n, nr, left, new, d)
      <3>1. left = perm[n].size - perm[nr].size /\ pm = perm[n] /\ c.state # 0
      BY <1>3, <1>5, <1>13
    <3>2. /\ perm' = [perm EXCEPT ![n] = new]
          /\ UNCHANGED <<slot, modstate, locked, dirty, deleted, layer, low, next, prev, layers, gcs, scene, ops, db>>
      BY <1>10
    <3>3. QED
      BY <1>1, <1>8, <2>5, <2>6, <3>1, <3>2 DEF Stripped
  <2>8. QED
    BY <1>3, <1>8, <2>7
<1>14. QED
  BY <1>11, <1>12, <1>13

(* The entries that stay.                                                  *)
LEMMA StripEntries ==
  ASSUME IInv, NEW p \in Procs, NEW c \in Thread, c = t[p], NEW n \in Leaves, n = c.node,
         NEW nr \in Leaves, nr = c.other, NEW left \in 0..perm[n].size, NEW new \in Permuters, NEW d \in Thread,
         Stripped(p, c, n, nr, left, new, d)
  PROVE  /\ \A e : e \in Filled(new, slot[n]) <=> e \in Entries(n) /\ e.ikey < low[nr]
         /\ \A e \in Entries(n) : e.ikey \in Nat /\ (~(e.ikey < low[nr]) => e \in Entries(nr))
         /\ low[nr] \in Nat
<1>0. /\ c.pc = "split_strip" /\ left = perm[n].size - perm[nr].size
      /\ new.size = left /\ \A j \in 0..(left - 1) : new.slot[j] = perm[n].slot[j]
  BY DEF Stripped
<1>1. /\ TypeOK /\ MidOK(c) /\ layer[n] \in layers /\ In(n, layer[n]) /\ In(nr, layer[n]) /\ Splitting(n) /\ next[n] = nr
      /\ \A s : Ent(n, s) = slot[n][s]
      /\ \A s : Ent(nr, s) = slot[nr][s]
  <2>1. MidView(p, c, n, nr)
    BY <1>0, MidMine, MidPcs
  <2>2. QED
    BY <2>1 DEF MidView
<1>2. /\ \A e \in Entries(n) : e.ikey >= low[nr] => e \in Entries(nr)
      /\ low[nr] \in Nat /\ \A e \in Entries(n) : e.ikey \in Nat
  BY <1>1, TwinEntries, LeafType, EntryType, SlotType
<1>3. \A j \in 0..(left - 1) : At(n, j).ikey < low[nr]
  BY <1>0, <1>1 DEF MidOK
<1>4. perm[n].size \in Nat /\ perm[nr].size \in Nat
  BY <1>1, LeafType, PermuterType
<1>5. Index(new) = 0..(left - 1) /\ Index(perm[n]) = 0..(perm[n].size - 1)
  BY <1>0 DEF Index
<1>6. \A j \in 0..(left - 1) : j \in 0..(perm[n].size - 1)
  BY <1>4
<1>7. /\ \A e \in Entries(n) : \E i \in Index(perm[n]) : e = At(n, i)
      /\ \A i \in Index(perm[n]) : At(n, i) \in Entries(n)
  BY <1>1, EntriesAt
<1>8. (\A e \in Filled(new, slot[n]) : \E j \in 0..(left - 1) : e = At(n, j))
      /\ \A j \in 0..(left - 1) : At(n, j) \in Filled(new, slot[n])
  <2>1. \A j \in 0..(left - 1) : slot[n][new.slot[j]] = At(n, j)
    BY <1>0 DEF At
  <2>2. QED
    BY <1>5, <2>1 DEF Filled
<1>13. \A j \in Index(perm[nr]) : At(nr, j) = At(n, left + j)
  BY <1>0, <1>1 DEF MidOK
<1>9. ASSUME NEW i \in Index(perm[n]), At(n, i).ikey < low[nr] PROVE i \in 0..(left - 1)
  <2>1. SUFFICES ASSUME ~(i < left) PROVE FALSE
    BY <1>4, <1>5
  <2>2. PICK j \in Index(perm[nr]) : j = i - left
    BY <1>0, <1>4, <1>5, <2>1 DEF Index
  <2>3. left + j = i
    BY <1>4, <1>5, <2>2
  <2>4. At(nr, j) = At(n, i)
    BY <1>13, <2>2, <2>3
  <2>5. At(nr, j) \in Entries(nr)
    BY <1>1, <2>2, EntriesAt
  <2>6. low[nr] <= At(nr, j).ikey
    BY <1>1, <2>5 DEF IInv, StoreInv, LeafInv, Covers
  <2>7. At(n, i).ikey \in Nat
    BY <1>2, <1>7
  <2>8. QED
    BY <1>2, <1>9, <2>4, <2>6, <2>7
<1>10. \A e : e \in Filled(new, slot[n]) <=> e \in Entries(n) /\ e.ikey < low[nr]
  BY <1>3, <1>5, <1>6, <1>7, <1>8, <1>9
<1>11. \A e \in Entries(n) : ~(e.ikey < low[nr]) => e \in Entries(nr)
  BY <1>2
<1>12. QED
  BY <1>2, <1>10, <1>11

(* The cursor that gives up the keys right of the new leaf's bound.        *)
Strips(p, c, n, nr, left, new, d) ==
  /\ c = t[p]
  /\ n = c.node
  /\ nr = c.other
  /\ t'[p] = d
  /\ Stripped(p, c, n, nr, left, new, d)
  /\ layer[n] \in layers
  /\ In(n, layer[n])'
  /\ In(nr, layer[n])'
  /\ \A x \in Nat : Covers(n, x) =>
         (x < low[nr] => Covers(n, x)') /\ (low[nr] <= x => Covers(nr, x)')
  /\ \A l, a : Attached(l, a)' <=> Attached(l, a)

LEMMA StripKept ==
  ASSUME IInv, TypeOK', NEW p \in Procs, NEW c \in Thread, NEW n \in Leaves, NEW nr \in Leaves, NEW left \in 0..perm[n].size, NEW new \in Permuters, NEW d \in Thread,
         Strips(p, c, n, nr, left, new, d)
  PROVE  ThreadOK(d)'
<1>a. /\ c = t[p]
      /\ n = c.node
      /\ nr = c.other
      /\ t'[p] = d
  BY DEF Strips
<1>s. Stripped(p, c, n, nr, left, new, d)
  BY DEF Strips
<1>b. /\ layer[n] \in layers
      /\ In(n, layer[n])'
      /\ In(nr, layer[n])'
  BY DEF Strips
<1>v. \A x \in Nat : Covers(n, x) =>
           (x < low[nr] => Covers(n, x)') /\ (low[nr] <= x => Covers(nr, x)')
  BY DEF Strips
<1>l. \A l, a : Attached(l, a)' <=> Attached(l, a)
  BY DEF Strips
<1>1. /\ c.pc = "split_strip" /\ left = perm[n].size - perm[nr].size
      /\ Injective(new) /\ new.size = left /\ (\A j \in 0..(left - 1) : new.slot[j] = perm[n].slot[j])
      /\ Back(new) = IF perm[n].size = Width THEN Back(perm[n]) ELSE perm[n].slot[left]
      /\ perm' = [perm EXCEPT ![n] = new]
      /\ UNCHANGED <<slot, modstate, locked, dirty, deleted, layer, low, next, prev, layers, gcs, scene, ops, db>>
      /\ d.key = c.key /\ d.depth = c.depth /\ d.root = c.root /\ d.op = c.op /\ d.may = c.may /\ d.val = c.val
      /\ d.held = c.held
      /\ c.state = 0 => d.pc = "assign_lv" /\ d.node = n /\ d.other = nr /\ d.i = c.i /\ d.p = Back(new)
      /\ c.state = 1 => d.pc = "release" /\ d.node = nr /\ d.other = n /\ d.i = c.i - left /\ d.p = c.i - left
  BY <1>s DEF Stripped
<1>2. c.pc \in MidPc
  BY <1>1, MidPcs
<1>3. MidView(p, c, n, nr)
  BY <1>a, <1>2, MidMine
<1>4. /\ TypeOK /\ KeyOK(c) /\ MidOK(c) /\ HomeOK(c) /\ n # nr /\ n \notin deleted /\ prev[nr] = n
      /\ In(n, layer[n]) /\ (\A s : Ent(n, s) = slot[n][s])
  BY <1>3 DEF MidView
<1>5. /\ perm' \in [Leaves -> Permuters] /\ perm'[n] = new /\ perm'[nr] = perm[nr] /\ perm \in [Leaves -> Permuters]
  BY <1>1, <1>4 DEF TypeOK, LeafTypeOK
<1>6. /\ c.op = "put" /\ modstate[n] = "insert" /\ Position(c) /\ layer[nr] = layer[n] /\ nr \notin deleted
      /\ modstate[nr] = "insert"
      /\ perm[n].size = Width \/ (perm[n].size = Width - 1 /\ Back(perm[n]) = 0)
      /\ (\A j \in Index(perm[nr]) : At(nr, j) = At(n, left + j))
      /\ c.state = 0 => c.i <= left /\ Ikey(c) < low[nr] /\ perm[nr].size > 0
      /\ c.state = 1 => /\ left > 0 /\ c.i >= left /\ c.i - left \in Slots /\ low[nr] <= Ikey(c)
                        /\ c.i - left = Back(perm[nr]) /\ perm[nr].size < Width
                        /\ SlotIs(c, slot[nr][c.i - left])
      /\ c.state \in {0, 1}
  <2>1. MidOK(c) /\ c.pc = "split_strip" /\ c.pc # "split_tree" /\ left = perm[c.node].size - perm[c.other].size
    BY <1>a, <1>1, <1>4
  <2>2. QED
    BY <1>a, <2>1 DEF MidOK
<1>7. perm[n].size \in Nat /\ perm[nr].size \in Nat /\ Width \in Nat /\ Width >= 3 /\ c.i \in 0..perm[n].size /\ left \in Nat
  BY <1>a, <1>4, <1>6, LeafType, PermuterType, WidthFacts DEF Position
<1>15. /\ new.size = left /\ left + perm[nr].size = perm[n].size /\ c.i \in Int
       /\ Index(new) = 0..(left - 1) /\ Index(perm[n]) = 0..(perm[n].size - 1) /\ Index(perm[nr]) = 0..(perm[nr].size - 1)
       /\ \A j \in 0..(left - 1) : j \in 0..(perm[n].size - 1)
  <2>1. new.size = left /\ left = perm[n].size - perm[nr].size
    BY <1>1
  <2>2. QED
    BY <1>7, <2>1 DEF Index
<1>8. /\ KeyOK(d)' /\ Ikey(d) = Ikey(c) /\ (HasSuffix(d) <=> HasSuffix(c)) /\ Ikey(c) \in Nat
      /\ \A s : Compare(d, s) = Compare(c, s) /\ KsufMatches(d, s) = KsufMatches(c, s)
      /\ \A s : SlotIs(d, s) <=> SlotIs(c, s)
  <2>1. Ikey(d) = Ikey(c) /\ (HasSuffix(d) <=> HasSuffix(c))
    BY <1>1 DEF Ikey, HasSuffix
  <2>2. \A s : Compare(d, s) = Compare(c, s) /\ KsufMatches(d, s) = KsufMatches(c, s)
    BY <1>1, <2>1 DEF Compare, KsufMatches
  <2>3. \A s : SlotIs(d, s) <=> SlotIs(c, s)
    BY <1>1, <2>1 DEF SlotIs
  <2>4. d.pc \in {"assign_lv", "release"} /\ c.op # "get"
    BY <1>1, <1>6
  <2>5. KeyOK(d)'
    BY <1>1, <1>4, <2>4, StripPcs DEF KeyOK
  <2>6. QED
    BY <1>4, <2>1, <2>2, <2>3, <2>5, IkeyType
<1>9. d.pc \in {"assign_lv", "release"} /\ d.pc \in LockPc /\ d.pc \in AssignPc \cup StorePc
  BY <1>1, <1>6, StripPcs
<1>10. Covers(n, Ikey(c)) /\ Level(c)
  BY <1>a, <1>4 DEF HomeOK
<1>11. \A j \in Index(perm[n]) : /\ j < c.i => Compare(c, At(n, j)) = 1
                                 /\ j >= c.i => Compare(c, At(n, j)) = -1
  BY <1>a, <1>6 DEF Position
<1>12. CASE c.state = 0
  <2>1. d.pc = "assign_lv" /\ d.node = n /\ d.other = nr /\ d.i = c.i /\ d.p = Back(new)
    BY <1>1, <1>12
  <2>2. HomeOK(d)'
    <3>1. Covers(n, Ikey(c))'
      BY <1>v, <1>6, <1>8, <1>10, <1>12
    <3>2. Level(d)'
      BY <1>a, <1>l, <1>1, <1>10, <2>1 DEF Level
    <3>3. QED
      BY <1>b, <1>1, <1>8, <2>1, <3>1, <3>2 DEF HomeOK
  <2>3. Position(d)'
    <3>1. \A j \in 0..(left - 1) : slot'[n][new.slot[j]] = At(n, j)
      BY <1>1 DEF At
    <3>2. \A j \in Index(new) : j \in Index(perm[n]) /\ At(n, j)' = At(n, j)
      <4>1. \A j \in Index(new) : At(n, j)' = At(n, j)
        BY <1>5, <1>15, <3>1 DEF At
      <4>2. QED
        BY <1>15, <4>1
    <3>3. d.i \in 0..new.size
      <4>1. c.i <= left /\ d.i = c.i
        BY <1>6, <1>12, <2>1
      <4>2. QED
        BY <1>7, <1>15, <4>1
    <3>4. \A j \in Index(new) : /\ j < d.i => Compare(d, At(n, j)') = 1
                                /\ j >= d.i => Compare(d, At(n, j)') = -1
      <4>1. ASSUME NEW j \in Index(new) PROVE Compare(d, At(n, j)') = Compare(c, At(n, j)) /\ j \in Index(perm[n])
        BY <1>8, <3>2, <4>1
      <4>2. d.i = c.i
        BY <2>1
      <4>3. SUFFICES ASSUME NEW j \in Index(new) PROVE /\ j < d.i => Compare(d, At(n, j)') = 1
                                                       /\ j >= d.i => Compare(d, At(n, j)') = -1
        OBVIOUS
      <4>4. /\ j < c.i => Compare(c, At(n, j)) = 1
            /\ j >= c.i => Compare(c, At(n, j)) = -1
        BY <1>11, <4>1
      <4>5. QED
        BY <4>1, <4>2, <4>4
    <3>5. QED
      BY <1>5, <2>1, <3>3, <3>4 DEF Position
  <2>4. new.size < Width
    <3>1. perm[nr].size > 0 /\ perm[n].size <= Width
      BY <1>6, <1>7, <1>12
    <3>2. QED
      BY <1>7, <1>15, <3>1
  <2>5. d.p = 0 => prev[n] = None \/ low[n] = Ikey(c)
    <3>1. SUFFICES ASSUME Back(new) = 0, prev[n] # None PROVE FALSE
      BY <2>1
    <3>2. CASE perm[n].size = Width
      <4>1. Back(perm[n]) = 0
        BY <1>1, <3>1, <3>2
      <4>2. QED
        BY <1>b, <1>4, <3>1, <3>2, <4>1, BackNotBound
    <3>3. CASE perm[n].size = Width - 1 /\ Back(perm[n]) = 0
      <4>1. left \in Slots /\ left # Width - 1 /\ Width - 1 \in Slots
        BY <1>1, <1>6, <1>7, <1>12, <3>3 DEF Slots
      <4>2. perm[n].slot[left] = 0 /\ perm[n].slot[Width - 1] = 0
        BY <1>1, <1>7, <3>1, <3>3 DEF Back
      <4>3. Injective(perm[n])
        BY DEF IInv, StoreInv, SortInv
      <4>4. QED
        BY <4>1, <4>2, <4>3 DEF Injective
    <3>4. QED
      BY <1>6, <3>2, <3>3
  <2>6. NewOK(d)'
    <3>1. d.pc \notin {"assign_keylenx", "assign_ksuf"} /\ d.pc \notin StorePc /\ d.pc # "publish" /\ d.pc # "release"
          /\ d.pc # "assign_ksuf"
      BY <2>1 DEF StorePc
    <3>2. d.op = "put" /\ modstate'[n] = "insert" /\ perm'[n].size < Width /\ d.p = Back(perm'[n]) /\ perm'[nr].size > 0
          /\ (d.p = 0 => prev'[n] = None \/ low'[n] = Ikey(d))
      BY <1>1, <1>5, <1>6, <1>8, <1>12, <2>1, <2>4, <2>5
    <3>3. QED
      BY <2>1, <2>3, <3>1, <3>2 DEF NewOK
  <2>7. LockOK(d)'
    <3>1. n \notin deleted'
      BY <1>1, <1>4
    <3>2. QED
      BY <1>9, <2>1, <2>2, <2>6, <3>1, StripPcs DEF LockOK
  <2>8. QED
    BY <1>8, <1>9, <2>7, HolderOK, StripPcs
<1>13. CASE c.state = 1
  <2>1. d.pc = "release" /\ d.node = nr /\ d.other = n /\ d.i = c.i - left /\ d.p = c.i - left
    BY <1>1, <1>13
  <2>2. HomeOK(d)'
    <3>1. Covers(nr, Ikey(c))'
      BY <1>v, <1>6, <1>8, <1>10, <1>13
    <3>2. Level(d)'
      <4>1. d.depth = c.depth /\ d.key = c.key /\ d.node = nr /\ layer'[nr] = layer[c.node]
        BY <1>a, <1>1, <1>6, <2>1
      <4>2. PICK y : y = layer[c.node]
        OBVIOUS
      <4>3. Attached(y, c.key[1])' <=> Attached(y, c.key[1])
        BY <1>l
      <4>4. QED
        BY <1>10, <4>1, <4>2, <4>3 DEF Level
    <3>3. layer'[nr] \in layers' /\ In(nr, layer[nr])'
      BY <1>b, <1>1, <1>6
    <3>4. QED
      BY <1>8, <2>1, <3>1, <3>2, <3>3 DEF HomeOK
  <2>3. Position(d)'
    <3>1. Index(perm[nr]) = 0..(perm[nr].size - 1) /\ Index(perm[n]) = 0..(perm[n].size - 1)
      BY DEF Index
    <3>2. \A j \in Index(perm[nr]) : left + j \in Index(perm[n]) /\ At(nr, j)' = At(n, left + j)
          /\ (j < c.i - left <=> left + j < c.i) /\ (j >= c.i - left <=> left + j >= c.i)
      <4>1. \A j \in Index(perm[nr]) : At(nr, j)' = At(n, left + j)
        <5>1. \A j \in Index(perm[nr]) : At(nr, j)' = At(nr, j)
          BY <1>1, <1>5 DEF At
        <5>2. QED
          BY <1>6, <5>1
      <4>2. \A j \in Index(perm[nr]) : left + j \in Index(perm[n])
        <5>1. PICK a \in Nat, b \in Nat : a = perm[n].size /\ b = perm[nr].size /\ left + b = a
          BY <1>7, <1>15
        <5>2. \A j \in 0..(b - 1) : left + j \in 0..(a - 1)
          BY <1>7, <5>1
        <5>3. QED
          BY <1>15, <5>1, <5>2
      <4>3. \A j \in Index(perm[nr]) : (j < c.i - left <=> left + j < c.i) /\ (j >= c.i - left <=> left + j >= c.i)
        <5>1. \A j \in Int : (j < c.i - left <=> left + j < c.i) /\ (j >= c.i - left <=> left + j >= c.i)
          BY <1>7, <1>15
        <5>2. Index(perm[nr]) \subseteq Int
          BY <1>7, <1>15
        <5>3. QED
          BY <5>1, <5>2
      <4>4. QED
        BY <4>1, <4>2, <4>3
    <3>3. d.i \in 0..perm[nr].size
      <4>1. c.i >= left /\ d.i = c.i - left
        BY <1>6, <1>13, <2>1
      <4>2. QED
        BY <1>7, <1>15, <4>1
    <3>4. \A j \in Index(perm[nr]) : /\ j < d.i => Compare(d, At(nr, j)') = 1
                                     /\ j >= d.i => Compare(d, At(nr, j)') = -1
      BY <1>8, <1>11, <2>1, <3>2
    <3>5. QED
      <4>1. d.node = nr /\ perm'[nr] = perm[nr]
        BY <1>5, <2>1
      <4>2. \A j \in Index(perm'[d.node]) : /\ j < d.i => Compare(d, At(d.node, j)') = 1
                                            /\ j >= d.i => Compare(d, At(d.node, j)') = -1
        BY <3>4, <4>1
      <4>3. d.i \in 0..perm'[d.node].size
        BY <3>3, <4>1
      <4>4. QED
        BY <4>2, <4>3 DEF Position
  <2>4. d.p = 0 => low[nr] = Ikey(c)
    <3>1. SUFFICES ASSUME d.p = 0 PROVE low[nr] = Ikey(c)
      OBVIOUS
    <3>2. slot[nr][0].ikey = Ikey(c)
      BY <1>6, <1>13, <2>1, <3>1 DEF SlotIs
    <3>3. prev[nr] # None
      BY <1>4, ConstantFacts
    <3>4. QED
      BY <3>2, <3>3 DEF IInv, StoreInv, BoundInv
  <2>5. NewOK(d)'
    <3>1. d.pc \notin {"assign_keylenx", "assign_ksuf"} /\ d.pc # "publish" /\ d.pc # "assign_ksuf"
      BY <2>1
    <3>2. d.op = "put" /\ modstate'[nr] = "insert" /\ perm'[nr].size < Width /\ d.p = Back(perm'[nr]) /\ perm'[n].size > 0
          /\ (d.p = 0 => prev'[nr] = None \/ low'[nr] = Ikey(d)) /\ SlotIs(d, slot'[nr][d.p]) /\ n # None
      BY <1>1, <1>5, <1>6, <1>8, <1>13, <2>1, <2>4, ConstantFacts
    <3>3. SlotIs(d, slot[nr][d.p])'
      BY <3>2 DEF SlotIs, Ikey, HasSuffix
    <3>4. QED
      BY <2>1, <2>3, <3>1, <3>2, <3>3 DEF NewOK
  <2>6. LockOK(d)'
    <3>1. nr \notin deleted'
      BY <1>1, <1>6
    <3>2. QED
      BY <1>9, <2>1, <2>2, <2>5, <3>1, StripPcs DEF LockOK
  <2>7. QED
    BY <1>8, <1>9, <2>6, HolderOK, StripPcs
<1>14. QED
  BY <1>6, <1>12, <1>13

LEMMA SplitStripStep ==
  ASSUME IInv, NEW p \in Procs, SplitStrip(p)
  PROVE  IInv'
<1>1. PICK c \in Thread : c = t[p] /\ c.pc = "split_strip" /\ c.pc \in MidPc
  BY Mine, MidPcs DEF SplitStrip
<1>2. MidView(p, c, c.node, c.other)
  BY <1>1, MidMine
<1>3. PICK n \in Leaves, nr \in Leaves : n = c.node /\ nr = c.other
  BY <1>2 DEF MidView
<1>4. PICK left \in 0..perm[n].size : \E new \in Permuters : \E d \in Thread : Stripped(p, c, n, nr, left, new, d)
  BY <1>1, <1>3, StripMine
<1>5. PICK new \in Permuters : \E d \in Thread : Stripped(p, c, n, nr, left, new, d)
  BY <1>4
<1>6. PICK d \in Thread : Stripped(p, c, n, nr, left, new, d)
  BY <1>5
<1>7. /\ left = perm[n].size - perm[nr].size
      /\ Injective(new) /\ new.size = left /\ (\A j \in 0..(left - 1) : new.slot[j] = perm[n].slot[j])
      /\ perm' = [perm EXCEPT ![n] = new] /\ t' = [t EXCEPT ![p] = d]
      /\ UNCHANGED <<slot, modstate, locked, dirty, deleted, layer, low, next, prev, layers, gcs, scene, ops, db>>
      /\ d.held = c.held
      /\ c.state = 0 => d.pc = "assign_lv" /\ d.node = n /\ d.other = nr
      /\ c.state = 1 => d.pc = "release" /\ d.node = nr /\ d.other = n
  BY <1>6 DEF Stripped
<1>8. /\ TypeOK /\ t \in [Procs -> Thread] /\ MidOK(c)
      /\ locked[n] = p /\ locked[nr] = p /\ n # nr /\ next[n] = nr /\ low[n] < low[nr] /\ prev[nr] = n
      /\ layer[n] \in layers /\ In(n, layer[n]) /\ In(nr, layer[n])
      /\ Splitting(n) /\ ~Splitting(nr) /\ (\A m \in Leaves : locked[m] = p => m = n \/ m = nr)
  BY <1>2, <1>3 DEF MidView
<1>9. /\ modstate[n] = "insert" /\ n \in dirty /\ (\A q \in Procs : t[q].node = n => t[q].held = "split")
      /\ c.state \in {0, 1} /\ c.held = "split"
  BY <1>1, <1>3, <1>8 DEF MidOK
<1>10. /\ d.pc \in {"assign_lv", "release"} /\ d.pc \in LockPc /\ d.pc # "gc_lock" /\ d.pc \notin MidPc /\ d.pc \notin TurnPc
       /\ (d.node = n /\ d.other = nr) \/ (d.node = nr /\ d.other = n)
  BY <1>7, <1>9, StripPcs
<1>11. /\ c.pc \in LockPc /\ c.pc # "gc_lock" /\ c.pc \notin TurnPc /\ c.pc \notin {"gc_lock", "split_tree"} \cup UnlinkPc
  BY <1>1, MidPcs
<1>12. ThreadFrame(p) /\ t'[p] = d /\ \A q \in Procs \ {p} : t'[q] = t[q]
  BY <1>7, <1>8, OneFrame
<1>13. perm' \in [Leaves -> Permuters] /\ perm'[n] = new /\ \A m \in Leaves : m # n => perm'[m] = perm[m]
  BY <1>7, <1>8 DEF TypeOK, LeafTypeOK
<1>14. TypeOK'
  <2>1. t' \in [Procs -> Thread]
    BY <1>7, <1>8
  <2>2. QED
    BY <1>7, <1>8, <1>13, <2>1 DEF TypeOK, LeafTypeOK
<1>15. LocksFrame(p)
  BY <1>7 DEF LocksFrame
<1>16. LockInv'
  <2>1. \A m \in Leaves : Owns(d, m) <=> m = n \/ m = nr
    BY <1>10 DEF Owns
  <2>2. \A m \in Leaves : locked'[m] = p <=> Owns(t'[p], m)
    BY <1>7, <1>8, <1>12, <2>1
  <2>3. t'[p].node \in Leaves /\ t'[p].other # t'[p].node
    BY <1>8, <1>10, <1>12
  <2>4. \A m \in dirty' : locked'[m] # None
    BY <1>7 DEF IInv, StoreInv, LockInv
  <2>5. t'[p].held # "same"
    BY <1>7, <1>9, <1>12
  <2>6. LockInv
    BY DEF IInv, StoreInv
  <2>7. \A m \in dirty' : m \in dirty
    BY <1>7
  <2>8. QED
    BY <1>8, <1>12, <1>14, <1>15, <2>2, <2>3, <2>4, <2>5, <2>6, <2>7, LockStep
<1>17. \A m \in Leaves : m # n => (Splitting(m)' <=> Splitting(m))
  <2>1. SUFFICES ASSUME NEW m \in Leaves, m # n PROVE Splitting(m)' <=> Splitting(m)
    OBVIOUS
  <2>2. CASE locked[m] = p
    <3>1. m = nr /\ ~Splitting(nr)
      BY <1>8, <2>1, <2>2
    <3>2. ~Splitting(nr)'
      BY <1>7, <1>8, <1>10, <1>12 DEF Splitting
    <3>3. QED
      BY <3>1, <3>2
  <2>3. CASE locked[m] # p
    <3>1. locked[m] \in (Procs \ {p}) \cup {None}
      BY <1>8, <2>3, LeafType
    <3>2. QED
      BY <1>7, <1>12, <3>1 DEF Splitting
  <2>4. QED
    BY <2>2, <2>3
<1>18. ~Splitting(n)'
  BY <1>7, <1>8, <1>10, <1>12 DEF Splitting
<1>19. /\ \A m \in Leaves : \A y : In(m, y)' <=> In(m, y)
       /\ \A m \in Leaves : m # n => Hi(m)' = Hi(m)
       /\ \A m \in Leaves : m # n => \A y : Covers(m, y)' <=> Covers(m, y)
       /\ \A m \in Leaves : m # n => \A y : Below(m, y)' <=> Below(m, y)
  BY <1>7, <1>17 DEF Linked, In, Hi, Covers, Below
<1>20. Hi(n) = next[nr] /\ Hi(n)' = nr
  BY <1>7, <1>8, <1>18 DEF Hi
<1>21. low[n] \in Nat /\ low[nr] \in Nat /\ next[nr] \in Leaves \cup {None} /\ nr # None /\ \A l \in layers : l \in Layers
  BY <1>8, LeafType, ConstantFacts DEF TypeOK, LeafTypeOK
<1>22. next[nr] # None => low[next[nr]] \in Nat /\ low[nr] < low[next[nr]]
  BY <1>8, <1>21, LeafType DEF IInv, StoreInv, ListInv
<1>23. \A x \in Nat : Covers(n, x)' <=> low[n] <= x /\ x < low[nr]
  BY <1>7, <1>20, <1>21 DEF Covers, Below
<1>24. \A x \in Nat : Covers(n, x) <=> low[n] <= x /\ (next[nr] = None \/ x < low[next[nr]])
  BY <1>20 DEF Covers, Below
<1>25. \A x \in Nat : Covers(n, x)' <=> Covers(n, x) /\ x < low[nr]
  BY <1>21, <1>22, <1>23, <1>24
<1>26. Hi(nr)' = next[nr]
  <2>1. ~Splitting(nr)'
    BY <1>8, <1>17
  <2>2. QED
    BY <1>7, <2>1 DEF Hi
<1>27. \A x \in Nat : Covers(n, x) /\ low[nr] <= x => Covers(nr, x)'
  BY <1>7, <1>24, <1>26 DEF Covers, Below
<1>28. \A m \in Leaves : m # n => Entries(m)' = Entries(m)
  <2>1. \A m \in Leaves : m # n => perm'[m].size = perm[m].size /\ \A i \in Index(perm[m]) :
           perm'[m].slot[i] = perm[m].slot[i] /\ slot'[m][perm[m].slot[i]] = slot[m][perm[m].slot[i]]
    BY <1>7, <1>13
  <2>2. t[p].pc \notin TurnPc /\ t'[p].pc \notin TurnPc
    BY <1>1, <1>10, <1>11, <1>12
  <2>3. QED
    BY <1>7, <1>12, <1>14, <1>15, <2>1, <2>2, EntriesSame
<1>29. /\ \A e : e \in Filled(new, slot[n]) <=> e \in Entries(n) /\ e.ikey < low[nr]
       /\ \A e \in Entries(n) : e.ikey \in Nat /\ (~(e.ikey < low[nr]) => e \in Entries(nr))
       /\ low[nr] \in Nat
  BY <1>1, <1>3, <1>6, StripEntries
<1>30. \A e : e \in Entries(n)' <=> e \in Entries(n) /\ e.ikey < low[nr]
  <2>1. Entries(n)' = Filled(perm'[n], slot'[n])
    BY <1>7, <1>8, <1>10, <1>12, EntriesNext
  <2>2. QED
    BY <1>7, <1>13, <1>29, <2>1
<1>31. \A g, b : Attached(g, b)' <=> Attached(g, b)
  <2>1. \A g, b : Attached(g, b)' => Attached(g, b)
    BY <1>19, <1>28, <1>30 DEF Attached, IsLayer
  <2>2. ASSUME NEW g, NEW b, Attached(g, b) PROVE Attached(g, b)'
    <3>1. PICK m \in Leaves : In(m, RootLayer) /\ \E e \in Entries(m) : IsLayer(e, g, b)
      BY <2>2 DEF Attached
    <3>2. PICK e \in Entries(m) : IsLayer(e, g, b)
      BY <3>1
    <3>3. IsLayer(e, g, b)'
      BY <3>2 DEF IsLayer
    <3>4. CASE e \in Entries(m)'
      BY <1>19, <3>1, <3>3, <3>4 DEF Attached, IsLayer
    <3>5. CASE e \notin Entries(m)'
      <4>1. m = n /\ e \in Entries(nr)
        BY <1>28, <1>29, <1>30, <3>2, <3>5
      <4>2. e \in Entries(nr)' /\ In(nr, RootLayer)'
        <5>1. layer[n] \in Layers
          BY <1>8, <1>21
        <5>2. layer[n] = RootLayer
          BY <1>8, <3>1, <4>1, <5>1, InUnique, ConstantFacts
        <5>3. QED
          BY <1>8, <1>19, <1>28, <4>1, <5>2
      <4>3. QED
        BY <3>3, <4>2 DEF Attached, IsLayer
    <3>6. QED
      BY <3>4, <3>5
  <2>3. QED
    BY <2>1, <2>2
<1>32. LeafInv'
  <2>1. SUFFICES ASSUME NEW l \in layers, NEW m \in Leaves, In(m, l), NEW e \in Entries(m)'
                 PROVE  /\ Covers(m, e.ikey)'
                        /\ e.kind # "layer" => e.lv # 0
                        /\ l # RootLayer => e.kind = "plain"
                        /\ e.kind = "layer" => e.lv \in layers \ {RootLayer}
    BY <1>7, <1>19 DEF LeafInv
  <2>2. e \in Entries(m) /\ (m = n => e.ikey < low[nr])
    BY <1>28, <1>30, <2>1
  <2>3. /\ Covers(m, e.ikey)
        /\ e.kind # "layer" => e.lv # 0
        /\ l # RootLayer => e.kind = "plain"
        /\ e.kind = "layer" => e.lv \in layers \ {RootLayer}
    BY <2>1, <2>2 DEF IInv, StoreInv, LeafInv
  <2>4. Covers(m, e.ikey)'
    BY <1>19, <1>25, <1>29, <2>2, <2>3
  <2>5. QED
    BY <2>3, <2>4
<1>33. DbInv'
  <2>1. ASSUME NEW k \in Keys, NEW x \in Nat, x < low[nr]
        PROVE  /\ PlainSays(n, x, k) => PlainSays(n, x, k)'
               /\ k[1] = x /\ SufSays(n, k) => SufSays(n, k)'
    <3>1. \A e : e.ikey = x => (e \in Entries(n)' <=> e \in Entries(n))
      BY <1>30, <2>1
    <3>2. PlainSays(n, x, k) => PlainSays(n, x, k)'
      BY <1>7, <3>1 DEF PlainSays
    <3>3. k[1] = x /\ SufSays(n, k) => SufSays(n, k)'
      BY <1>7, <3>1 DEF SufSays
    <3>4. QED
      BY <3>2, <3>3
  <2>2. ASSUME NEW k \in Keys, NEW x, NEW m \in Leaves, m # n
        PROVE  (PlainSays(m, x, k) => PlainSays(m, x, k)') /\ (SufSays(m, k) => SufSays(m, k)')
    BY <1>7, <1>28, <2>2 DEF PlainSays, SufSays
  <2>3. ASSUME NEW k \in Keys, NEW m \in Leaves, In(m, RootLayer), Covers(m, k[1])'
        PROVE  /\ Len(k) = 1 => PlainSays(m, k[1], k)'
               /\ Len(k) = 2 => SufSays(m, k)'
    <3>1. k[1] \in Nat
      BY KeyFacts
    <3>2. Covers(m, k[1]) /\ (m = n => k[1] < low[nr])
      BY <1>19, <1>25, <2>3, <3>1
    <3>3. /\ Len(k) = 1 => PlainSays(m, k[1], k)
          /\ Len(k) = 2 => SufSays(m, k)
      BY <2>3, <3>2 DEF IInv, StoreInv, DbInv
    <3>4. CASE m = n
      <4>1. /\ PlainSays(n, k[1], k) => PlainSays(n, k[1], k)'
            /\ SufSays(n, k) => SufSays(n, k)'
        BY <2>1, <3>1, <3>2, <3>4
      <4>2. QED
        BY <3>3, <3>4, <4>1
    <3>5. CASE m # n
      BY <2>2, <3>3, <3>5
    <3>6. QED
      BY <3>4, <3>5
  <2>4. ASSUME NEW k \in Keys, NEW g \in layers, Len(k) = 2, Attached(g, k[1]),
               NEW m \in Leaves, In(m, g), Covers(m, k[2])'
        PROVE  PlainSays(m, k[2], k)'
    <3>1. k[2] \in Nat
      BY <2>4, KeyFacts
    <3>2. Covers(m, k[2]) /\ (m = n => k[2] < low[nr])
      BY <1>19, <1>25, <2>4, <3>1
    <3>3. PlainSays(m, k[2], k)
      BY <2>4, <3>2 DEF IInv, StoreInv, DbInv
    <3>4. CASE m = n
      <4>1. PlainSays(n, k[2], k) => PlainSays(n, k[2], k)'
        BY <2>1, <3>1, <3>2, <3>4
      <4>2. QED
        BY <3>3, <3>4, <4>1
    <3>5. CASE m # n
      BY <2>2, <3>3, <3>5
    <3>6. QED
      BY <3>4, <3>5
  <2>5. QED
    BY <1>7, <1>19, <1>31, <2>3, <2>4 DEF DbInv
<1>34. AttachInv'
  BY <1>7, <1>31 DEF IInv, StoreInv, AttachInv
<1>35. BoundInv' /\ SortInv'
  <2>1. BoundInv'
    BY <1>7 DEF IInv, StoreInv, BoundInv
  <2>2. Injective(perm[n])'
    BY <1>7, <1>13 DEF Injective
  <2>3. SortedBy(n, perm[n])'
    <3>1. perm[n].size \in Nat
      BY <1>8, LeafType, PermuterType
    <3>2. Index(new) = 0..(left - 1) /\ Index(perm[n]) = 0..(perm[n].size - 1) /\ left \in Nat
      BY <1>7, <3>1 DEF Index
    <3>3. \A j \in Index(new) : j \in Index(perm[n]) /\ new.slot[j] = perm[n].slot[j]
      BY <1>7, <3>1, <3>2
    <3>4. SortedBy(n, perm[n])
      BY DEF IInv, StoreInv, SortInv
    <3>5. \A i, j \in Index(new) : i < j => Less(slot[n][new.slot[i]], slot[n][new.slot[j]])
      BY <3>3, <3>4 DEF SortedBy
    <3>6. QED
      BY <1>7, <1>13, <3>5 DEF SortedBy
  <2>4. \A m \in Leaves : m # n => SortedBy(m, perm[m])' /\ Injective(perm[m])'
    BY <1>7, <1>13 DEF IInv, StoreInv, SortInv, SortedBy, Injective
  <2>5. QED
    BY <2>1, <2>2, <2>3, <2>4 DEF SortInv
<1>36. LeftInv'
  <2>1. SUFFICES ASSUME NEW g \in layers, NEW m \in Leaves, In(m, g), perm'[m].size = 0,
                        ~(m \in dirty /\ modstate[m] = "insert")
                 PROVE  Below(m, At(m, 0).ikey)'
    BY <1>7, <1>19 DEF LeftInv
  <2>2. m # n
    BY <1>9, <2>1
  <2>3. At(m, 0)' = At(m, 0)
    BY <1>7, <1>13, <2>2 DEF At
  <2>4. Below(m, At(m, 0).ikey)
    BY <1>13, <2>1, <2>2 DEF IInv, StoreInv, LeftInv
  <2>5. QED
    BY <1>19, <2>2, <2>3, <2>4
<1>37. ReadFrame(p)
  <2>1. ReadsKept(p)
    <3>1. SUFFICES ASSUME NEW q \in Procs \ {p}, t[q].pc \in ReadPc, t'[q].held = "same"
                   PROVE  perm'[t[q].node] = perm[t[q].node]
      BY <1>7 DEF ReadsKept, PermSame
    <3>2. t[q].node \in Leaves
      BY <3>1, SearchMine, PcFacts
    <3>3. t[q].held = "same"
      BY <1>12, <3>1
    <3>4. t[q].node # n
      BY <1>9, <3>1, <3>3
    <3>5. QED
      BY <1>13, <3>2, <3>4
  <2>2. QED
    BY <1>8, <1>12, <1>14, <2>1, ReadsFrame
<1>38. ThreadOK(t[p])'
  <2>1. In(n, layer[n])' /\ In(nr, layer[n])'
    BY <1>7, <1>8, <1>19
  <2>2. \A x \in Nat : Covers(n, x) => (x < low[nr] => Covers(n, x)') /\ (low[nr] <= x => Covers(nr, x)')
    BY <1>25, <1>27
  <2>3. ThreadOK(d)'
    <3>1. Strips(p, c, n, nr, left, new, d)
      BY <1>1, <1>3, <1>6, <1>8, <1>12, <1>31, <2>1, <2>2 DEF Strips
    <3>2. QED
      BY <1>6, <1>8, <1>14, <3>1, StripKept
  <2>4. QED
    BY <1>12, <2>3
<1>39. /\ UNCHANGED <<modstate, locked, dirty, deleted, layer, low, next, prev, layers>>
       /\ \A m \in Leaves : m # t[p].node => slot'[m] = slot[m] /\ perm'[m] = perm[m]
       /\ t'[p].node \in Leaves /\ locked[t'[p].node] = p
       /\ t'[p].other # None => t'[p].other \in Leaves /\ locked[t'[p].other] = p
       /\ t[p].pc \in LockPc /\ t[p].pc \notin {"gc_lock", "split_tree"} \cup UnlinkPc
  BY <1>1, <1>3, <1>7, <1>8, <1>10, <1>11, <1>12, <1>13
<1>40. \A m \in Leaves : \A g \in layers : In(m, g) => \A y \in Nat : Covers(m, y) =>
           \/ Covers(m, y)'
           \/ locked[m] = p /\ \A q \in Procs \ {p} : t[q].node = m => t[q].held = "split"
  BY <1>8, <1>9, <1>19
<1>41. \A g \in layers : \A b \in Nat : Attached(g, b) =>
           \/ Attached(g, b)'
           \/ Dead(g) /\ \A q \in Procs \ {p} :
                t[q].op = "get" /\ t[q].key \in Keys /\ Len(t[q].key) = 2 /\ t[q].key[1] = b
                /\ db[t[q].key] \in t[q].may => 0 \in t'[q].may
  BY <1>31
<1>42. QED
  BY <1>12, <1>14, <1>16, <1>32, <1>33, <1>34, <1>35, <1>36, <1>37, <1>38, <1>39, <1>40, <1>41, EditStep

-----------------------------------------------------------------------------
(* A deleted leaf goes out of the list.                                    *)

(* The leaf n goes out of the list between pv and nx.                      *)
Unlinked(p, n, pv, nx, l) ==
  /\ TypeOK /\ TypeOK' /\ n \in Leaves /\ pv \in Leaves /\ nx \in Leaves \cup {None} /\ l \in layers /\ l \in Layers
  /\ t[p].node = n /\ t[p].pc = "delete_unlink" /\ locked[n] = p /\ n \in deleted /\ perm[n].size = 0
  /\ prev[n] = pv /\ next[n] = nx /\ next[pv] = n /\ In(n, l) /\ In(pv, l) /\ layer[n] = l
  /\ n # pv /\ n # nx /\ pv # nx /\ low[pv] < low[n]
  /\ nx # None => In(nx, l) /\ layer[nx] = l /\ prev[nx] = n /\ low[n] < low[nx]
  /\ next' = [next EXCEPT ![pv] = nx]
  /\ prev' = [x \in Leaves |-> IF x = nx THEN pv ELSE prev[x]]
  /\ t' = [t EXCEPT ![p].pc = "delete_tree"]
  /\ UNCHANGED <<slot, perm, modstate, locked, dirty, deleted, layer, low, layers, gcs, scene, ops, db>>

LEMMA UnlinkMine ==
  ASSUME IInv, NEW p \in Procs, DeleteUnlink(p)
  PROVE  \E n, pv, nx, l : Unlinked(p, n, pv, nx, l)
<1>1. t[p].pc = "delete_unlink" /\ t[p].pc \in DeletePc
  BY DeletePcs DEF DeleteUnlink
<1>2. PICK c \in Thread : c = t[p]
  BY Mine
<1>3. /\ TypeOK /\ t \in [Procs -> Thread] /\ DeleteOK(c)
      /\ c.node \in Leaves /\ locked[c.node] = p
      /\ layer[c.node] \in layers /\ layer[c.node] \in Layers
      /\ prev[c.node] \in Leaves /\ perm[c.node].size = 0
  BY <1>1, <1>2, DeleteMine
<1>4. PICK n \in Leaves, pv \in Leaves, nx \in Leaves \cup {None}, l \in layers :
         n = c.node /\ pv = prev[n] /\ nx = next[n] /\ l = layer[n] /\ l \in Layers
  BY <1>3, LeafType
<1>5. n \in deleted /\ Linked(n) /\ In(n, l)
  BY <1>1, <1>2, <1>3, <1>4 DEF DeleteOK, In
<1>6. pv # None
  BY <1>4, ConstantFacts
<1>7. /\ In(pv, l) /\ next[pv] = n /\ low[pv] < low[n]
      /\ nx # None => In(nx, l) /\ prev[nx] = n /\ low[n] < low[nx]
  BY <1>4, <1>5, <1>6, ConstantFacts DEF IInv, StoreInv, ListInv
<1>8. low[pv] \in Nat /\ low[n] \in Nat /\ (nx # None => low[nx] \in Nat /\ nx \in Leaves)
  BY <1>3, <1>4, LeafType
<1>9. n # pv /\ n # nx /\ pv # nx
  BY <1>4, <1>7, <1>8, ConstantFacts
<1>10. nx # None => layer[nx] = l
  <2>1. SUFFICES ASSUME nx # None, layer[nx] # l PROVE FALSE
    OBVIOUS
  <2>2. layer[nx] = None /\ nx \notin deleted
    BY <1>7, <2>1 DEF In
  <2>3. Alloc(nx)
    BY <1>4, <2>1 DEF IInv, StoreInv, AllocInv
  <2>4. locked[nx] # None /\ nx \in Leaves
    BY <1>8, <2>1, <2>2, <2>3 DEF Alloc
  <2>5. PICK q \in Procs : q = locked[nx]
    BY <1>3, <2>4, LeafType
  <2>6. t[q].pc = "split_tree" /\ t[q].other = nx
    BY <2>2, <2>4, <2>5 DEF IInv, StoreInv, AllocInv
  <2>7. MidView(q, t[q], t[q].node, t[q].other)
    BY <2>6, MidMine, MidPcs
  <2>8. prev[nx] = t[q].node /\ locked[t[q].node] = q
    BY <2>6, <2>7 DEF MidView
  <2>9. q = p
    BY <1>3, <1>4, <1>7, <2>1, <2>8
  <2>10. QED
    BY <1>1, <2>6, <2>9
<1>11. /\ next' = [next EXCEPT ![pv] = nx]
       /\ prev' = [x \in Leaves |-> IF x = nx THEN pv ELSE prev[x]]
       /\ t' = [t EXCEPT ![p].pc = "delete_tree"]
       /\ UNCHANGED <<slot, perm, modstate, locked, dirty, deleted, layer, low, layers, gcs, scene, ops, db>>
  BY <1>2, <1>4 DEF DeleteUnlink
<1>12. TypeOK'
  <2>1. next \in [Leaves -> Leaves \cup {None}] /\ prev \in [Leaves -> Leaves \cup {None}]
    BY <1>3 DEF TypeOK, LeafTypeOK
  <2>2. next' \in [Leaves -> Leaves \cup {None}] /\ prev' \in [Leaves -> Leaves \cup {None}]
    BY <1>4, <1>11, <2>1
  <2>3. PICK u \in Pcs : u = "delete_tree"
    BY DeletePcs
  <2>4. [c EXCEPT !.pc = u] \in Thread
    BY ThreadPc
  <2>5. t' \in [Procs -> Thread]
    BY <1>2, <1>3, <1>11, <2>3, <2>4
  <2>6. QED
    BY <1>3, <1>11, <2>2, <2>5 DEF TypeOK, LeafTypeOK
<1>13. Unlinked(p, n, pv, nx, l)
  BY <1>1, <1>2, <1>3, <1>4, <1>5, <1>7, <1>9, <1>10, <1>11, <1>12 DEF Unlinked
<1>14. QED
  BY <1>13

LEMMA UnlinkViews ==
  ASSUME IInv, NEW p \in Procs, NEW n, NEW pv, NEW nx, NEW l, Unlinked(p, n, pv, nx, l)
  PROVE  /\ \A x \in Leaves : x # n => (Linked(x)' <=> Linked(x))
         /\ ~Linked(n)'
         /\ \A x \in Leaves : \A y \in Layers : In(x, y)' <=> x # n /\ In(x, y)
         /\ \A x \in Leaves : Gone(x)' <=> x = n \/ Gone(x)
<1> USE DEF Unlinked
<1>1. \A x \in Leaves : prev[x] \in Leaves \cup {None}
  BY DEF TypeOK, LeafTypeOK
<1>2. /\ next'[pv] = nx /\ (\A x \in Leaves : x # pv => next'[x] = next[x])
      /\ \A x \in Leaves : prev'[x] = IF x = nx THEN pv ELSE prev[x]
  BY DEF TypeOK, LeafTypeOK
<1>3. None \notin Leaves
  BY ConstantFacts
<1> DEFINE P(x) == prev[x]
<1>4. ~Linked(n)'
  BY <1>2, <1>3 DEF Linked
<1>5. nx # None => Linked(nx) /\ Linked(nx)'
  BY <1>2, <1>3 DEF Linked
<1>6. ASSUME NEW x \in Leaves, x # n, x # nx PROVE Linked(x)' <=> Linked(x)
  <2>1. prev'[x] = prev[x]
    BY <1>2, <1>6
  <2>2. CASE prev[x] = None
    BY <2>1, <2>2 DEF Linked
  <2>3. CASE prev[x] = pv
    BY <1>2, <1>6, <2>1, <2>3 DEF Linked
  <2>4. CASE prev[x] \in Leaves /\ prev[x] # pv
    BY <1>2, <2>1, <2>4 DEF Linked
  <2>5. QED
    BY <1>1, <1>6, <2>2, <2>3, <2>4
<1>7. \A x \in Leaves : x # n => (Linked(x)' <=> Linked(x))
  BY <1>3, <1>5, <1>6
<1>8. ASSUME NEW x \in Leaves, NEW y \in Layers PROVE In(x, y)' <=> x # n /\ In(x, y)
  <2>1. CASE x = n
    BY <1>4, <2>1 DEF In
  <2>2. CASE x # n /\ x = nx
    <3>1. y # None
      BY ConstantFacts
    <3>2. layer[nx] # None /\ layer'[nx] = layer[nx] /\ nx # None
      BY <1>3, <2>2, ConstantFacts
    <3>3. QED
      BY <1>5, <2>2, <3>1, <3>2 DEF In
  <2>3. CASE x # n /\ x # nx
    <3>1. prev'[x] = prev[x] /\ layer' = layer /\ deleted' = deleted
      BY <1>2, <2>3
    <3>2. QED
      BY <1>6, <2>3, <3>1 DEF In
  <2>4. QED
    BY <2>1, <2>2, <2>3
<1>9. \A x \in Leaves : Gone(x)' <=> x = n \/ Gone(x)
  BY <1>8 DEF Gone
<1>10. QED
  BY <1>4, <1>7, <1>8, <1>9

LEMMA UnlinkThreads ==
  ASSUME IInv, NEW p \in Procs, NEW n, NEW pv, NEW nx, NEW l, Unlinked(p, n, pv, nx, l)
  PROVE  /\ ThreadFrame(p) /\ LockInv' /\ LocksFrame(p)
         /\ \A q \in Procs \ {p} : t'[q] = t[q]
         /\ \E c \in Thread : \E d \in Thread : 
              /\ c = t[p] /\ d = t'[p] /\ d = [c EXCEPT !.pc = "delete_tree"]
              /\ SameLock(c, d) /\ d.pc = "delete_tree" /\ d.other = c.other /\ d.held = c.held
         /\ t[p].pc \notin MidPc /\ t'[p].pc \notin MidPc /\ t[p].pc \notin TurnPc /\ t'[p].pc \notin TurnPc
         /\ \A x \in Leaves : Splitting(x)' <=> Splitting(x)
         /\ \A x \in Leaves : Entries(x)' = Entries(x)
         /\ Entries(n) = {}
         /\ ~Splitting(n)
         /\ \A x \in Leaves : locked[x] = p <=> x = n
<1>1. /\ TypeOK /\ TypeOK' /\ n \in Leaves /\ t[p].node = n /\ t[p].pc = "delete_unlink" /\ locked[n] = p
      /\ t' = [t EXCEPT ![p].pc = "delete_tree"] /\ perm[n].size = 0
      /\ UNCHANGED <<slot, perm, modstate, locked, dirty, deleted, layer, low, layers, gcs, scene, ops, db>>
  BY DEF Unlinked
<1>2. PICK c \in Thread : c = t[p]
  BY Mine
<1>3. PICK d \in Thread : d = [c EXCEPT !.pc = "delete_tree"]
  <2>1. PICK u \in Pcs : u = "delete_tree"
    BY DeletePcs
  <2>2. [c EXCEPT !.pc = u] \in Thread
    BY ThreadPc
  <2>3. QED
    BY <2>1, <2>2
<1>4. SameLock(c, d) /\ d.pc = "delete_tree" /\ d.other = c.other /\ d.held = c.held /\ d.node = c.node
  BY <1>3 DEF Thread, SameLock
<1>5. t' = [t EXCEPT ![p] = d] /\ db' = db
  BY <1>1, <1>2, <1>3
<1>6. ThreadFrame(p) /\ t'[p] = d /\ \A q \in Procs \ {p} : t'[q] = t[q]
  BY <1>1, <1>5, OneFrame
<1>7. LockInv' /\ LocksFrame(p)
  <2>1. /\ t[p].pc \in LockPc /\ t'[p].pc \in LockPc /\ t[p].pc # "gc_lock" /\ t'[p].pc # "gc_lock"
        /\ t'[p].node = t[p].node /\ t'[p].other = t[p].other /\ t'[p].held = t[p].held
    BY <1>1, <1>2, <1>4, <1>6, DeletePcs
  <2>2. QED
    BY <1>1, <1>6, <2>1, KeepLocks
<1>8. t[p].pc \notin MidPc /\ t'[p].pc \notin MidPc /\ t[p].pc \notin TurnPc /\ t'[p].pc \notin TurnPc
  BY <1>1, <1>4, <1>6, DeletePcs
<1>9. \A x \in Leaves : Splitting(x)' <=> Splitting(x)
  BY <1>1, <1>6, <1>7, <1>8, SplittingSame
<1>10. \A x \in Leaves : Entries(x)' = Entries(x)
  <2>1. \A m \in Leaves : layer[m] # None /\ prev[m] = None => layer'[m] = layer[m]
    BY <1>1
  <2>2. slot' = slot /\ perm' = perm
    BY <1>1
  <2>3. QED
    BY <1>1, <1>6, <1>7, <1>8, <2>1, <2>2, EntriesSame
<1>11. Entries(n) = {}
  <2>1. Index(perm[n]) = {}
    BY <1>1 DEF Index
  <2>2. QED
    BY <2>1 DEF Entries
<1>12. ~Splitting(n)
  BY <1>1, <1>8 DEF Splitting
<1>13. \A x \in Leaves : locked[x] = p <=> x = n
  BY <1>1, DeleteMine, DeletePcs
<1>14. QED
  BY <1>2, <1>3, <1>4, <1>6, <1>7, <1>8, <1>9, <1>10, <1>11, <1>12, <1>13

LEMMA UnlinkHi ==
  ASSUME IInv, NEW p \in Procs, NEW n, NEW pv, NEW nx, NEW l, Unlinked(p, n, pv, nx, l),
         NEW x \in Leaves, x # n, NEW y \in layers, In(x, y)
  PROVE  Hi(x)' = (IF Hi(x) = n THEN nx ELSE Hi(x)) /\ (Hi(x) = n => y = l)
<1>1. /\ TypeOK /\ n \in Leaves /\ pv \in Leaves /\ l \in layers /\ l \in Layers /\ locked[n] = p
      /\ prev[n] = pv /\ next[pv] = n /\ In(n, l)
  BY DEF Unlinked
<1>2. /\ next'[pv] = nx /\ (\A z \in Leaves : z # pv => next'[z] = next[z])
      /\ \A z \in Leaves : next[z] \in Leaves \cup {None}
  BY <1>1 DEF Unlinked, TypeOK, LeafTypeOK
<1>3. Splitting(x)' <=> Splitting(x)
  BY UnlinkThreads
<1>4. None \notin Leaves /\ y \in Layers
  BY <1>1, ConstantFacts DEF TypeOK, LeafTypeOK
<1>5. \A z \in Leaves : In(z, y) /\ next[z] = n => z = pv
  BY <1>1, <1>4 DEF IInv, StoreInv, ListInv
<1>6. ASSUME ~Splitting(x) PROVE Hi(x)' = (IF Hi(x) = n THEN nx ELSE Hi(x))
  BY <1>2, <1>3, <1>5, <1>1, <1>6 DEF Hi
<1>7. ASSUME Splitting(x) PROVE Hi(x)' = (IF Hi(x) = n THEN nx ELSE Hi(x))
  <2>1. PICK q \in Procs : /\ locked[x] = q /\ t[q].node = x /\ t[q].pc \in MidPc
                           /\ next[x] \in Leaves /\ locked[next[x]] = q
    BY <1>7, SplitterFacts
  <2>2. q # p
    BY <2>1, UnlinkThreads
  <2>3. x # pv
    BY <1>1, <2>1, <2>2
  <2>4. PICK r \in Leaves : r = next[x]
    BY <2>1
  <2>5. In(r, y)
    BY <1>4, <2>4 DEF IInv, StoreInv, ListInv
  <2>6. Hi(x) = next[r] /\ Hi(x)' = next'[r]
    BY <1>2, <1>3, <1>7, <2>3, <2>4 DEF Hi
  <2>7. QED
    BY <1>1, <1>2, <1>5, <2>5, <2>6
<1>8. Hi(x)' = (IF Hi(x) = n THEN nx ELSE Hi(x))
  BY <1>6, <1>7
<1>9. ASSUME Hi(x) = n PROVE y = l
  <2>1. In(n, y)
    BY <1>1, <1>4, <1>9, HiFacts
  <2>2. QED
    BY <1>1, <1>4, <2>1, InUnique
<1>10. QED
  BY <1>8, <1>9

LEMMA UnlinkCovers ==
  ASSUME IInv, NEW p \in Procs, NEW n, NEW pv, NEW nx, NEW l, Unlinked(p, n, pv, nx, l),
         NEW x \in Leaves, x # n, NEW y \in layers, In(x, y), NEW z \in Nat
  PROVE  /\ Below(x, z) => Below(x, z)'
         /\ Covers(x, z) => Covers(x, z)'
         /\ Covers(x, z)' /\ ~Covers(x, z) => y = l /\ Covers(n, z)
<1>1. /\ TypeOK /\ n \in Leaves /\ nx \in Leaves \cup {None} /\ next[n] = nx /\ low' = low
      /\ nx # None => low[n] < low[nx]
  BY DEF Unlinked
<1>2. Hi(x)' = (IF Hi(x) = n THEN nx ELSE Hi(x)) /\ (Hi(x) = n => y = l)
  BY UnlinkHi
<1>3. /\ low[x] \in Nat /\ low[n] \in Nat /\ (nx # None => low[nx] \in Nat)
      /\ Hi(x) \in Leaves \cup {None} /\ (Hi(x) # None => low[Hi(x)] \in Nat)
  BY <1>1, LeafType, HiFacts
<1>4. Hi(n) = nx
  BY <1>1, UnlinkThreads DEF Hi
<1>5. None \notin Leaves
  BY ConstantFacts
<1>6. Below(x, z) => Below(x, z)'
  BY <1>1, <1>2, <1>3, <1>5 DEF Below
<1>7. Covers(x, z) => Covers(x, z)'
  BY <1>1, <1>6 DEF Covers
<1>8. ASSUME Covers(x, z)', ~Covers(x, z) PROVE y = l /\ Covers(n, z)
  <2>1. low[x] <= z /\ Below(x, z)' /\ ~Below(x, z)
    BY <1>1, <1>8 DEF Covers
  <2>2. Hi(x) = n
    BY <1>1, <1>2, <2>1 DEF Below
  <2>3. low[n] <= z
    BY <1>3, <1>5, <2>1, <2>2, <1>1 DEF Below
  <2>4. nx = None \/ z < low[nx]
    BY <1>1, <1>2, <2>1, <2>2 DEF Below
  <2>5. QED
    BY <1>2, <1>4, <2>2, <2>3, <2>4 DEF Covers, Below
<1>9. QED
  BY <1>6, <1>7, <1>8

LEMMA UnlinkList ==
  ASSUME IInv, NEW p \in Procs, NEW n, NEW pv, NEW nx, NEW l, Unlinked(p, n, pv, nx, l)
  PROVE  ListInv'
<1>1. /\ TypeOK /\ n \in Leaves /\ pv \in Leaves /\ nx \in Leaves \cup {None} /\ l \in layers /\ l \in Layers
      /\ prev[n] = pv /\ next[n] = nx /\ next[pv] = n /\ In(n, l) /\ In(pv, l)
      /\ n # pv /\ n # nx /\ pv # nx /\ low[pv] < low[n]
      /\ nx # None => In(nx, l) /\ prev[nx] = n /\ low[n] < low[nx]
      /\ low' = low /\ layers' = layers
  BY DEF Unlinked
<1>2. /\ next'[pv] = nx /\ (\A z \in Leaves : z # pv => next'[z] = next[z])
      /\ \A x \in Leaves : prev'[x] = IF x = nx THEN pv ELSE prev[x]
      /\ \A z \in Leaves : next[z] \in Leaves \cup {None} /\ prev[z] \in Leaves \cup {None}
      /\ layers \subseteq Layers
  BY <1>1 DEF Unlinked, TypeOK, LeafTypeOK
<1>3. None \notin Leaves
  BY ConstantFacts
<1>4. \A x \in Leaves : \A y \in layers : In(x, y)' <=> x # n /\ In(x, y)
  BY <1>2, UnlinkViews
<1>5. \A x \in Leaves : \A y \in layers : In(x, y) /\ In(x, l) => y = l
  BY <1>1, <1>2, InUnique
<1>6. \A x \in Leaves : low[x] \in Nat
  BY <1>1, LeafType
<1>7. ASSUME NEW y \in layers, NEW x \in Leaves, In(x, y), x # n
      PROVE  /\ next'[x] # None => In(next'[x], y) /\ next'[x] # n /\ next'[x] \in Leaves
                                   /\ prev'[next'[x]] = x /\ low[x] < low[next'[x]]
             /\ prev'[x] # None => In(prev'[x], y) /\ prev'[x] # n /\ prev'[x] \in Leaves /\ next'[prev'[x]] = x
             /\ prev'[x] = None => low[x] = 0
  <2>0. /\ next[x] # None => In(next[x], y) /\ prev[next[x]] = x /\ low[x] < low[next[x]]
        /\ prev[x] # None => In(prev[x], y) /\ next[prev[x]] = x
        /\ prev[x] = None => low[x] = 0
    BY <1>7 DEF IInv, StoreInv, ListInv
  <2>1. ASSUME next'[x] # None
        PROVE  In(next'[x], y) /\ next'[x] # n /\ next'[x] \in Leaves
               /\ prev'[next'[x]] = x /\ low[x] < low[next'[x]]
    <3>1. CASE x = pv
      <4>1. y = l /\ next'[x] = nx /\ nx # None
        BY <1>1, <1>2, <1>5, <1>7, <2>1, <3>1
      <4>2. low[pv] < low[nx]
        BY <1>1, <1>6, <4>1
      <4>3. QED
        BY <1>1, <1>2, <3>1, <4>1, <4>2
    <3>2. CASE x # pv
      <4>1. PICK m \in Leaves : m = next[x] /\ next'[x] = m
        BY <1>2, <2>1, <3>2
      <4>2. In(m, y) /\ prev[m] = x /\ low[x] < low[m]
        BY <1>3, <2>0, <4>1
      <4>3. m # n /\ m # nx
        BY <1>1, <1>3, <1>7, <3>2, <4>2
      <4>4. QED
        BY <1>2, <4>1, <4>2, <4>3
    <3>3. QED
      BY <3>1, <3>2
  <2>2. ASSUME prev'[x] # None
        PROVE  In(prev'[x], y) /\ prev'[x] # n /\ prev'[x] \in Leaves /\ next'[prev'[x]] = x
    <3>1. CASE x = nx
      BY <1>1, <1>2, <1>3, <1>5, <1>7, <3>1
    <3>2. CASE x # nx
      <4>1. PICK m \in Leaves : m = prev[x] /\ prev'[x] = m
        BY <1>2, <2>2, <3>2
      <4>2. In(m, y) /\ next[m] = x
        BY <1>3, <2>0, <4>1
      <4>3. m # n /\ m # pv
        BY <1>1, <1>7, <3>2, <4>2
      <4>4. QED
        BY <1>2, <4>1, <4>2, <4>3
    <3>3. QED
      BY <3>1, <3>2
  <2>3. prev'[x] = None => low[x] = 0
    BY <1>1, <1>2, <1>3, <2>0
  <2>4. QED
    BY <2>1, <2>2, <2>3
<1>8. ASSUME NEW y \in layers, NEW x \in Leaves, NEW m \in Leaves, In(x, y), In(m, y), x # n, m # n, low[x] < low[m]
      PROVE  next'[x] # None /\ low[next'[x]] <= low[m]
  <2>1. next[x] # None /\ low[next[x]] <= low[m]
    BY <1>8 DEF IInv, StoreInv, ListInv
  <2>2. CASE x # pv
    BY <1>2, <2>1, <2>2
  <2>3. CASE x = pv
    <3>1. y = l /\ low[n] <= low[m]
      BY <1>1, <1>5, <1>8, <2>1, <2>3
    <3>2. low[n] # low[m]
      BY <1>1, <1>8, <3>1 DEF IInv, StoreInv, ListInv
    <3>3. low[n] < low[m]
      BY <1>1, <1>6, <3>1, <3>2
    <3>4. nx # None /\ low[nx] <= low[m]
      BY <1>1, <1>8, <3>1, <3>3 DEF IInv, StoreInv, ListInv
    <3>5. QED
      BY <1>2, <2>3, <3>4
  <2>4. QED
    BY <2>2, <2>3
<1>9. ASSUME NEW y \in layers PROVE \E x \in Leaves : In(x, y) /\ x # n /\ prev'[x] = None
  <2>1. PICK x \in Leaves : In(x, y) /\ prev[x] = None
    BY DEF IInv, StoreInv, ListInv
  <2>2. x # n /\ x # nx
    BY <1>1, <1>3, <2>1
  <2>3. QED
    BY <1>2, <2>1, <2>2
<1>10. \A y \in layers : \A x, m \in Leaves : In(x, y) /\ In(m, y) /\ low[x] = low[m] => x = m
  BY DEF IInv, StoreInv, ListInv
<1>11. /\ \A y \in layers' : \A x \in Leaves : In(x, y)' =>
            /\ next'[x] # None => In(next[x], y)' /\ prev'[next'[x]] = x /\ low'[x] < low'[next'[x]]
            /\ prev'[x] # None => In(prev[x], y)' /\ next'[prev'[x]] = x
            /\ prev'[x] = None => low'[x] = 0
  <2>1. SUFFICES ASSUME NEW y \in layers, NEW x \in Leaves, In(x, y), x # n
                 PROVE  /\ next'[x] # None => In(next[x], y)' /\ prev'[next'[x]] = x /\ low'[x] < low'[next'[x]]
                        /\ prev'[x] # None => In(prev[x], y)' /\ next'[prev'[x]] = x
                        /\ prev'[x] = None => low'[x] = 0
    BY <1>1, <1>4
  <2>2. next'[x] # None => In(next[x], y)'
    <3>1. ASSUME next'[x] # None PROVE In(next[x], y)'
      <4>1. PICK m \in Leaves : m = next'[x] /\ In(m, y) /\ m # n
        BY <1>7, <2>1, <3>1
      <4>2. In(m, y)'
        BY <1>4, <4>1
      <4>3. QED
        BY <4>1, <4>2
    <3>2. QED
      BY <3>1
  <2>3. prev'[x] # None => In(prev[x], y)'
    <3>1. ASSUME prev'[x] # None PROVE In(prev[x], y)'
      <4>1. PICK m \in Leaves : m = prev'[x] /\ In(m, y) /\ m # n
        BY <1>7, <2>1, <3>1
      <4>2. In(m, y)'
        BY <1>4, <4>1
      <4>3. QED
        BY <4>1, <4>2
    <3>2. QED
      BY <3>1
  <2>4. QED
    BY <1>1, <1>7, <2>1, <2>2, <2>3
<1>12. QED
  BY <1>1, <1>4, <1>8, <1>9, <1>10, <1>11 DEF ListInv

LEMMA UnlinkAlloc ==
  ASSUME IInv, NEW p \in Procs, NEW n, NEW pv, NEW nx, NEW l, Unlinked(p, n, pv, nx, l)
  PROVE  AllocInv' /\ \A x \in Leaves : Alloc(x)' <=> Alloc(x)
<1>1. /\ TypeOK /\ TypeOK' /\ n \in Leaves /\ pv \in Leaves /\ nx \in Leaves \cup {None} /\ l \in Layers
      /\ locked[n] = p /\ t[p].pc = "delete_unlink" /\ t[p].node = n /\ n \in deleted
      /\ In(n, l) /\ In(pv, l) /\ (nx # None => In(nx, l))
      /\ UNCHANGED <<slot, perm, modstate, locked, dirty, deleted, layer, low, layers, gcs, scene, ops, db>>
  BY DEF Unlinked
<1>2. /\ next'[pv] = nx /\ (\A z \in Leaves : z # pv => next'[z] = next[z])
      /\ \A x \in Leaves : prev'[x] = IF x = nx THEN pv ELSE prev[x]
      /\ layers \subseteq Layers
  BY <1>1 DEF Unlinked, TypeOK, LeafTypeOK
<1>3. \A x \in Leaves : Alloc(x)' <=> Alloc(x)
  BY <1>1 DEF Alloc
<1>4. Alloc(pv) /\ (nx # None => Alloc(nx))
  BY <1>1, InAlloc DEF IInv, StoreInv
<1>5. PICK c \in Thread, d \in Thread : c = t[p] /\ d = t'[p] /\ SameLock(c, d) /\ d.pc = "delete_tree" /\ d.other = c.other
  BY UnlinkThreads
<1>6. d.node = n /\ c.node = n /\ c.pc = "delete_unlink"
  BY <1>1, <1>5 DEF SameLock
<1>7. \A q \in Procs \ {p} : t'[q] = t[q]
  BY UnlinkThreads
<1>8. \A x \in Leaves : \A y \in layers : In(x, y)' <=> x # n /\ In(x, y)
  BY <1>2, UnlinkViews
<1>9. \A x \in Leaves : x # n => (Linked(x)' <=> Linked(x))
  BY UnlinkViews
<1>10. \A x \in Leaves : ~Alloc(x) =>
        low[x] = 0 /\ next'[x] = None /\ prev'[x] = None /\ modstate[x] = "insert" /\ perm[x].size = 0
  <2>1. SUFFICES ASSUME NEW x \in Leaves, ~Alloc(x)
                 PROVE  low[x] = 0 /\ next'[x] = None /\ prev'[x] = None /\ modstate[x] = "insert" /\ perm[x].size = 0
    OBVIOUS
  <2>2. x # pv /\ x # nx
    BY <1>4, <2>1, ConstantFacts
  <2>3. QED
    BY <1>2, <2>1, <2>2 DEF IInv, StoreInv, AllocInv
<1>11. /\ \A x \in Leaves : next'[x] # None => Alloc(next'[x])
       /\ \A x \in Leaves : prev'[x] # None => Alloc(prev'[x])
  BY <1>2, <1>4 DEF IInv, StoreInv, AllocInv
<1>12. /\ \A q \in Procs : t'[q].node # None => Alloc(t'[q].node)
       /\ \A q \in Procs : t'[q].other # None => Alloc(t'[q].other)
  <2>1. /\ \A q \in Procs : t[q].node # None => Alloc(t[q].node)
        /\ \A q \in Procs : t[q].other # None => Alloc(t[q].other)
    BY DEF IInv, StoreInv, AllocInv
  <2>2. QED
    BY <1>5, <1>6, <1>7, <2>1
<1>13. \A x \in Leaves : locked[x] # None /\ layer[x] = None /\ x \notin deleted =>
        t'[locked[x]].pc = "split_tree" /\ t'[locked[x]].other = x
  <2>1. SUFFICES ASSUME NEW x \in Leaves, locked[x] # None, layer[x] = None, x \notin deleted
                 PROVE  t'[locked[x]].pc = "split_tree" /\ t'[locked[x]].other = x
    OBVIOUS
  <2>2. t[locked[x]].pc = "split_tree" /\ t[locked[x]].other = x /\ locked[x] \in Procs
    BY <1>1, <2>1, LeafType DEF IInv, StoreInv, AllocInv
  <2>3. QED
    BY <1>1, <1>7, <2>2
<1>14. \A x \in Leaves : Alloc(x) /\ x \notin deleted => \E y \in layers : In(x, y)'
  BY <1>1, <1>8 DEF IInv, StoreInv, AllocInv
<1>15. \A x \in Leaves : layer[x] # None /\ (~Linked(x)' \/ x \in deleted) =>
        locked[x] # None /\ t'[locked[x]].pc \in UnlinkPc /\ t'[locked[x]].node = x
  <2>1. SUFFICES ASSUME NEW x \in Leaves, layer[x] # None, ~Linked(x)' \/ x \in deleted
                 PROVE  locked[x] # None /\ t'[locked[x]].pc \in UnlinkPc /\ t'[locked[x]].node = x
    OBVIOUS
  <2>2. CASE x = n
    BY <1>1, <1>5, <1>6, <2>2, DeletePcs, ConstantFacts
  <2>3. CASE x # n
    <3>1. locked[x] # None /\ t[locked[x]].pc \in UnlinkPc /\ t[locked[x]].node = x /\ locked[x] \in Procs
      BY <1>1, <1>9, <2>1, <2>3, LeafType DEF IInv, StoreInv, AllocInv
    <3>2. locked[x] # p
      BY <1>1, <2>3, <3>1
    <3>3. QED
      BY <1>7, <3>1, <3>2
  <2>4. QED
    BY <2>2, <2>3
<1>16. \A x \in Leaves : layer[x] # None => layer[x] \in layers
  BY DEF IInv, StoreInv, AllocInv
<1>17. \A x \in Leaves : x \in Leaves \cup {None}
  OBVIOUS
<1>18. \A x \in Leaves : next'[x] # None => Alloc(next[x])'
  <2>1. TypeOK'
    BY <1>1
  <2>2. SUFFICES ASSUME NEW x \in Leaves, next'[x] # None PROVE Alloc(next[x])'
    OBVIOUS
  <2>3. PICK m \in Leaves : m = next'[x]
    BY <2>1, <2>2 DEF TypeOK, LeafTypeOK
  <2>4. Alloc(m)'
    BY <1>3, <1>11, <2>2, <2>3
  <2>5. QED
    BY <2>3, <2>4
<1>19. \A x \in Leaves : prev'[x] # None => Alloc(prev[x])'
  <2>2. SUFFICES ASSUME NEW x \in Leaves, prev'[x] # None PROVE Alloc(prev[x])'
    OBVIOUS
  <2>3. PICK m \in Leaves : m = prev'[x]
    BY <1>1, <2>2 DEF TypeOK, LeafTypeOK
  <2>4. Alloc(m)'
    BY <1>3, <1>11, <2>2, <2>3
  <2>5. QED
    BY <2>3, <2>4
<1>20. \A q \in Procs : (t'[q].node # None => Alloc(t[q].node)') /\ (t'[q].other # None => Alloc(t[q].other)')
  BY <1>1, <1>12 DEF Alloc
<1>21. QED
  BY <1>1, <1>3, <1>10, <1>13, <1>14, <1>15, <1>16, <1>18, <1>19, <1>20 DEF AllocInv

LEMMA UnlinkAttached ==
  ASSUME IInv, NEW p \in Procs, NEW n, NEW pv, NEW nx, NEW l, Unlinked(p, n, pv, nx, l)
  PROVE  \A g, a : Attached(g, a)' <=> Attached(g, a)
<1>1. \A x \in Leaves : In(x, RootLayer)' <=> x # n /\ In(x, RootLayer)
  BY UnlinkViews, ConstantFacts
<1>2. (\A x \in Leaves : Entries(x)' = Entries(x)) /\ Entries(n) = {}
  BY UnlinkThreads
<1>3. QED
  BY <1>1, <1>2 DEF Attached

LEMMA UnlinkDb ==
  ASSUME IInv, NEW p \in Procs, NEW n, NEW pv, NEW nx, NEW l, Unlinked(p, n, pv, nx, l)
  PROVE  DbInv'
<1>1. /\ TypeOK /\ n \in Leaves /\ l \in layers /\ In(n, l) /\ db' = db /\ layers' = layers /\ layers \subseteq Layers
      /\ RootLayer \in layers
  BY DEF Unlinked, TypeOK, LeafTypeOK
<1>2. (\A x \in Leaves : Entries(x)' = Entries(x)) /\ Entries(n) = {}
  BY UnlinkThreads
<1>3. \A x \in Leaves : \A y \in layers : In(x, y)' <=> x # n /\ In(x, y)
  BY <1>1, UnlinkViews
<1>4. ASSUME NEW y \in layers, NEW x \in Leaves, In(x, y), x # n, NEW z \in Nat, Covers(x, z)', ~Covers(x, z)
      PROVE  y = l /\ Covers(n, z) /\ \A e \in Entries(x) : e.ikey # z
  <2>1. y = l /\ Covers(n, z)
    BY <1>4, UnlinkCovers
  <2>2. \A e \in Entries(x) : Covers(x, e.ikey)
    BY <1>4 DEF IInv, StoreInv, LeafInv
  <2>3. QED
    BY <1>4, <2>1, <2>2
<1>5. \A x \in Leaves : \A z, k : (PlainSays(x, z, k)' <=> PlainSays(x, z, k)) /\ (SufSays(x, k)' <=> SufSays(x, k))
  BY <1>1, <1>2 DEF PlainSays, SufSays
<1>6. ASSUME NEW k \in Keys, NEW x \in Leaves, In(x, RootLayer), x # n, Covers(x, k[1])'
      PROVE  /\ Len(k) = 1 => PlainSays(x, k[1], k)'
             /\ Len(k) = 2 => SufSays(x, k)'
  <2>1. k[1] \in Nat
    BY KeyFacts
  <2>2. CASE Covers(x, k[1])
    <3>1. /\ Len(k) = 1 => PlainSays(x, k[1], k)
          /\ Len(k) = 2 => SufSays(x, k)
      BY <1>6, <2>2 DEF IInv, StoreInv, DbInv
    <3>2. QED
      BY <1>5, <3>1
  <2>3. CASE ~Covers(x, k[1])
    <3>1. l = RootLayer /\ Covers(n, k[1]) /\ \A e \in Entries(x) : e.ikey # k[1]
      BY <1>1, <1>4, <1>6, <2>1, <2>3
    <3>2. /\ Len(k) = 1 => PlainSays(n, k[1], k)
          /\ Len(k) = 2 => SufSays(n, k)
      BY <1>1, <3>1 DEF IInv, StoreInv, DbInv
    <3>3. Len(k) \in {1, 2} => db[k] = 0
      BY <1>2, <3>2 DEF PlainSays, SufSays
    <3>4. /\ Len(k) = 1 => PlainSays(x, k[1], k)
          /\ Len(k) = 2 => SufSays(x, k)
      BY <3>1, <3>3 DEF PlainSays, SufSays
    <3>5. QED
      BY <1>5, <3>4
  <2>4. QED
    BY <2>2, <2>3
<1>7. ASSUME NEW k \in Keys, NEW y \in layers, Len(k) = 2, Attached(y, k[1]), NEW x \in Leaves, In(x, y), x # n,
             Covers(x, k[2])'
      PROVE  PlainSays(x, k[2], k)'
  <2>1. k[2] \in Nat
    BY <1>7, KeyFacts
  <2>2. CASE Covers(x, k[2])
    <3>1. PlainSays(x, k[2], k)
      BY <1>7, <2>2 DEF IInv, StoreInv, DbInv
    <3>2. QED
      BY <1>5, <3>1
  <2>3. CASE ~Covers(x, k[2])
    <3>1. l = y /\ Covers(n, k[2]) /\ \A e \in Entries(x) : e.ikey # k[2]
      BY <1>4, <1>7, <2>1, <2>3
    <3>2. PlainSays(n, k[2], k)
      BY <1>1, <1>7, <3>1 DEF IInv, StoreInv, DbInv
    <3>3. db[k] = 0
      BY <1>2, <3>2 DEF PlainSays
    <3>4. PlainSays(x, k[2], k)
      BY <3>1, <3>3 DEF PlainSays
    <3>5. QED
      BY <1>5, <3>4
  <2>4. QED
    BY <2>2, <2>3
<1>8. \A g, a : Attached(g, a)' <=> Attached(g, a)
  BY UnlinkAttached
<1>9. QED
  BY <1>1, <1>3, <1>6, <1>7, <1>8 DEF DbInv

LEMMA UnlinkStore ==
  ASSUME IInv, NEW p \in Procs, NEW n, NEW pv, NEW nx, NEW l, Unlinked(p, n, pv, nx, l)
  PROVE  DeadInv' /\ BoundInv' /\ SortInv' /\ LeafInv' /\ LeftInv' /\ AttachInv'
<1>1. /\ TypeOK /\ n \in Leaves /\ pv \in Leaves /\ nx \in Leaves \cup {None} /\ layers \subseteq Layers
      /\ prev[n] = pv /\ next[pv] = n /\ (nx # None => prev[nx] = n)
      /\ UNCHANGED <<slot, perm, modstate, locked, dirty, deleted, layer, low, layers, gcs, scene, ops, db>>
  BY DEF Unlinked, TypeOK, LeafTypeOK
<1>2. /\ next'[pv] = nx /\ (\A z \in Leaves : z # pv => next'[z] = next[z])
      /\ \A x \in Leaves : prev'[x] = IF x = nx THEN pv ELSE prev[x]
  BY <1>1 DEF Unlinked, TypeOK, LeafTypeOK
<1>3. None \notin Leaves
  BY ConstantFacts
<1>4. (\A x \in Leaves : Entries(x)' = Entries(x)) /\ Entries(n) = {}
  BY UnlinkThreads
<1>5. \A x \in Leaves : \A y \in layers : In(x, y)' <=> x # n /\ In(x, y)
  BY <1>1, UnlinkViews
<1>6. DeadInv'
  BY <1>1, <1>2, <1>3 DEF IInv, StoreInv, DeadInv
<1>7. \A x \in Leaves : prev'[x] # None => prev[x] # None
  BY <1>1, <1>2, <1>3
<1>8. \A x \in Leaves : prev[x] # None => prev'[x] # None
  BY <1>1, <1>2, <1>3
<1>9. BoundInv'
  BY <1>1, <1>7, <1>8 DEF IInv, StoreInv, BoundInv, TypeOK, LeafTypeOK
<1>10. SortInv'
  BY <1>1 DEF IInv, StoreInv, SortInv, SortedBy, Injective
<1>11. LeafInv'
  <2>1. SUFFICES ASSUME NEW y \in layers, NEW x \in Leaves, In(x, y), x # n, NEW e \in Entries(x)
                 PROVE  /\ Covers(x, e.ikey)'
                        /\ e.kind # "layer" => e.lv # 0
                        /\ y # RootLayer => e.kind = "plain"
                        /\ e.kind = "layer" => e.lv \in layers \ {RootLayer}
    BY <1>1, <1>4, <1>5 DEF LeafInv
  <2>2. /\ Covers(x, e.ikey)
        /\ e.kind # "layer" => e.lv # 0
        /\ y # RootLayer => e.kind = "plain"
        /\ e.kind = "layer" => e.lv \in layers \ {RootLayer}
    BY <2>1 DEF IInv, StoreInv, LeafInv
  <2>3. e.ikey \in Nat
    BY <2>1, EntryType, SlotType
  <2>4. Covers(x, e.ikey)'
    BY <2>1, <2>2, <2>3, UnlinkCovers
  <2>5. QED
    BY <2>2, <2>4
<1>12. LeftInv'
  <2>1. SUFFICES ASSUME NEW y \in layers, NEW x \in Leaves, In(x, y), x # n, perm[x].size = 0,
                        ~(x \in dirty /\ modstate[x] = "insert")
                 PROVE  Below(x, At(x, 0).ikey)'
    BY <1>1, <1>5 DEF LeftInv
  <2>2. At(x, 0)' = At(x, 0)
    BY <1>1 DEF At
  <2>3. Below(x, At(x, 0).ikey)
    BY <2>1 DEF IInv, StoreInv, LeftInv
  <2>4. At(x, 0).ikey \in Nat
    <3>1. 0 \in Slots
      BY WidthFacts
    <3>2. perm[x].slot[0] \in Slots /\ slot[x] \in [Slots -> Slot]
      BY <1>1, <3>1, LeafType, PermuterType
    <3>3. slot[x][perm[x].slot[0]] \in Slot
      BY <3>2
    <3>4. QED
      BY <3>3, SlotType DEF At
  <2>5. PICK z \in Nat : z = At(x, 0).ikey
    BY <2>4
  <2>6. Below(x, z)'
    BY <2>1, <2>3, <2>5, UnlinkCovers
  <2>7. QED
    BY <2>2, <2>5, <2>6
<1>13. AttachInv'
  BY <1>1, UnlinkAttached DEF IInv, StoreInv, AttachInv
<1>14. QED
  BY <1>6, <1>9, <1>10, <1>11, <1>12, <1>13

LEMMA UnlinkFrame ==
  ASSUME IInv, NEW p \in Procs, NEW n, NEW pv, NEW nx, NEW l, Unlinked(p, n, pv, nx, l)
  PROVE  Frame(p)
<1>1. /\ TypeOK /\ TypeOK' /\ n \in Leaves /\ pv \in Leaves /\ nx \in Leaves \cup {None} /\ layers \subseteq Layers
      /\ prev[n] = pv /\ next[pv] = n /\ (nx # None => prev[nx] = n) /\ locked[n] = p /\ n \in deleted
      /\ l \in layers /\ In(pv, l) /\ n # pv
      /\ UNCHANGED <<slot, perm, modstate, locked, dirty, deleted, layer, low, layers, gcs, scene, ops, db>>
  BY DEF Unlinked, TypeOK, LeafTypeOK
<1>2. /\ next'[pv] = nx /\ (\A z \in Leaves : z # pv => next'[z] = next[z])
      /\ \A x \in Leaves : prev'[x] = IF x = nx THEN pv ELSE prev[x]
  BY <1>1 DEF Unlinked, TypeOK, LeafTypeOK
<1>3. None \notin Leaves
  BY ConstantFacts
<1>4. \A x \in Leaves : \A y \in layers : In(x, y)' <=> x # n /\ In(x, y)
  BY <1>1, UnlinkViews
<1>5. \A x \in Leaves : Gone(x)' <=> x = n \/ Gone(x)
  BY UnlinkViews
<1>6. /\ ThreadFrame(p) /\ \A q \in Procs \ {p} : t'[q] = t[q]
  BY UnlinkThreads
<1>7. \E c \in Thread : \E d \in Thread : 
              /\ c = t[p] /\ d = t'[p] /\ d = [c EXCEPT !.pc = "delete_tree"]
              /\ SameLock(c, d) /\ d.pc = "delete_tree" /\ d.other = c.other /\ d.held = c.held
  BY UnlinkThreads
<1>8. t'[p].node = n
  BY <1>7 DEF SameLock, Unlinked
<1>9. LockedFrame(p)
  <2>1. SUFFICES ASSUME NEW x \in Leaves, locked[x] \in Procs \ {p}
                 PROVE  /\ next[x] = None => next'[x] = None
                        /\ next[x] # None /\ locked[next[x]] = locked[x] => next'[x] = next[x]
                        /\ t'[p].node # x
    BY <1>1 DEF LockedFrame
  <2>2. QED
    BY <1>1, <1>2, <1>3, <1>8, <2>1
<1>10. LeafFrame(p)
  <2>1. \A x \in Leaves : Alloc(x)' <=> Alloc(x)
    BY <1>1 DEF Alloc
  <2>2. ~Gone(pv)'
    BY <1>1, <1>4 DEF Gone
  <2>3. \A x \in Leaves : next'[x] # next[x] => ~Gone(x)'
    BY <1>2, <2>2
  <2>4. \A x \in Leaves : prev'[x] = None <=> prev[x] = None
    BY <1>1, <1>2, <1>3
  <2>5. QED
    BY <1>1, <1>5, <2>1, <2>3, <2>4 DEF LeafFrame
<1>11. ListFrame(p)
  <2>1. SUFFICES ASSUME NEW x \in Leaves, NEW y \in layers, In(x, y)
                 PROVE  /\ In(x, y)' \/ (Gone(x)' /\ x \in deleted /\ locked[x] = p)
                        /\ \A z \in Nat : Covers(x, z) => Covers(x, z)' \/ Gone(x)'
    BY DEF ListFrame
  <2>2. CASE x = n
    BY <1>1, <1>5, <2>2
  <2>3. CASE x # n
    <3>1. \A z \in Nat : Covers(x, z) => Covers(x, z)'
      BY <2>1, <2>3, UnlinkCovers
    <3>2. QED
      BY <1>4, <2>1, <2>3, <3>1
  <2>4. QED
    BY <2>2, <2>3
<1>12. LayerFrame(p)
  <2>1. \A y \in layers : Dead(y) => Dead(y)'
    BY <1>1, <1>4 DEF Dead
  <2>2. \A y, a : Attached(y, a)' <=> Attached(y, a)
    BY UnlinkAttached
  <2>3. QED
    BY <1>1, <2>1, <2>2 DEF LayerFrame
<1>13. ReadFrame(p)
  <2>1. ReadsKept(p)
    BY <1>1 DEF ReadsKept, PermSame
  <2>2. QED
    BY <1>1, <1>6, <2>1, ReadsFrame
<1>14. QED
  BY <1>6, <1>9, <1>10, <1>11, <1>12, <1>13 DEF Frame

LEMMA DeleteUnlinkStep ==
  ASSUME IInv, NEW p \in Procs, DeleteUnlink(p)
  PROVE  IInv'
<1>1. PICK n, pv, nx, l : Unlinked(p, n, pv, nx, l)
  BY UnlinkMine
<1>2. /\ TypeOK /\ TypeOK' /\ n \in Leaves /\ pv \in Leaves /\ t[p].pc = "delete_unlink" /\ t[p].node = n
      /\ prev[n] = pv /\ n # nx /\ layer[n] \in Layers
      /\ UNCHANGED <<slot, perm, modstate, locked, dirty, deleted, layer, low, layers, gcs, scene, ops, db>>
  BY <1>1 DEF Unlinked
<1>3. prev'[n] = pv /\ pv # None /\ ~Linked(n)'
  <2>1. prev' = [x \in Leaves |-> IF x = nx THEN pv ELSE prev[x]]
    BY <1>1 DEF Unlinked
  <2>2. ~Linked(n)'
    BY <1>1, UnlinkViews
  <2>3. QED
    BY <1>2, <2>1, <2>2, ConstantFacts
<1>4. PICK c \in Thread : \E d \in Thread : 
              /\ c = t[p] /\ d = t'[p] /\ d = [c EXCEPT !.pc = "delete_tree"]
              /\ SameLock(c, d) /\ d.pc = "delete_tree" /\ d.other = c.other /\ d.held = c.held
  BY <1>1, UnlinkThreads
<1>5. PICK d \in Thread : 
              /\ c = t[p] /\ d = t'[p] /\ d = [c EXCEPT !.pc = "delete_tree"]
              /\ SameLock(c, d) /\ d.pc = "delete_tree" /\ d.other = c.other /\ d.held = c.held
  BY <1>4
<1>6. KeyOK(c) /\ DeleteOK(c) /\ c.other = None /\ c.op # "get"
  BY <1>2, <1>5, DeleteMine, DeletePcs
<1>7. ThreadOK(t[p])'
  <2>1. KeyOK(d)
    BY <1>5, <1>6, LockKey
  <2>2. KeyOK(d)'
    BY <1>2, <2>1 DEF KeyOK
  <2>3. d.node = n /\ c.node = n /\ c.pc = "delete_unlink"
    BY <1>2, <1>5 DEF SameLock
  <2>4. DeleteOK(d)'
    BY <1>2, <1>3, <1>5, <1>6, <2>3 DEF DeleteOK
  <2>5. LockOK(d)'
    BY <1>5, <2>4, DeletePcs DEF LockOK
  <2>6. ThreadOK(d)'
    BY <1>5, <1>6, <2>2, <2>5, DeletePcs, HolderOK
  <2>7. QED
    BY <1>5, <2>6
<1>8. ListInv' /\ AllocInv' /\ DbInv' /\ LockInv'
  BY <1>1, UnlinkList, UnlinkAlloc, UnlinkDb, UnlinkThreads
<1>9. DeadInv' /\ BoundInv' /\ SortInv' /\ LeafInv' /\ LeftInv' /\ AttachInv'
  BY <1>1, UnlinkStore
<1>10. Frame(p)
  BY <1>1, UnlinkFrame
<1>11. ThreadInv'
  BY <1>2, <1>7, <1>8, <1>10, ThreadInvStep
<1>12. QED
  BY <1>2, <1>8, <1>9, <1>11 DEF IInv, StoreInv
=============================================================================
