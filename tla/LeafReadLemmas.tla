--------------------------- MODULE LeafReadLemmas ---------------------------
(***************************************************************************)
(* Lemmas for the theorems of LeafReadProofs: the operations on            *)
(* permutations; what the leaves say of the table; that ThreadInv of every *)
(* other thread survives a step that keeps Frame; the steps of the search, *)
(* the locks and the marks, and the slot that is filled before it is       *)
(* published.                                                              *)
(***************************************************************************)
EXTENDS LeafReadInv, WellFoundedInduction, TLAPS

-----------------------------------------------------------------------------
(* Permutations.                                                           *)

LEMMA WidthFacts == Width \in Nat /\ Width >= 3 /\ 0 \in Slots /\ Width - 1 \in Slots
BY WidthAssumption, LeafReadAssumption DEF Slots

LEMMA SlotsAre == Width \in Int /\ \A x : x \in Slots <=> x \in Int /\ 0 <= x /\ x < Width
BY WidthFacts DEF Slots

LEMMA PermuterType ==
  ASSUME NEW pm \in Permuters
  PROVE  /\ pm.size \in 0..Width /\ pm.slot \in [Slots -> Slots]
         /\ Index(pm) \subseteq Slots /\ \A i \in Index(pm) : pm.slot[i] \in Slots
         /\ Back(pm) \in Slots
BY WidthFacts DEF Permuters, Index, Slots, Back

LEMMA MakeEmptyOK == MakeEmpty \in Permuters /\ Injective(MakeEmpty) /\ MakeEmpty.size = 0
BY WidthFacts DEF MakeEmpty, Permuters, Injective, Slots

LEMMA MakeSortedOK ==
  ASSUME NEW n \in 0..Width
  PROVE  /\ MakeSorted(n) \in Permuters /\ Injective(MakeSorted(n)) /\ MakeSorted(n).size = n
         /\ \A i \in 0..(n - 1) : MakeSorted(n).slot[i] = i
<1>1. /\ MakeSorted(n).size = n
      /\ \A i \in Slots : MakeSorted(n).slot[i] = IF i < n THEN i ELSE Width - 1 - (i - n)
  BY DEF MakeSorted
<1>2. MakeSorted(n) \in Permuters
  BY WidthFacts DEF MakeSorted, Permuters, Slots
<1>3. Injective(MakeSorted(n))
  BY <1>1, WidthFacts DEF Injective, Slots
<1>4. QED
  BY <1>1, <1>2, <1>3, WidthFacts DEF Slots

LEMMA InsertFromBackOK ==
  ASSUME NEW pm \in Permuters, Injective(pm), pm.size < Width, NEW i \in 0..pm.size
  PROVE  LET new == InsertFromBack(pm, i) IN
         /\ new \in Permuters /\ Injective(new) /\ new.size = pm.size + 1
         /\ \A j \in 0..pm.size :
              new.slot[j] = IF j < i THEN pm.slot[j] ELSE IF j = i THEN Back(pm)
                            ELSE pm.slot[j - 1]
<1> DEFINE new == InsertFromBack(pm, i)
<1>0. pm.size \in 0..Width /\ pm.slot \in [Slots -> Slots] /\ Back(pm) = pm.slot[Width - 1]
  BY PermuterType DEF Back
<1>1. /\ new.size = pm.size + 1
      /\ \A j \in Slots : new.slot[j] = IF j < i THEN pm.slot[j] ELSE IF j = i THEN Back(pm)
                            ELSE pm.slot[j - 1]
  BY DEF InsertFromBack
<1>2. new \in Permuters
  BY <1>0, WidthFacts DEF InsertFromBack, Permuters, Slots
<1>3. Injective(new)
  <2> DEFINE src(x) == IF x < i THEN x ELSE IF x = i THEN Width - 1 ELSE x - 1
  <2> HIDE DEF new
  <2>1. ASSUME NEW x \in Slots PROVE src(x) \in Slots
    BY <1>0, WidthFacts DEF Slots
  <2>5. ASSUME NEW x \in Slots PROVE new.slot[x] = pm.slot[src(x)]
    BY <1>0, <1>1
  <2>2. ASSUME NEW x \in Slots, NEW y \in Slots, src(x) = src(y) PROVE x = y
    <3>1. x \in Int /\ x < Width /\ y \in Int /\ y < Width /\ i \in Int /\ i < Width /\ Width \in Int
      BY <1>0, SlotsAre
    <3>2. CASE x < i
      BY <2>2, <3>1, <3>2
    <3>3. CASE x >= i
      BY <2>2, <3>1, <3>3
    <3>4. QED
      BY <3>1, <3>2, <3>3
  <2> HIDE DEF src
  <2>3. \A x, y \in Slots : pm.slot[x] = pm.slot[y] => x = y
    BY <1>0 DEF Injective
  <2>4. QED
    BY <2>1, <2>2, <2>3, <2>5 DEF Injective
<1>4. QED
  BY <1>0, <1>1, <1>2, <1>3, WidthFacts DEF Slots

(* The slot at the back is free.                                           *)
LEMMA BackFree ==
  ASSUME NEW pm \in Permuters, Injective(pm), pm.size < Width
  PROVE  \A j \in Index(pm) : pm.slot[j] # Back(pm)
BY WidthFacts DEF Permuters, Slots, Back, Injective, Index

LEMMA RemoveAtOK ==
  ASSUME NEW pm \in Permuters, Injective(pm), NEW i \in Index(pm)
  PROVE  LET new == RemoveAt(pm, i) IN
         /\ new \in Permuters /\ Injective(new) /\ new.size = pm.size - 1
         /\ \A j \in 0..(pm.size - 2) :
              new.slot[j] = IF j < i THEN pm.slot[j] ELSE pm.slot[j + 1]
         /\ new.slot[pm.size - 1] = pm.slot[i]
<1> DEFINE new == RemoveAt(pm, i)
<1>0. pm.size \in 0..Width /\ pm.slot \in [Slots -> Slots] /\ i \in Int /\ 0 <= i /\ i < pm.size
  BY PermuterType DEF Index
<1>1. /\ new.size = pm.size - 1
      /\ \A j \in Slots : new.slot[j] = IF j < i \/ j >= pm.size THEN pm.slot[j]
                             ELSE IF j = pm.size - 1 THEN pm.slot[i] ELSE pm.slot[j + 1]
  BY DEF RemoveAt
<1>2. new \in Permuters
  <2>1. new.size \in 0..Width
    BY <1>0, <1>1, SlotsAre
  <2>2. ASSUME NEW j \in Slots PROVE new.slot[j] \in Slots
    <3>1. i \in Slots /\ (j < pm.size - 1 => j + 1 \in Slots)
      BY <1>0, SlotsAre
    <3>2. j \in Int /\ pm.size \in Int
      BY <1>0, SlotsAre
    <3>3. j < i \/ j >= pm.size \/ j = pm.size - 1 \/ j < pm.size - 1
      BY <3>2
    <3>4. QED
      BY <1>0, <1>1, <3>1, <3>2, <3>3
  <2>3. QED
    BY <2>1, <2>2 DEF RemoveAt, Permuters
<1>3. Injective(new)
  <2> DEFINE src(x) == IF x < i \/ x >= pm.size THEN x ELSE IF x = pm.size - 1 THEN i ELSE x + 1
  <2> HIDE DEF new
  <2>1. ASSUME NEW x \in Slots PROVE src(x) \in Slots
    BY <1>0, WidthFacts DEF Slots
  <2>5. ASSUME NEW x \in Slots PROVE new.slot[x] = pm.slot[src(x)]
    BY <1>0, <1>1
  <2>2. ASSUME NEW x \in Slots, NEW y \in Slots, src(x) = src(y) PROVE x = y
    <3>1. PICK m \in Int : m = pm.size
      BY <1>0
    <3>2. (IF x < i \/ x >= m THEN x ELSE IF x = m - 1 THEN i ELSE x + 1)
            = (IF y < i \/ y >= m THEN y ELSE IF y = m - 1 THEN i ELSE y + 1)
      BY <2>2, <3>1
    <3>3. x \in Int /\ y \in Int /\ i \in Int /\ i < m
      BY <1>0, <3>1, WidthFacts DEF Slots
    <3>4. CASE x < i \/ x >= m
      BY <3>2, <3>3, <3>4
    <3>5. CASE x = m - 1
      BY <3>2, <3>3, <3>5
    <3>6. CASE i <= x /\ x < m - 1
      BY <3>2, <3>3, <3>6
    <3>7. QED
      BY <3>3, <3>4, <3>5, <3>6
  <2> HIDE DEF src
  <2>3. \A x, y \in Slots : pm.slot[x] = pm.slot[y] => x = y
    BY <1>0 DEF Injective
  <2>4. QED
    BY <2>1, <2>2, <2>3, <2>5 DEF Injective
<1>4. ASSUME NEW j \in 0..(pm.size - 2)
      PROVE  new.slot[j] = IF j < i THEN pm.slot[j] ELSE pm.slot[j + 1]
  <2> j \in Slots
    BY <1>0, WidthFacts DEF Slots
  <2> QED
    BY <1>0, <1>1
<1>5. pm.size - 1 \in Slots /\ new.slot[pm.size - 1] = pm.slot[i]
  <2> pm.size - 1 \in Slots
    BY <1>0, SlotsAre
  <2> QED
    BY <1>0, <1>1
<1>6. QED
  BY <1>1, <1>2, <1>3, <1>4, <1>5

LEMMA RemoveToBackOK ==
  ASSUME NEW n \in 1..Width, NEW i \in 0..(n - 1)
  PROVE  LET new == RemoveToBack(MakeSorted(n), i) IN
         /\ new \in Permuters /\ Injective(new) /\ new.size = n - 1 /\ Back(new) = i
         /\ \A j \in 0..(n - 2) : new.slot[j] = IF j < i THEN j ELSE j + 1
<1> DEFINE pm == MakeSorted(n)
           new == RemoveToBack(pm, i)
<1>0. /\ pm \in Permuters /\ Injective(pm) /\ pm.size = n /\ \A j \in 0..(n - 1) : pm.slot[j] = j
      /\ pm.slot \in [Slots -> Slots]
  BY MakeSortedOK, PermuterType, WidthFacts
<1> HIDE DEF pm
<1>1. /\ new.size = pm.size - 1
      /\ \A j \in Slots : new.slot[j] = IF j < i THEN pm.slot[j]
                             ELSE IF j = Width - 1 THEN pm.slot[i] ELSE pm.slot[j + 1]
  BY DEF RemoveToBack
<1>2. new \in Permuters
  BY <1>0, WidthFacts DEF RemoveToBack, Permuters, Slots
<1>3. Injective(new)
  <2> DEFINE src(x) == IF x < i THEN x ELSE IF x = Width - 1 THEN i ELSE x + 1
  <2> HIDE DEF new
  <2>1. ASSUME NEW x \in Slots PROVE src(x) \in Slots
    BY <1>0, WidthFacts DEF Slots
  <2>5. ASSUME NEW x \in Slots PROVE new.slot[x] = pm.slot[src(x)]
    BY <1>0, <1>1
  <2>2. ASSUME NEW x \in Slots, NEW y \in Slots, src(x) = src(y) PROVE x = y
    <3>1. x \in Int /\ x < Width /\ y \in Int /\ y < Width /\ i \in Int /\ i < Width /\ Width \in Int
      BY <1>0, SlotsAre
    <3>2. CASE x < i
      BY <2>2, <3>1, <3>2
    <3>3. CASE x >= i
      BY <2>2, <3>1, <3>3
    <3>4. QED
      BY <3>1, <3>2, <3>3
  <2> HIDE DEF src
  <2>3. \A x, y \in Slots : pm.slot[x] = pm.slot[y] => x = y
    BY <1>0 DEF Injective
  <2>4. QED
    BY <2>1, <2>2, <2>3, <2>5 DEF Injective
<1>4. Back(new) = i
  <2>1. Width - 1 \in Slots /\ ~(Width - 1 < i)
    BY WidthFacts DEF Slots
  <2>2. new.slot[Width - 1] = pm.slot[i]
    BY <1>1, <2>1
  <2>3. QED
    BY <1>0, <2>2 DEF Back
<1>5. ASSUME NEW j \in 0..(n - 2) PROVE new.slot[j] = IF j < i THEN j ELSE j + 1
  <2>1. j \in Slots /\ j # Width - 1 /\ j + 1 \in 0..(n - 1) /\ j \in 0..(n - 1)
    BY WidthFacts DEF Slots
  <2>2. new.slot[j] = IF j < i THEN pm.slot[j] ELSE pm.slot[j + 1]
    BY <1>1, <2>1
  <2>3. QED
    BY <1>0, <2>1, <2>2
<1>6. QED
  BY <1>0, <1>1, <1>2, <1>3, <1>4, <1>5 DEF pm

LEMMA ExchangeOK ==
  ASSUME NEW pm \in Permuters, Injective(pm), NEW i \in Slots, NEW j \in Slots
  PROVE  /\ Exchange(pm, i, j) \in Permuters /\ Injective(Exchange(pm, i, j))
         /\ Exchange(pm, i, j).size = pm.size
         /\ \A k \in Slots : k # i /\ k # j => Exchange(pm, i, j).slot[k] = pm.slot[k]
         /\ Exchange(pm, i, j).slot[j] = pm.slot[i]
<1>1. Exchange(pm, i, j) \in Permuters
  BY WidthFacts DEF Exchange, Permuters
<1>2. /\ Exchange(pm, i, j).size = pm.size
      /\ \A k \in Slots : k # i /\ k # j => Exchange(pm, i, j).slot[k] = pm.slot[k]
      /\ Exchange(pm, i, j).slot[j] = pm.slot[i]
      /\ i # j => Exchange(pm, i, j).slot[i] = pm.slot[j]
  BY WidthFacts DEF Exchange, Permuters
<1>3. Injective(Exchange(pm, i, j))
  BY <1>2 DEF Injective
<1>4. QED
  BY <1>1, <1>2, <1>3

LEMMA SetSizeOK ==
  ASSUME NEW pm \in Permuters, Injective(pm), NEW n \in 0..Width
  PROVE  /\ SetSize(pm, n) \in Permuters /\ Injective(SetSize(pm, n))
         /\ SetSize(pm, n).size = n /\ SetSize(pm, n).slot = pm.slot
BY DEF SetSize, Permuters, Injective

(* The order on permutations that a reader may have seen.                  *)
LEMMA PermLeReflexive == ASSUME NEW pm \in Permuters PROVE PermLe(pm, pm)
BY DEF PermLe, Permuters, Index

LEMMA PermLeTransitive ==
  ASSUME NEW a \in Permuters, NEW b \in Permuters, NEW c \in Permuters,
         PermLe(a, b), PermLe(b, c)
  PROVE  PermLe(a, c)
BY WidthFacts DEF PermLe, Permuters, Index

LEMMA PermLeEmpty ==
  ASSUME NEW a \in Permuters, NEW b \in Permuters, a.size = 0
  PROVE  PermLe(a, b) /\ (PermLe(b, a) => b.size = 0)
BY WidthFacts DEF PermLe, Permuters, Index

LEMMA PermLeInsert ==
  ASSUME NEW pm \in Permuters, Injective(pm), pm.size < Width, NEW i \in 0..pm.size
  PROVE  PermLe(pm, InsertFromBack(pm, i))
<1>1. /\ InsertFromBack(pm, i).size = pm.size + 1 /\ pm.size \in 0..Width
      /\ \A j \in 0..pm.size :
              InsertFromBack(pm, i).slot[j] = IF j < i THEN pm.slot[j] ELSE IF j = i THEN Back(pm)
                            ELSE pm.slot[j - 1]
  BY InsertFromBackOK, PermuterType
<1>2. ASSUME NEW j \in Index(pm)
      PROVE  \E k \in Index(InsertFromBack(pm, i)) : pm.slot[j] = InsertFromBack(pm, i).slot[k]
  <2>1. CASE j < i
    BY <1>1, <2>1 DEF Index
  <2>2. CASE j >= i
    <3>1. j + 1 \in Index(InsertFromBack(pm, i)) /\ InsertFromBack(pm, i).slot[j + 1] = pm.slot[j]
      BY <1>1, <2>2 DEF Index
    <3>2. QED
      BY <3>1
  <2>3. QED
    BY <2>1, <2>2, <1>1 DEF Index
<1>3. QED
  BY <1>1, <1>2 DEF PermLe

LEMMA PermLeRemove ==
  ASSUME NEW pm \in Permuters, Injective(pm), NEW i \in Index(pm)
  PROVE  PermLe(RemoveAt(pm, i), pm)
<1>1. /\ RemoveAt(pm, i).size = pm.size - 1 /\ pm.size \in 0..Width
      /\ \A j \in 0..(pm.size - 2) :
              RemoveAt(pm, i).slot[j] = IF j < i THEN pm.slot[j] ELSE pm.slot[j + 1]
  BY RemoveAtOK, PermuterType
<1>2. ASSUME NEW j \in Index(RemoveAt(pm, i))
      PROVE  \E k \in Index(pm) : RemoveAt(pm, i).slot[j] = pm.slot[k]
  <2>1. CASE j < i
    BY <1>1, <2>1 DEF Index
  <2>2. CASE j >= i
    <3>1. j + 1 \in Index(pm) /\ RemoveAt(pm, i).slot[j] = pm.slot[j + 1]
      BY <1>1, <2>2 DEF Index
    <3>2. QED
      BY <3>1
  <2>3. QED
    BY <2>1, <2>2, <1>1 DEF Index
<1>3. QED
  BY <1>1, <1>2, WidthFacts DEF PermLe

-----------------------------------------------------------------------------
(* Types, and what the parts of the invariant say of one leaf, one slot or *)
(* one key.                                                                *)

LEMMA ConstantFacts ==
  /\ First \in Leaves /\ RootLayer \in Layers
  /\ None \notin Leaves /\ None \notin Layers /\ None \notin Procs /\ None \notin Slots
BY LeafReadAssumption

LEMMA KeyFacts ==
  ASSUME NEW k \in Keys
  PROVE  k \in Seq(Nat) /\ Len(k) \in 1..2 /\ k[1] \in Nat /\ (Len(k) = 2 => k[2] \in Nat)
BY LeafReadAssumption

LEMMA LeafType ==
  ASSUME TypeOK, NEW n \in Leaves
  PROVE  /\ slot[n] \in [Slots -> Slot] /\ perm[n] \in Permuters
         /\ modstate[n] \in {"insert", "remove", "deleted_layer"}
         /\ locked[n] \in Procs \cup {None}
         /\ layer[n] \in Layers \cup {None} /\ low[n] \in Nat
         /\ next[n] \in Leaves \cup {None} /\ prev[n] \in Leaves \cup {None}
BY DEF TypeOK, LeafTypeOK

LEMMA SlotType ==
  ASSUME NEW s \in Slot
  PROVE  /\ s.ikey \in Nat /\ s.kind \in {"plain", "ksuf", "layer"} /\ s.suf \in Nat
         /\ s.lv \in Int \cup Layers
BY DEF Slot

LEMMA ThreadType ==
  ASSUME NEW c \in Thread
  PROVE  /\ c.pc \in Pcs /\ c.op \in {"none", "get", "put", "remove", "gc"}
         /\ c.key \in Seq(Nat) /\ c.depth \in 1..2 /\ c.root \in Layers
         /\ c.node \in Leaves \cup {None} /\ c.held \in {"same", "insert", "split"}
         /\ c.bit \in {"live", "deleted"} /\ c.perm0 \in Permuters /\ c.perm \in Permuters
         /\ c.i \in Int /\ c.r \in Int /\ c.p \in Slots \cup {None}
         /\ c.lv \in Int \cup Layers /\ c.state \in {-1, 0, 1} /\ c.val \in Int \cup Layers
         /\ c.other \in Leaves \cup {None} /\ c.may \subseteq Int \cup Layers
BY DEF Thread

LEMMA DepthFacts ==
  ASSUME NEW k \in Seq(Nat), NEW d \in 1..Len(k), Len(k) \in 1..2
  PROVE  /\ k[1] \in Nat /\ k[d] \in Nat /\ (Len(k) = 2 => k[2] \in Nat)
         /\ Len(k) > d <=> d = 1 /\ Len(k) = 2
         /\ d = 1 \/ (d = 2 /\ Len(k) = 2)
<1>1. k[1] \in Nat /\ k[d] \in Nat /\ (Len(k) = 2 => k[2] \in Nat)
  OBVIOUS
<1>2. Len(k) > d <=> d = 1 /\ Len(k) = 2
  OBVIOUS
<1>3. d = 1 \/ (d = 2 /\ Len(k) = 2)
  <2>1. PICK m \in 1..2 : m = Len(k)
    OBVIOUS
  <2>2. d \in 1..m
    BY <2>1
  <2>3. d = 1 \/ (d = 2 /\ m = 2)
    BY <2>2
  <2>4. QED
    BY <2>1, <2>3
<1>4. QED
  BY <1>1, <1>2, <1>3

LEMMA IkeyType ==
  ASSUME NEW c \in Thread, KeyOK(c)
  PROVE  /\ Ikey(c) \in Nat /\ c.key[1] \in Nat
         /\ HasSuffix(c) <=> c.depth = 1 /\ Len(c.key) = 2
         /\ Len(c.key) = 2 => c.key[2] \in Nat
         /\ c.depth = 1 \/ (c.depth = 2 /\ Len(c.key) = 2)
         /\ Ikey(c) = c.key[c.depth]
<1>1. c.key \in Seq(Nat) /\ Len(c.key) \in 1..2 /\ c.depth \in 1..Len(c.key)
  BY ThreadType DEF KeyOK
<1>2. QED
  BY <1>1, DepthFacts, Zenon DEF Ikey, HasSuffix

(* Compare says -1, 0 or 1; what it says depends on slice and kind alone.  *)
LEMMA CompareFacts ==
  ASSUME NEW c \in Thread, KeyOK(c), NEW s \in Slot
  PROVE  /\ Compare(c, s) \in {-1, 0, 1}
         /\ Compare(c, s) = -1 <=> \/ Ikey(c) < s.ikey
                                   \/ Ikey(c) = s.ikey /\ ~HasSuffix(c) /\ s.kind # "plain"
         /\ Compare(c, s) = 1 <=> \/ Ikey(c) > s.ikey
                                  \/ Ikey(c) = s.ikey /\ HasSuffix(c) /\ s.kind = "plain"
         /\ Compare(c, s) = 0 <=> Ikey(c) = s.ikey /\ (HasSuffix(c) <=> s.kind # "plain")
<1>1. Ikey(c) \in Nat /\ s.ikey \in Nat
  BY IkeyType, SlotType
<1>2. CASE Ikey(c) < s.ikey
  BY <1>1, <1>2 DEF Compare
<1>3. CASE Ikey(c) > s.ikey
  BY <1>1, <1>3 DEF Compare
<1>4. CASE Ikey(c) = s.ikey /\ HasSuffix(c)
  BY <1>1, <1>4 DEF Compare
<1>5. CASE Ikey(c) = s.ikey /\ ~HasSuffix(c)
  BY <1>1, <1>5 DEF Compare
<1>6. QED
  BY <1>1, <1>2, <1>3, <1>4, <1>5

LEMMA MatchFacts ==
  ASSUME NEW c \in Thread, NEW s \in Slot
  PROVE  /\ KsufMatches(c, s) \in {-1, 0, 1}
         /\ KsufMatches(c, s) = -1 <=> s.kind = "layer"
         /\ KsufMatches(c, s) = 1 <=> \/ s.kind = "plain"
                                      \/ s.kind = "ksuf" /\ HasSuffix(c) /\ s.suf = c.key[c.depth + 1]
<1>1. s.kind \in {"plain", "ksuf", "layer"}
  BY SlotType
<1>2. CASE s.kind = "plain"
  BY <1>2 DEF KsufMatches
<1>3. CASE s.kind = "layer"
  BY <1>3 DEF KsufMatches
<1>4. CASE s.kind = "ksuf"
  BY <1>4 DEF KsufMatches
<1>5. QED
  BY <1>1, <1>2, <1>3, <1>4

-----------------------------------------------------------------------------
LEMMA InUnique ==
  ASSUME TypeOK, NEW n \in Leaves, NEW l \in Layers, NEW m \in Layers, In(n, l), In(n, m)
  PROVE  l = m
BY ConstantFacts DEF In

LEMMA InAlloc ==
  ASSUME TypeOK, AllocInv, NEW n \in Leaves, NEW l \in Layers, In(n, l)
  PROVE  Alloc(n) /\ l \in layers
<1>1. Alloc(n)
  BY ConstantFacts DEF In, Alloc, AllocInv
<1>2. CASE layer[n] = l
  BY <1>1, <1>2, ConstantFacts DEF AllocInv
<1>3. CASE layer[n] = None /\ prev[n] # None /\ layer[prev[n]] = l
  BY <1>1, <1>3, LeafType, ConstantFacts DEF AllocInv
<1>4. QED
  BY <1>1, <1>2, <1>3 DEF In

(* The thread that splits a leaf.                                          *)
LEMMA SplitterFacts ==
  ASSUME IInv, NEW n \in Leaves, Splitting(n)
  PROVE  \E q \in Procs : /\ locked[n] = q /\ t[q].node = n /\ t[q].pc \in MidPc
                          /\ MidOK(t[q]) /\ HomeOK(t[q]) /\ n \notin deleted
                          /\ t[q].other \in Leaves /\ t[q].other = next[n]
                          /\ locked[next[n]] = q
<1>1. locked[n] \in Procs
  BY LeafType DEF IInv, StoreInv, Splitting
<1> DEFINE q == locked[n]
<1>2. t[q].node = n /\ t[q].pc \in MidPc /\ t[q] \in Thread
  BY <1>1 DEF Splitting, IInv, StoreInv, TypeOK
<1>3. LockOK(t[q])
  BY <1>1, <1>2 DEF IInv, ThreadInv, ThreadOK, LockPc
<1>4. MidOK(t[q]) /\ HomeOK(t[q]) /\ n \notin deleted
  BY <1>2, <1>3 DEF LockOK, MidPc, DeletePc
<1>5. t[q].other \in Leaves /\ t[q].other = next[n]
  BY <1>2, <1>4, ThreadType DEF MidOK
<1>6. locked[next[n]] = q
  BY <1>1, <1>2, <1>5 DEF IInv, StoreInv, LockInv, Owns, MidPc, LockPc
<1>7. QED
  BY <1>1, <1>2, <1>4, <1>5, <1>6

LEMMA HiFacts ==
  ASSUME IInv, NEW n \in Leaves, NEW l \in layers, In(n, l)
  PROVE  /\ Hi(n) \in Leaves \cup {None}
         /\ Hi(n) # None => In(Hi(n), l) /\ low[n] < low[Hi(n)] /\ prev[Hi(n)] # None
         /\ Hi(n) # None => layer[Hi(n)] = l
<1>0. /\ TypeOK /\ ListInv /\ None \notin Leaves /\ l \in Layers
      /\ next[n] \in Leaves \cup {None} /\ low[n] \in Nat
      /\ AllocInv /\ LockInv
  BY LeafType, ConstantFacts DEF IInv, StoreInv, TypeOK, LeafTypeOK
<1>1. /\ Hi(n) \in Leaves \cup {None}
      /\ Hi(n) # None => In(Hi(n), l) /\ low[n] < low[Hi(n)] /\ prev[Hi(n)] # None
      /\ Hi(n) # None => ~Splitting(prev[Hi(n)])
  <2>1. CASE ~Splitting(n)
    <3>1. Hi(n) = next[n]
      BY <2>1 DEF Hi
    <3>2. next[n] # None => In(next[n], l) /\ low[n] < low[next[n]] /\ prev[next[n]] = n
      BY <1>0 DEF ListInv
    <3>3. QED
      BY <1>0, <2>1, <3>1, <3>2
  <2>2. CASE Splitting(n)
    <3>1. next[n] \in Leaves /\ ~Splitting(next[n])
      <4>1. PICK q \in Procs : /\ locked[n] = q /\ t[q].node = n /\ t[q].pc \in MidPc
                          /\ t[q].other \in Leaves /\ t[q].other = next[n]
                          /\ locked[next[n]] = q
        BY <2>2, SplitterFacts
      <4>2. t[q].other # t[q].node
        BY <1>0, <4>1 DEF LockInv, LockPc
      <4>3. QED
        BY <4>1, <4>2 DEF Splitting
    <3>2. In(next[n], l) /\ low[n] < low[next[n]]
      BY <1>0, <3>1 DEF ListInv
    <3>3. Hi(n) = next[next[n]] /\ next[next[n]] \in Leaves \cup {None}
      BY <2>2, <3>1, <1>0, LeafType DEF Hi
    <3>4. Hi(n) # None => /\ In(Hi(n), l) /\ low[next[n]] < low[Hi(n)] /\ prev[Hi(n)] = next[n]
      BY <1>0, <3>1, <3>2, <3>3 DEF ListInv
    <3>5. QED
      BY <1>0, <3>1, <3>2, <3>3, <3>4, LeafType
  <2>3. QED
    BY <2>1, <2>2
<1>2. ASSUME Hi(n) # None PROVE layer[Hi(n)] = l
  <2>0. Hi(n) \in Leaves /\ In(Hi(n), l) /\ prev[Hi(n)] # None /\ ~Splitting(prev[Hi(n)])
    BY <1>1, <1>2
  <2>1. SUFFICES ASSUME layer[Hi(n)] = None PROVE FALSE
    BY <2>0 DEF In
  <2>2. locked[Hi(n)] # None /\ Hi(n) \notin deleted
    BY <1>0, <2>0, <2>1, ConstantFacts DEF AllocInv, Alloc, In
  <2>3. PICK q \in Procs : locked[Hi(n)] = q /\ t[q].pc = "split_tree" /\ t[q].other = Hi(n)
    BY <1>0, <2>0, <2>1, <2>2, LeafType DEF AllocInv
  <2>4. locked[t[q].node] = q /\ t[q].node \in Leaves
    BY <1>0, <2>3 DEF LockInv, Owns, LockPc, MidPc
  <2>5. Splitting(t[q].node) /\ next[t[q].node] = Hi(n)
    <3>1. Splitting(t[q].node)
      BY <2>3, <2>4, ConstantFacts DEF Splitting, MidPc
    <3>2. QED
      BY <2>3, <2>4, <3>1, SplitterFacts
  <2>6. PICK m \in layers : In(t[q].node, m)
    BY <2>5, <2>4, SplitterFacts, <1>0 DEF HomeOK
  <2>7. prev[Hi(n)] = t[q].node
    BY <1>0, <2>0, <2>4, <2>5, <2>6, ConstantFacts DEF ListInv
  <2>8. QED
    BY <2>0, <2>5, <2>7
<1>3. QED
  BY <1>1, <1>2

(* Two leaves of a layer that cover the same slice are a leaf that splits  *)
(* and its new neighbour.                                                  *)
LEMMA Disjoint ==
  ASSUME TypeOK, ListInv, NEW l \in layers, NEW n \in Leaves, NEW m \in Leaves, NEW x \in Nat,
         In(n, l), In(m, l), Covers(n, x), Covers(m, x), low[n] < low[m]
  PROVE  Splitting(n) /\ m = next[n]
<1>0. low[n] \in Nat /\ low[m] \in Nat /\ low[m] <= x
  BY LeafType DEF Covers
<1>1. next[n] \in Leaves /\ low[next[n]] <= low[m] /\ low[next[n]] \in Nat /\ In(next[n], l)
  BY LeafType DEF ListInv
<1>2. Splitting(n)
  BY <1>0, <1>1, ConstantFacts DEF Covers, Below, Hi
<1>3. ASSUME m # next[n] PROVE FALSE
  <2>1. low[next[n]] < low[m]
    BY <1>0, <1>1, <1>3 DEF ListInv
  <2>2. next[next[n]] \in Leaves /\ low[next[next[n]]] <= low[m] /\ low[next[next[n]]] \in Nat
    BY <1>1, <2>1, LeafType DEF ListInv
  <2>3. QED
    BY <1>0, <1>2, <2>2, ConstantFacts DEF Covers, Below, Hi
<1>4. QED
  BY <1>2, <1>3

LEMMA EntSlot ==
  ASSUME NEW n \in Leaves,
         locked[n] = None \/ t[locked[n]].node # n \/ t[locked[n]].pc \notin TurnPc
  PROVE  \A s : Ent(n, s) = slot[n][s]
BY DEF Ent, Turning

(* The thread that turns a slot into a layer.                              *)
LEMMA TurnerFacts ==
  ASSUME IInv, NEW n \in Leaves, NEW s, Turning(n, s)
  PROVE  \E q \in Procs : /\ locked[n] = q /\ t[q].node = n /\ t[q].pc \in TurnPc /\ t[q].p = s
                          /\ TurnOK(t[q]) /\ HomeOK(t[q]) /\ s \in Slots
                          /\ t[q].other \in Leaves
<1>1. locked[n] \in Procs
  BY LeafType DEF IInv, StoreInv, Turning
<1> DEFINE q == locked[n]
<1>2. t[q].node = n /\ t[q].pc \in TurnPc /\ t[q] \in Thread /\ t[q].p = s
  BY <1>1 DEF Turning, IInv, StoreInv, TypeOK
<1>3. LockOK(t[q])
  BY <1>1, <1>2 DEF IInv, ThreadInv, ThreadOK, LockPc, LayerPc, TurnPc
<1>4. TurnOK(t[q]) /\ HomeOK(t[q])
  BY <1>2, <1>3 DEF LockOK, TurnPc, LayerPc, DeletePc
<1>5. t[q].other \in Leaves /\ s \in Slots
  BY <1>2, <1>4, ThreadType DEF TurnOK
<1>6. QED
  BY <1>1, <1>2, <1>4, <1>5

LEMMA CleanEnt ==
  ASSUME IInv, NEW n \in Leaves, n \notin dirty
  PROVE  \A s : Ent(n, s) = slot[n][s]
<1>1. ASSUME NEW s, Turning(n, s) PROVE FALSE
  BY <1>1, TurnerFacts DEF TurnOK
<1>2. QED
  BY <1>1 DEF Ent

LEMMA EntFacts ==
  ASSUME IInv, NEW n \in Leaves, NEW s \in Slots
  PROVE  /\ Ent(n, s) \in Slot /\ Ent(n, s).ikey = slot[n][s].ikey
         /\ Ent(n, s).suf = slot[n][s].suf
         /\ Ent(n, s).kind = "plain" <=> slot[n][s].kind = "plain"
         /\ slot[n][s] \in Slot
<1>0. slot[n][s] \in Slot
  BY LeafType DEF IInv, StoreInv
<1>1. CASE ~Turning(n, s)
  BY <1>0, <1>1 DEF Ent
<1>2. CASE Turning(n, s)
  <2>1. PICK q \in Procs : /\ locked[n] = q /\ t[q].node = n /\ t[q].pc \in TurnPc /\ t[q].p = s
                           /\ TurnOK(t[q])
    BY <1>2, TurnerFacts
  <2>2. slot[n][s].kind = "ksuf" /\ layer[t[q].other] \in layers
    BY <2>1 DEF TurnOK, TurnPc
  <2>3. layers \subseteq Layers
    BY DEF IInv, StoreInv, TypeOK, LeafTypeOK
  <2>4. Ent(n, s) = [slot[n][s] EXCEPT !.kind = "layer", !.lv = layer[t[q].other]]
    BY <1>2, <2>1 DEF Ent
  <2>5. QED
    BY <1>0, <2>2, <2>3, <2>4 DEF Slot
<1>3. QED
  BY <1>1, <1>2

LEMMA EntryType ==
  ASSUME IInv, NEW n \in Leaves, NEW e \in Entries(n)
  PROVE  e \in Slot /\ \E i \in Index(perm[n]) : perm[n].slot[i] \in Slots /\ e = Ent(n, perm[n].slot[i])
<1>1. PICK i \in Index(perm[n]) : e = Ent(n, perm[n].slot[i])
  BY DEF Entries
<1>2. perm[n].slot[i] \in Slots
  BY PermuterType, LeafType DEF IInv, StoreInv
<1>3. QED
  BY <1>1, <1>2, EntFacts

LEMMA AtType ==
  ASSUME TypeOK, NEW n \in Leaves, NEW i \in Index(perm[n])
  PROVE  At(n, i) \in Slot /\ i \in Slots /\ perm[n].slot[i] \in Slots
BY LeafType, PermuterType DEF At

LEMMA EntriesAt ==
  ASSUME NEW n \in Leaves, \A s : Ent(n, s) = slot[n][s]
  PROVE  /\ \A e \in Entries(n) : \E i \in Index(perm[n]) : e = At(n, i)
         /\ \A i \in Index(perm[n]) : At(n, i) \in Entries(n)
BY DEF Entries, At

LEMMA IndexType == ASSUME NEW pm \in Permuters PROVE Index(pm) \subseteq Int
BY DEF Index, Permuters

(* A leaf has one entry for a slice as the end of a key, and one for keys  *)
(* that go on.                                                             *)
LEMMA EntryUnique ==
  ASSUME IInv, NEW n \in Leaves, NEW e \in Entries(n), NEW f \in Entries(n),
         e.ikey = f.ikey, e.kind = "plain" <=> f.kind = "plain"
  PROVE  e = f
<1>1. PICK i \in Index(perm[n]) : perm[n].slot[i] \in Slots /\ e = Ent(n, perm[n].slot[i])
  BY EntryType
<1>2. PICK j \in Index(perm[n]) : perm[n].slot[j] \in Slots /\ f = Ent(n, perm[n].slot[j])
  BY EntryType
<1>3. SortedBy(n, perm[n]) /\ i \in Int /\ j \in Int
  BY IndexType, LeafType DEF IInv, StoreInv, SortInv
<1> DEFINE a == slot[n][perm[n].slot[i]]
           b == slot[n][perm[n].slot[j]]
<1>4. a.ikey = b.ikey /\ (a.kind = "plain" <=> b.kind = "plain") /\ a.ikey \in Nat
  BY <1>1, <1>2, EntFacts, SlotType
<1>5. (i < j => Less(a, b)) /\ (j < i => Less(b, a))
  BY <1>3 DEF SortedBy
<1>6. i = j
  BY <1>3, <1>4, <1>5 DEF Less
<1>7. QED
  BY <1>1, <1>2, <1>6

(* Leaves of a layer that cover the same slice have the same entries for   *)
(* it: while a split is under way, the new leaf repeats the old one.       *)
LEMMA TwinEntries ==
  ASSUME IInv, NEW l \in layers, NEW n \in Leaves, In(n, l), Splitting(n)
  PROVE  /\ next[n] \in Leaves /\ In(next[n], l)
         /\ Entries(next[n]) \subseteq Entries(n)
         /\ \A e \in Entries(n) : e.ikey >= low[next[n]] => e \in Entries(next[n])
<1>0. TypeOK /\ ListInv /\ LockInv
  BY DEF IInv, StoreInv
<1>1. PICK q \in Procs : /\ locked[n] = q /\ t[q].node = n /\ t[q].pc \in MidPc
                         /\ MidOK(t[q]) /\ t[q].other \in Leaves /\ t[q].other = next[n]
                         /\ locked[next[n]] = q
  BY SplitterFacts
<1> DEFINE m == next[n]
           left == perm[n].size - perm[m].size
<1>2. m \in Leaves /\ In(m, l) /\ m # n
  BY <1>0, <1>1, ConstantFacts DEF ListInv, LockInv, LockPc
<1>3. (\A s : Ent(n, s) = slot[n][s]) /\ (\A s : Ent(m, s) = slot[m][s])
  BY <1>1, <1>2, EntSlot DEF MidPc, TurnPc
<1>4. /\ left >= 0 /\ (\A j \in Index(perm[m]) : At(m, j) = At(n, left + j))
      /\ \A j \in 0..(left - 1) : At(n, j).ikey < low[m]
  BY <1>1 DEF MidOK
<1>5. perm[n].size \in Nat /\ perm[m].size \in Nat
  BY <1>0, <1>2, LeafType, PermuterType, WidthFacts
<1> HIDE DEF m
<1>6. ASSUME NEW e \in Entries(m) PROVE e \in Entries(n)
  <2>1. PICK j \in Index(perm[m]) : e = At(m, j)
    BY <1>2, <1>3, EntriesAt
  <2>2. left + j \in Index(perm[n])
    BY <1>4, <1>5, <2>1 DEF Index
  <2>3. QED
    BY <1>2, <1>3, <1>4, <2>1, <2>2, EntriesAt
<1>7. ASSUME NEW e \in Entries(n), e.ikey >= low[m] PROVE e \in Entries(m)
  <2>1. PICK j \in Index(perm[n]) : e = At(n, j)
    BY <1>3, EntriesAt
  <2>2. e.ikey \in Nat /\ low[m] \in Nat
    BY <1>0, <1>2, EntryType, SlotType, LeafType
  <2>3. j >= left
    BY <1>4, <1>5, <1>7, <2>1, <2>2 DEF Index
  <2>4. j - left \in Index(perm[m]) /\ left + (j - left) = j
    BY <1>4, <1>5, <2>1, <2>3 DEF Index
  <2>5. QED
    BY <1>2, <1>3, <1>4, <2>1, <2>4, EntriesAt
<1>8. QED
  BY <1>2, <1>6, <1>7 DEF m

LEMMA Agree ==
  ASSUME IInv, NEW l \in layers, NEW n \in Leaves, NEW m \in Leaves, NEW x \in Nat,
         In(n, l), In(m, l), Covers(n, x), Covers(m, x), NEW e \in Entries(n), e.ikey = x
  PROVE  e \in Entries(m)
<1>0. TypeOK /\ ListInv /\ low[n] \in Nat /\ low[m] \in Nat
  BY LeafType DEF IInv, StoreInv
<1>1. CASE low[n] = low[m]
  BY <1>0, <1>1 DEF ListInv
<1>2. CASE low[n] < low[m]
  <2>1. Splitting(n) /\ m = next[n]
    BY <1>0, <1>2, Disjoint
  <2>2. e.ikey >= low[m]
    BY <1>0 DEF Covers
  <2>3. QED
    BY <2>1, <2>2, TwinEntries
<1>3. CASE low[m] < low[n]
  <2>1. Splitting(m) /\ n = next[m]
    BY <1>0, <1>3, Disjoint
  <2>2. QED
    BY <2>1, TwinEntries
<1>4. QED
  BY <1>0, <1>1, <1>2, <1>3

LEMMA AttachedAt ==
  ASSUME IInv, NEW l \in Layers, NEW a \in Nat, Attached(l, a)
  PROVE  /\ l \in layers \ {RootLayer}
         /\ \A n \in Leaves : In(n, RootLayer) /\ Covers(n, a) =>
              \E e \in Entries(n) : IsLayer(e, l, a)
<1>0. RootLayer \in layers
  BY DEF IInv, StoreInv, TypeOK, LeafTypeOK
<1>1. PICK m \in Leaves : In(m, RootLayer) /\ \E e \in Entries(m) : IsLayer(e, l, a)
  BY DEF Attached
<1>2. PICK e \in Entries(m) : IsLayer(e, l, a)
  BY <1>1
<1>3. Covers(m, a) /\ e.ikey = a /\ l \in layers \ {RootLayer}
  BY <1>0, <1>1, <1>2 DEF IInv, StoreInv, LeafInv, IsLayer
<1>4. QED
  BY <1>0, <1>1, <1>2, <1>3, Agree

LEMMA AttachedUnique ==
  ASSUME IInv, NEW l \in Layers, NEW m \in Layers, NEW a \in Nat, Attached(l, a), Attached(m, a)
  PROVE  l = m
<1>0. RootLayer \in layers
  BY DEF IInv, StoreInv, TypeOK, LeafTypeOK
<1>1. PICK n \in Leaves : In(n, RootLayer) /\ \E e \in Entries(n) : IsLayer(e, l, a)
  BY DEF Attached
<1>2. PICK e \in Entries(n) : IsLayer(e, l, a)
  BY <1>1
<1>3. Covers(n, a)
  BY <1>0, <1>1, <1>2 DEF IInv, StoreInv, LeafInv, IsLayer
<1>4. PICK f \in Entries(n) : IsLayer(f, m, a)
  BY <1>1, <1>3, AttachedAt
<1>5. QED
  BY <1>2, <1>4, EntryUnique DEF IsLayer

-----------------------------------------------------------------------------
(* The other threads. A step that keeps Frame leaves what they rely on.    *)

LEMMA FrameThread ==
  ASSUME TypeOK, TypeOK', NEW p \in Procs, ThreadFrame(p), NEW q \in Procs \ {p}
  PROVE  \E c, d \in Thread : c = t[q] /\ d = t'[q] /\ Later(c, d)
<1>1. t[q] \in Thread /\ t'[q] \in Thread
  BY DEF TypeOK
<1>2. t'[q] = [t[q] EXCEPT !.held = t'[q].held, !.may = t'[q].may]
  BY DEF ThreadFrame
<1>3. PICK c \in Thread : c = t[q]
  BY <1>1
<1>4. PICK d \in Thread : d = t'[q]
  BY <1>1
<1>5. d = [c EXCEPT !.held = d.held, !.may = d.may]
  BY <1>2, <1>3, <1>4
<1>6. /\ d.pc = c.pc /\ d.op = c.op /\ d.key = c.key /\ d.depth = c.depth /\ d.root = c.root
      /\ d.node = c.node /\ d.bit = c.bit /\ d.perm0 = c.perm0 /\ d.perm = c.perm
      /\ d.i = c.i /\ d.r = c.r /\ d.p = c.p /\ d.lv = c.lv /\ d.state = c.state
      /\ d.val = c.val /\ d.other = c.other
  BY <1>5 DEF Thread
<1>7. /\ c.may \subseteq d.may
      /\ d.held = c.held \/ (c.held # "split" /\ d.held # "same")
      /\ c.op = "get" /\ c.key \in Keys /\ db[c.key] \in c.may => db'[c.key] \in d.may
  BY <1>3, <1>4 DEF ThreadFrame
<1>8. QED
  BY <1>3, <1>4, <1>6, <1>7 DEF Later

LEMMA LaterKey ==
  ASSUME NEW c \in Thread, NEW d \in Thread, Later(c, d)
  PROVE  /\ Ikey(d) = Ikey(c) /\ (HasSuffix(d) <=> HasSuffix(c))
         /\ \A s : Compare(d, s) = Compare(c, s) /\ KsufMatches(d, s) = KsufMatches(c, s)
         /\ KeyOK(c) => KeyOK(d)'
<1>1. /\ Ikey(d) = Ikey(c) /\ (HasSuffix(d) <=> HasSuffix(c))
  BY DEF Later, Ikey, HasSuffix
<1>2. \A s : Compare(d, s) = Compare(c, s) /\ KsufMatches(d, s) = KsufMatches(c, s)
  BY <1>1 DEF Compare, KsufMatches, Later
<1>3. KeyOK(c) => KeyOK(d)'
  BY DEF Later, KeyOK
<1>4. QED
  BY <1>1, <1>2, <1>3

(* A reference to a layer stays good.                                      *)
LEMMA OtherRef ==
  ASSUME IInv, NEW p \in Procs, NEW q \in Procs \ {p}, LayerFrame(p),
         NEW c \in Thread, NEW d \in Thread, c = t[q], d = t'[q], Later(c, d),
         KeyOK(c), Len(c.key) = 2, NEW l, LayerRef(c, l)
  PROVE  LayerRef(d, l)'
<1>1. l \in layers' /\ l \in layers /\ l # RootLayer
  BY DEF LayerRef, LayerFrame
<1>2. c.key[1] \in Nat
  BY IkeyType
<1>3. c.key = d.key /\ c.may \subseteq d.may /\ c.op = d.op /\ (c.op = "get" => c.key \in Keys /\ db[c.key] \in c.may)
  BY DEF Later, KeyOK
<1>4. CASE Attached(l, c.key[1])
  BY <1>1, <1>2, <1>3, <1>4 DEF LayerRef, LayerFrame
<1>5. CASE Dead(l) /\ (c.op = "get" => 0 \in c.may)
  BY <1>1, <1>2, <1>3, <1>5 DEF LayerRef, LayerFrame
<1>6. QED
  BY <1>4, <1>5 DEF LayerRef

LEMMA OtherSearch ==
  ASSUME IInv, NEW p \in Procs, NEW q \in Procs \ {p}, Frame(p), TypeOK', ListInv', AllocInv',
         NEW c \in Thread, NEW d \in Thread, c = t[q], d = t'[q], Later(c, d),
         KeyOK(c), SearchOK(c), c.pc \in SearchPc, c.root \in layers
  PROVE  SearchOK(d)'
<1>0. /\ c.node \in Leaves /\ Alloc(c.node) /\ Ikey(c) \in Nat /\ Ikey(d) = Ikey(c)
      /\ c.root \in layers' /\ next[c.node] \in Leaves \cup {None}
      /\ next'[c.node] \in Leaves \cup {None}
      /\ d.node = c.node /\ d.root = c.root /\ d.pc = c.pc /\ d.bit = c.bit
      /\ None \notin Leaves
  <2>1. c.node \in Leaves /\ Alloc(c.node)
    BY ThreadType DEF SearchOK, IInv, StoreInv, AllocInv
  <2>2. next[c.node] \in Leaves \cup {None} /\ next'[c.node] \in Leaves \cup {None}
    BY <2>1 DEF IInv, StoreInv, TypeOK, LeafTypeOK
  <2>3. QED
    BY <2>1, <2>2, IkeyType, LaterKey, ConstantFacts DEF Frame, LayerFrame, Later
<1>1. In(c.node, c.root)' \/ Gone(c.node)'
  BY <1>0 DEF SearchOK, Frame, ListFrame, LeafFrame
<1>2. low'[c.node] <= Ikey(c)
  BY <1>0 DEF SearchOK, Frame, LeafFrame
<1>3. ASSUME c.bit = "live", next'[c.node] # None PROVE In(next[c.node], c.root)' \/ Gone(next[c.node])'
  <2>1. CASE In(c.node, c.root)'
    BY <1>0, <1>3, <2>1 DEF ListInv
  <2>2. CASE Gone(c.node)'
    <3>1. next'[c.node] = next[c.node]
      BY <1>0, <2>2 DEF Frame, LeafFrame
    <3>2. next[c.node] \in Leaves /\ Alloc(next[c.node])
      BY <1>0, <1>3, <3>1 DEF IInv, StoreInv, AllocInv
    <3>3. In(next[c.node], c.root) \/ Gone(next[c.node])
      BY <1>3, <3>1 DEF SearchOK
    <3>4. PICK m \in Leaves : m = next[c.node]
      BY <3>2
    <3>5. In(m, c.root)' \/ Gone(m)'
      BY <3>2, <3>3, <3>4 DEF Frame, ListFrame, LeafFrame
    <3>6. QED
      BY <3>1, <3>4, <3>5
  <2>3. QED
    BY <1>1, <2>1, <2>2
<1>4. ASSUME d.held # "split", d.bit = "live"
      PROVE  /\ c.node \notin deleted' /\ In(c.node, c.root)'
             /\ c.pc # "walk" => Covers(c.node, Ikey(c))'
  <2>1. c.held # "split" /\ c.node \notin deleted /\ In(c.node, c.root)
        /\ (c.pc # "walk" => Covers(c.node, Ikey(c)))
    BY <1>4, <1>0 DEF SearchOK, Later
  <2>2. c.node \notin deleted'
    BY <1>0, <1>4, <2>1 DEF Frame, LeafFrame
  <2>3. In(c.node, c.root)' /\ ~Gone(c.node)'
    <3>1. In(c.node, c.root)'
      BY <1>0, <2>1 DEF Frame, ListFrame
    <3>2. c.root \in Layers
      BY ThreadType
    <3>3. QED
      BY <3>1, <3>2 DEF Gone
  <2>4. ASSUME c.pc # "walk" PROVE Covers(c.node, Ikey(c))'
    BY <1>0, <2>1, <2>3, <2>4, Ikey(c) \in Nat DEF Frame, ListFrame
  <2>5. QED
    BY <2>2, <2>3, <2>4
<1>5. QED
  <2>1. d.pc \in ReadPc \cup {"advance"} => d.bit = "live"
    BY <1>0 DEF SearchOK
  <2>2. d.node # None
    BY <1>0
  <2>3. QED
    BY <1>0, <1>1, <1>2, <1>3, <1>4, <2>1, <2>2 DEF SearchOK

LEMMA CompareSame ==
  ASSUME NEW c, NEW r, NEW s, r.ikey = s.ikey, r.kind = s.kind, r.suf = s.suf
  PROVE  Compare(c, r) = Compare(c, s) /\ KsufMatches(c, r) = KsufMatches(c, s)
BY DEF Compare, KsufMatches

LEMMA OtherRead ==
  ASSUME IInv, NEW p \in Procs, NEW q \in Procs \ {p}, Frame(p),
         NEW c \in Thread, NEW d \in Thread, c = t[q], d = t'[q], Later(c, d),
         KeyOK(c), c.pc \in ReadPc, d.held = "same", c.node \in Leaves, PlaceType(c),
         ReadOK(c), PlaceOK(c)
  PROVE  ReadOK(d)' /\ PlaceOK(d)'
<1>1. Regime(d)' /\ Regime(c)
  BY DEF ReadOK, Frame, ReadFrame
<1>2. ASSUME NEW j \in Index(c.perm)
      PROVE  LET s == slot[c.node][c.perm.slot[j]]
                 r == slot'[c.node][c.perm.slot[j]]
             IN /\ r.ikey = s.ikey /\ r.kind = s.kind /\ r.suf = s.suf
                /\ \/ r.lv = s.lv
                   \/ s.kind # "layer" /\ (c.op = "get" /\ Compare(c, s) = 0
                                       /\ KsufMatches(c, s) = 1 => r.lv \in d.may)
  BY <1>1, Zenon DEF Frame, ReadFrame
<1>3. ASSUME NEW j \in Index(c.perm)
      PROVE  slot[c.node][c.perm.slot[j]] \in Slot
  BY <1>3, ThreadType, PermuterType, LeafType DEF IInv, StoreInv
<1>4. ASSUME NEW j \in Index(c.perm)
      PROVE  /\ CmpAt(d, j)' = CmpAt(c, j) /\ MatchAt(d, j)' = MatchAt(c, j)
             /\ LvAt(d, j)' = LvAt(c, j) \/ (MatchAt(c, j) # -1
                   /\ (c.op = "get" /\ CmpAt(c, j) = 0 /\ MatchAt(c, j) = 1 => LvAt(d, j)' \in d.may))
  <2> DEFINE s == slot[c.node][c.perm.slot[j]]
             r == slot'[c.node][c.perm.slot[j]]
  <2>1. /\ r.ikey = s.ikey /\ r.kind = s.kind /\ r.suf = s.suf
        /\ \/ r.lv = s.lv
           \/ s.kind # "layer" /\ (c.op = "get" /\ Compare(c, s) = 0
                                   /\ KsufMatches(c, s) = 1 => r.lv \in d.may)
    BY <1>2
  <2>2. s \in Slot
    BY <1>3
  <2>3. d.node = c.node /\ d.perm = c.perm
    BY DEF Later
  <2>4. CmpAt(d, j)' = Compare(d, r) /\ MatchAt(d, j)' = KsufMatches(d, r) /\ LvAt(d, j)' = r.lv
    BY <2>3 DEF CmpAt, MatchAt, LvAt
  <2>5. CmpAt(c, j) = Compare(c, s) /\ MatchAt(c, j) = KsufMatches(c, s) /\ LvAt(c, j) = s.lv
    BY DEF CmpAt, MatchAt, LvAt
  <2> HIDE DEF s, r
  <2>6. Compare(d, r) = Compare(c, s) /\ KsufMatches(d, r) = KsufMatches(c, s)
    BY <2>1, LaterKey, CompareSame
  <2>7. KsufMatches(c, s) = -1 => s.kind = "layer"
    BY <2>2, MatchFacts
  <2>8. QED
    BY <2>1, <2>4, <2>5, <2>6, <2>7
<1>5. /\ d.node = c.node /\ d.perm = c.perm /\ d.perm0 = c.perm0 /\ d.op = c.op /\ d.pc = c.pc
      /\ d.key = c.key /\ d.depth = c.depth /\ d.i = c.i /\ d.r = c.r /\ d.p = c.p /\ d.lv = c.lv
      /\ d.state = c.state /\ c.may \subseteq d.may
  BY DEF Later
<1>6. Regime(d)'
  BY <1>1
<1>7. SortedBy(d.node, d.perm)'
  <2>1. ASSUME NEW i \in Index(c.perm), NEW j \in Index(c.perm), i < j
        PROVE  Less(slot'[c.node][c.perm.slot[i]], slot'[c.node][c.perm.slot[j]])
    <3>1. Less(slot[c.node][c.perm.slot[i]], slot[c.node][c.perm.slot[j]])
      BY <2>1 DEF ReadOK, SortedBy
    <3>2. QED
      BY <1>2, <3>1 DEF Less
  <2>2. QED
    BY <1>5, <2>1 DEF SortedBy
<1>8. ASSUME NEW j \in Index(d.perm), CmpAt(d, j)' = 0
      PROVE  /\ MatchAt(d, j)' = 1 /\ d.op = "get" => LvAt(d, j)' \in d.may
             /\ MatchAt(d, j)' = -1 => LayerRef(d, LvAt(d, j))' /\ d.depth = 1 /\ Len(d.key) = 2
  <2>1. j \in Index(c.perm) /\ CmpAt(c, j) = 0
    BY <1>4, <1>5, <1>8
  <2>2. /\ MatchAt(c, j) = 1 /\ c.op = "get" => LvAt(c, j) \in c.may
        /\ MatchAt(c, j) = -1 => LayerRef(c, LvAt(c, j)) /\ c.depth = 1 /\ Len(c.key) = 2
    BY <2>1 DEF ReadOK
  <2>3. ASSUME MatchAt(c, j) = -1 PROVE LayerRef(d, LvAt(d, j))'
    <3>1. LvAt(d, j)' = LvAt(c, j)
      BY <1>4, <2>1, <2>3
    <3>2. PICK l : l = LvAt(c, j)
      OBVIOUS
    <3>3. LayerRef(d, l)'
      BY <2>2, <2>3, <3>2, OtherRef DEF Frame
    <3>4. QED
      BY <3>1, <3>2, <3>3
  <2>4. QED
    BY <1>4, <1>5, <2>1, <2>2, <2>3
<1>9. ASSUME d.op = "get", \A j \in Index(d.perm) : CmpAt(d, j)' # 0 \/ MatchAt(d, j)' = 0
      PROVE  0 \in d.may
  <2>1. \A j \in Index(c.perm) : CmpAt(c, j) # 0 \/ MatchAt(c, j) = 0
    BY <1>4, <1>5, <1>9
  <2>2. QED
    BY <1>5, <1>9, <2>1 DEF ReadOK
<1>10. ReadOK(d)'
  BY <1>6, <1>7, <1>8, <1>9 DEF ReadOK
<1>11. PlaceOK(d)'
  <2>0. c.pc \in {"value", "match"} \/ (c.pc = "check" /\ c.p # None) => c.i \in Index(c.perm)
    BY DEF PlaceType, FoundPlace
  <2>1. d.pc = "probe" =>
       \A j \in Index(d.perm) : (j < d.i => CmpAt(d, j)' = 1) /\ (j >= d.r => CmpAt(d, j)' = -1)
    BY <1>4, <1>5 DEF PlaceOK
  <2>2. d.pc \in {"value", "match"} => CmpAt(d, d.i)' = 0
    BY <1>4, <1>5, <2>0 DEF PlaceOK
  <2>3. d.pc = "match" /\ d.op = "get" /\ MatchAt(d, d.i)' = 1 => d.lv \in d.may
    BY <1>4, <1>5, <2>0 DEF PlaceOK
  <2>4. d.pc = "match" /\ MatchAt(d, d.i)' = -1 => d.lv = LvAt(d, d.i)'
    BY <1>4, <1>5, <2>0 DEF PlaceOK
  <2>5. d.pc = "check" /\ d.p = None =>
       \A j \in Index(d.perm) : (j < d.i => CmpAt(d, j)' = 1) /\ (j >= d.i => CmpAt(d, j)' = -1)
    BY <1>4, <1>5 DEF PlaceOK
  <2>6. d.pc = "check" /\ d.p # None =>
       /\ CmpAt(d, d.i)' = 0 /\ MatchAt(d, d.i)' = d.state
       /\ d.op = "get" /\ d.state = 1 => d.lv \in d.may
       /\ d.state = -1 => d.lv = LvAt(d, d.i)'
    BY <1>4, <1>5, <2>0 DEF PlaceOK
  <2>7. QED
    BY <2>1, <2>2, <2>3, <2>4, <2>5, <2>6 DEF PlaceOK
<1>12. QED
  BY <1>10, <1>11

(* A leaf that another thread has locked.                                  *)
LEMMA OtherLeaf ==
  ASSUME IInv, NEW p \in Procs, NEW q \in Procs \ {p}, Frame(p), NEW n \in Leaves, locked[n] = q
  PROVE  /\ slot'[n] = slot[n] /\ perm'[n] = perm[n] /\ modstate'[n] = modstate[n]
         /\ locked'[n] = locked[n] /\ layer'[n] = layer[n] /\ low'[n] = low[n]
         /\ n \in dirty' <=> n \in dirty
         /\ n \in deleted' <=> n \in deleted
         /\ prev'[n] = None <=> prev[n] = None
         /\ next[n] = None => next'[n] = None
         /\ next[n] # None /\ locked[next[n]] = q => next'[n] = next[n]
         /\ \A j : At(n, j)' = At(n, j)
         /\ \A l \in layers : In(n, l) => In(n, l)'
         /\ \A l \in layers : In(n, l) => \A x \in Nat : Covers(n, x) => Covers(n, x)'
<1>1. locked[n] \in Procs \ {p} /\ Alloc(n)
  BY ConstantFacts DEF Alloc
<1>2. /\ slot'[n] = slot[n] /\ perm'[n] = perm[n] /\ modstate'[n] = modstate[n]
      /\ locked'[n] = locked[n] /\ layer'[n] = layer[n]
      /\ n \in dirty' <=> n \in dirty
      /\ n \in deleted' <=> n \in deleted
      /\ next[n] = None => next'[n] = None
      /\ next[n] # None /\ locked[next[n]] = q => next'[n] = next[n]
  BY <1>1 DEF Frame, LockedFrame
<1>3. low'[n] = low[n] /\ (prev'[n] = None <=> prev[n] = None)
  BY <1>1 DEF Frame, LeafFrame
<1>4. \A j : At(n, j)' = At(n, j)
  BY <1>2 DEF At
<1>5. \A l \in layers : In(n, l) => In(n, l)'
  BY <1>1 DEF Frame, ListFrame
<1>6. ASSUME NEW l \in layers, In(n, l), NEW x \in Nat, Covers(n, x) PROVE Covers(n, x)'
  <2>1. ~Gone(n)'
    <3>1. l \in Layers
      BY DEF IInv, StoreInv, TypeOK, LeafTypeOK
    <3>2. QED
      BY <1>5, <1>6, <3>1 DEF Gone
  <2>2. QED
    BY <1>1, <1>6, <2>1 DEF Frame, ListFrame
<1>7. QED
  BY <1>2, <1>3, <1>4, <1>5, <1>6

LEMMA OtherHome ==
  ASSUME IInv, NEW p \in Procs, NEW q \in Procs \ {p}, Frame(p),
         NEW c \in Thread, NEW d \in Thread, c = t[q], d = t'[q], Later(c, d),
         KeyOK(c), c.node \in Leaves, locked[c.node] = q, HomeOK(c)
  PROVE  HomeOK(d)'
<1>0. /\ d.node = c.node /\ d.depth = c.depth /\ d.key = c.key /\ Ikey(d) = Ikey(c)
      /\ Ikey(c) \in Nat /\ c.key[1] \in Nat
      /\ layer[c.node] \in layers
  BY LaterKey, IkeyType DEF Later, HomeOK
<1>1. PICK n \in Leaves, l \in layers : n = c.node /\ l = layer[n]
  BY <1>0
<1>2. In(n, l) /\ Covers(n, Ikey(c))
  BY <1>1 DEF HomeOK
<1>3. layer'[n] = l /\ In(n, l)' /\ Covers(n, Ikey(c))' /\ modstate'[n] = modstate[n] /\ l \in layers'
  <2>1. l \in layers'
    BY DEF Frame, LayerFrame
  <2>2. QED
    BY <1>0, <1>1, <1>2, <2>1, OtherLeaf
<1>4. Level(d)'
  <2>1. CASE c.depth = 1
    BY <1>0, <1>1, <1>3, <2>1 DEF Level, HomeOK
  <2>2. CASE c.depth # 1
    <3>1. Attached(l, c.key[1])
      BY <1>0, <1>1, <2>2 DEF Level, HomeOK
    <3>2. Attached(l, c.key[1])' \/ Dead(l)'
      BY <1>0, <3>1 DEF Frame, LayerFrame
    <3>3. ~Dead(l)'
      <4>1. modstate[n] # "deleted_layer"
        BY <1>1, ConstantFacts DEF IInv, StoreInv, DeadInv
      <4>2. QED
        BY <1>3, <4>1 DEF Dead
    <3>4. QED
      BY <1>0, <1>1, <1>3, <2>2, <3>2, <3>3 DEF Level
  <2>3. QED
    BY <2>1, <2>2
<1>5. QED
  BY <1>0, <1>1, <1>3, <1>4 DEF HomeOK

LEMMA OtherFound ==
  ASSUME IInv, NEW p \in Procs, NEW q \in Procs \ {p}, Frame(p),
         NEW c \in Thread, NEW d \in Thread, c = t[q], d = t'[q], Later(c, d),
         c.node \in Leaves, locked[c.node] = q
  PROVE  /\ Position(c) => Position(d)'
         /\ FoundAt(c) => FoundAt(d)'
         /\ FoundOK(c) => FoundOK(d)'
         /\ GcAt(c) => GcAt(d)'
         /\ UnlockOK(c) => UnlockOK(d)'
<1>0. /\ d.node = c.node /\ d.i = c.i /\ d.p = c.p /\ d.state = c.state /\ d.op = c.op
      /\ d.key = c.key
      /\ \A s : Compare(d, s) = Compare(c, s) /\ KsufMatches(d, s) = KsufMatches(c, s)
  BY LaterKey DEF Later
<1>1. PICK n \in Leaves : n = c.node
  OBVIOUS
<1>2. /\ perm'[n] = perm[n] /\ modstate'[n] = modstate[n]
      /\ n \in dirty' <=> n \in dirty
      /\ \A j : At(n, j)' = At(n, j)
  BY <1>1, OtherLeaf
<1>3. Position(c) => Position(d)'
  BY <1>0, <1>1, <1>2 DEF Position
<1>4. FoundAt(c) => FoundAt(d)'
  BY <1>0, <1>1, <1>2 DEF FoundAt
<1>5. FoundOK(c) => FoundOK(d)'
  BY <1>0, <1>1, <1>2, <1>3, <1>4 DEF FoundOK
<1>6. GcAt(c) => GcAt(d)'
  BY <1>0, <1>1, <1>2 DEF GcAt
<1>7. UnlockOK(c) => UnlockOK(d)'
  BY <1>0, <1>1, <1>2 DEF UnlockOK
<1>8. QED
  BY <1>3, <1>4, <1>5, <1>6, <1>7

LEMMA OtherNew ==
  ASSUME IInv, NEW p \in Procs, NEW q \in Procs \ {p}, Frame(p),
         NEW c \in Thread, NEW d \in Thread, c = t[q], d = t'[q], Later(c, d),
         c.node \in Leaves, locked[c.node] = q, c.other # None => locked[c.other] = q,
         NewOK(c)
  PROVE  NewOK(d)'
<1>0. /\ d.node = c.node /\ d.i = c.i /\ d.p = c.p /\ d.op = c.op /\ d.pc = c.pc
      /\ d.other = c.other /\ d.val = c.val /\ Ikey(d) = Ikey(c)
      /\ (HasSuffix(d) <=> HasSuffix(c)) /\ d.key = c.key /\ d.depth = c.depth
  BY LaterKey DEF Later
<1>1. PICK n \in Leaves : n = c.node
  OBVIOUS
<1>2. /\ slot'[n] = slot[n] /\ perm'[n] = perm[n] /\ modstate'[n] = modstate[n]
      /\ low'[n] = low[n] /\ (prev'[n] = None <=> prev[n] = None)
  BY <1>1, OtherLeaf
<1>3. c.other # None => perm'[c.other] = perm[c.other]
  BY OtherLeaf, ThreadType
<1>4. Position(d)'
  BY OtherFound DEF NewOK
<1>5. c.pc \in StorePc => SlotIs(d, slot[d.node][d.p])'
  BY <1>0, <1>1, <1>2 DEF NewOK, SlotIs
<1>6. QED
  BY <1>0, <1>1, <1>2, <1>3, <1>4, <1>5 DEF NewOK

LEMMA OtherTurn ==
  ASSUME IInv, NEW p \in Procs, NEW q \in Procs \ {p}, Frame(p),
         NEW c \in Thread, NEW d \in Thread, c = t[q], d = t'[q], Later(c, d),
         c.node \in Leaves, locked[c.node] = q, c.other # None => locked[c.other] = q,
         TurnOK(c)
  PROVE  TurnOK(d)'
<1>0. /\ d.node = c.node /\ d.i = c.i /\ d.p = c.p /\ d.op = c.op /\ d.pc = c.pc
      /\ d.other = c.other /\ d.key = c.key /\ d.depth = c.depth
      /\ layers \subseteq layers' /\ c.other \in Leaves
  BY ThreadType DEF Later, Frame, LayerFrame, TurnOK
<1>1. PICK n \in Leaves, m \in Leaves : n = c.node /\ m = c.other
  BY <1>0
<1>2. /\ slot'[n] = slot[n] /\ perm'[n] = perm[n] /\ (n \in dirty' <=> n \in dirty)
  BY <1>1, OtherLeaf
<1>3. locked[m] = q
  BY <1>1, ConstantFacts
<1>4. /\ slot'[m] = slot[m] /\ perm'[m] = perm[m] /\ modstate'[m] = modstate[m]
      /\ layer'[m] = layer[m] /\ (prev'[m] = None <=> prev[m] = None)
      /\ (next[m] = None => next'[m] = None) /\ At(m, 0)' = At(m, 0)
  BY <1>3, OtherLeaf
<1>5. QED
  BY <1>0, <1>1, <1>2, <1>4 DEF TurnOK

LEMMA OtherMid ==
  ASSUME IInv, TypeOK', NEW p \in Procs, NEW q \in Procs \ {p}, Frame(p),
         NEW c \in Thread, NEW d \in Thread, c = t[q], d = t'[q], Later(c, d),
         c.node \in Leaves, locked[c.node] = q, c.other # None => locked[c.other] = q,
         MidOK(c)
  PROVE  MidOK(d)'
<1>0. /\ d.node = c.node /\ d.i = c.i /\ d.p = c.p /\ d.op = c.op /\ d.pc = c.pc
      /\ d.state = c.state
      /\ d.other = c.other /\ d.key = c.key /\ d.depth = c.depth /\ Ikey(d) = Ikey(c)
      /\ (HasSuffix(d) <=> HasSuffix(c)) /\ c.other \in Leaves /\ None \notin Leaves
  BY ThreadType, LaterKey, ConstantFacts DEF Later, MidOK
<1>1. PICK n \in Leaves, m \in Leaves : n = c.node /\ m = c.other
  BY <1>0
<1>2. locked[m] = q /\ locked[n] = q /\ next[n] = m
  BY <1>0, <1>1 DEF MidOK
<1>3. /\ slot'[n] = slot[n] /\ perm'[n] = perm[n] /\ (n \in dirty' <=> n \in dirty)
      /\ modstate'[n] = modstate[n] /\ layer'[n] = layer[n] /\ next'[n] = m
      /\ \A j : At(n, j)' = At(n, j)
  BY <1>0, <1>2, OtherLeaf
<1>4. /\ slot'[m] = slot[m] /\ perm'[m] = perm[m] /\ modstate'[m] = modstate[m]
      /\ layer'[m] = layer[m] /\ low'[m] = low[m] /\ (m \in deleted' <=> m \in deleted)
      /\ \A j : At(m, j)' = At(m, j)
  BY <1>2, OtherLeaf
<1>5. Position(d)'
  BY OtherFound DEF MidOK
<1>6. c.pc = "split_strip" => \A x \in Procs : t'[x].node = n => t'[x].held = "split"
  <2>1. SUFFICES ASSUME c.pc = "split_strip", NEW x \in Procs, t'[x].node = n
                 PROVE  t'[x].held = "split"
    OBVIOUS
  <2>2. n \in dirty /\ \A y \in Procs : t[y].node = n => t[y].held = "split"
    BY <1>1, <2>1 DEF MidOK
  <2>3. CASE x = p
    BY <1>2, <2>1, <2>2, <2>3 DEF Frame, LockedFrame
  <2>4. CASE x # p
    <3>1. PICK a, b \in Thread : a = t[x] /\ b = t'[x] /\ Later(a, b)
      BY <2>4, FrameThread DEF IInv, StoreInv, Frame
    <3>2. QED
      BY <2>1, <2>2, <3>1 DEF Later
  <2>5. QED
    BY <2>3, <2>4
<1>7. c.state = 1 => SlotIs(d, slot[m][d.i - (perm[n].size - perm[m].size)])'
  <2>1. PICK s : s = slot[m][c.i - (perm[n].size - perm[m].size)]
    OBVIOUS
  <2>2. c.state = 1 => SlotIs(c, s)
    BY <1>1, <2>1 DEF MidOK
  <2>3. slot'[m][d.i - (perm'[n].size - perm'[m].size)] = s
    BY <1>0, <1>3, <1>4, <2>1
  <2>4. SlotIs(c, s) => SlotIs(d, s)
    BY <1>0 DEF SlotIs
  <2>5. SlotIs(d, s) => SlotIs(d, slot[m][d.i - (perm[n].size - perm[m].size)])'
    BY <2>3 DEF SlotIs, Ikey, HasSuffix
  <2>6. QED
    BY <2>2, <2>4, <2>5
<1>8. QED
  BY <1>0, <1>1, <1>3, <1>4, <1>5, <1>6, <1>7 DEF MidOK

LEMMA OtherRemove ==
  ASSUME IInv, NEW p \in Procs, NEW q \in Procs \ {p}, Frame(p),
         NEW c \in Thread, NEW d \in Thread, c = t[q], d = t'[q], Later(c, d),
         c.node \in Leaves, locked[c.node] = q, HomeOK(c), KeyOK(c)
  PROVE  (RemoveOK(c) => RemoveOK(d)') /\ (GcOK(c) => GcOK(d)')
<1>0. /\ d.node = c.node /\ d.i = c.i /\ d.op = c.op /\ d.state = c.state
      /\ d.other = c.other /\ d.key = c.key
  BY DEF Later
<1>1. PICK n \in Leaves : n = c.node
  OBVIOUS
<1>2. /\ perm'[n] = perm[n] /\ modstate'[n] = modstate[n] /\ (n \in dirty' <=> n \in dirty)
      /\ \A j : At(n, j)' = At(n, j)
  BY <1>1, OtherLeaf
<1>3. ASSUME GcAt(c) PROVE At(n, c.i).lv \in layers
  <2>1. c.key[1] \in Nat /\ layer[n] \in layers /\ In(n, layer[n])
    BY <1>1, IkeyType DEF HomeOK
  <2>2. c.i \in Index(perm[n]) /\ At(n, c.i).kind = "layer"
    BY <1>1, <1>3 DEF GcAt
  <2>3. perm[n].slot[c.i] \in Slots
    BY <2>2, AtType DEF IInv, StoreInv
  <2>4. Ent(n, perm[n].slot[c.i]) = At(n, c.i)
    <3>1. ~Turning(n, perm[n].slot[c.i])
      <4>1. SUFFICES ASSUME Turning(n, perm[n].slot[c.i]) PROVE FALSE
        OBVIOUS
      <4>2. PICK y \in Procs : locked[n] = y /\ t[y].pc \in TurnPc /\ t[y].node = n
                               /\ t[y].p = perm[n].slot[c.i] /\ TurnOK(t[y])
        BY <4>1, TurnerFacts
      <4>3. QED
        BY <2>2, <4>2 DEF TurnOK, TurnPc, At
    <3>2. QED
      BY <3>1 DEF Ent, At
  <2>5. At(n, c.i) \in Entries(n)
    BY <2>2, <2>4 DEF Entries
  <2>6. QED
    BY <2>1, <2>2, <2>5 DEF IInv, StoreInv, LeafInv
<1>4. RemoveOK(c) => RemoveOK(d)'
  <2>1. SUFFICES ASSUME RemoveOK(c) PROVE RemoveOK(d)'
    OBVIOUS
  <2>2. c.op = "gc" => Dead(At(d.node, d.i).lv)'
    <3>1. SUFFICES ASSUME c.op = "gc" PROVE Dead(At(d.node, d.i).lv)'
      OBVIOUS
    <3>2. PICK l \in layers : l = At(n, c.i).lv
      BY <1>3, <2>1, <3>1 DEF RemoveOK
    <3>3. Dead(l)'
      BY <1>1, <2>1, <3>1, <3>2 DEF RemoveOK, Frame, LayerFrame
    <3>4. QED
      BY <1>0, <1>1, <1>2, <3>2, <3>3
  <2>3. QED
    BY <1>0, <1>1, <1>2, <2>1, <2>2, OtherFound DEF RemoveOK
<1>5. GcOK(c) => GcOK(d)'
  <2>1. SUFFICES ASSUME GcOK(c) PROVE GcOK(d)'
    OBVIOUS
  <2>2. c.other \in Leaves /\ Alloc(c.other) /\ prev[c.other] = None
    BY <2>1, ThreadType DEF GcOK, IInv, StoreInv, AllocInv
  <2>3. layer'[c.other] = layer[c.other] /\ prev'[c.other] = None
    BY <2>2 DEF Frame, LeafFrame
  <2>4. QED
    BY <1>0, <1>1, <1>2, <2>1, <2>3, OtherFound DEF GcOK
<1>6. QED
  BY <1>4, <1>5

LEMMA OtherDelete ==
  ASSUME IInv, TypeOK', NEW p \in Procs, NEW q \in Procs \ {p}, Frame(p),
         NEW c \in Thread, NEW d \in Thread, c = t[q], d = t'[q], Later(c, d),
         c.node \in Leaves, locked[c.node] = q, DeleteOK(c)
  PROVE  DeleteOK(d)'
<1>0. d.node = c.node /\ d.pc = c.pc
  BY DEF Later
<1>1. PICK n \in Leaves : n = c.node
  OBVIOUS
<1>2. /\ perm'[n] = perm[n] /\ modstate'[n] = modstate[n] /\ (n \in dirty' <=> n \in dirty)
      /\ layer'[n] = layer[n] /\ (prev'[n] = None <=> prev[n] = None)
      /\ (n \in deleted' <=> n \in deleted)
      /\ \A l \in layers : In(n, l) => In(n, l)'
  BY <1>1, OtherLeaf
<1>3. layer[n] \in layers /\ layer[n] \in Layers /\ layer[n] # None
  BY <1>1, LeafType DEF DeleteOK, IInv, StoreInv, AllocInv
<1>4. Linked(n) => Linked(n)'
  <2>1. SUFFICES ASSUME Linked(n) PROVE Linked(n)'
    OBVIOUS
  <2>2. PICK l \in layers : l = layer[n]
    BY <1>3
  <2>3. In(n, l)
    BY <2>1, <2>2 DEF In
  <2>4. In(n, l)'
    BY <1>2, <2>3
  <2>5. QED
    BY <2>4 DEF In
<1>5. ~Linked(n) => ~Linked(n)'
  <2>1. SUFFICES ASSUME ~Linked(n) PROVE ~Linked(n)'
    OBVIOUS
  <2>2. Gone(n) /\ Alloc(n)
    BY <1>3, <2>1 DEF Gone, In, Alloc
  <2>3. Gone(n)'
    BY <2>2 DEF Frame, LeafFrame
  <2>4. PICK l \in Layers : l = layer[n]
    BY <1>3
  <2>5. layer'[n] = l /\ ~In(n, l)'
    BY <1>2, <2>3, <2>4 DEF Gone
  <2>6. QED
    BY <2>5 DEF In
<1>6. QED
  BY <1>0, <1>1, <1>2, <1>4, <1>5 DEF DeleteOK

LEMMA OtherLock ==
  ASSUME IInv, TypeOK', NEW p \in Procs, NEW q \in Procs \ {p}, Frame(p),
         NEW c \in Thread, NEW d \in Thread, c = t[q], d = t'[q], Later(c, d),
         KeyOK(c), c.pc \in LockPc, LockOK(c)
  PROVE  LockOK(d)'
<1>0. d.pc = c.pc /\ d.node = c.node /\ d.other = c.other
  BY DEF Later
<1>1. c.node \in Leaves /\ locked[c.node] = q
  BY DEF IInv, StoreInv, LockInv, Owns
<1>2. c.pc # "gc_lock" /\ c.other # None => locked[c.other] = q
  BY ThreadType DEF IInv, StoreInv, LockInv, Owns
<1>3. c.pc \notin DeletePc \cup {"unlock"} => HomeOK(d)' /\ d.node \notin deleted'
  BY <1>0, <1>1, OtherHome, OtherLeaf DEF LockOK
<1>4. c.pc = "found" => FoundOK(d)'
  BY <1>1, OtherFound DEF LockOK
<1>5. c.pc = "unlock" => UnlockOK(d)'
  BY <1>1, OtherFound DEF LockOK
<1>6. c.pc \in AssignPc \cup StorePc => NewOK(d)'
  BY <1>1, <1>2, OtherNew DEF LockOK, AssignPc, StorePc
<1>7. c.pc \in LayerPc => TurnOK(d)'
  BY <1>1, <1>2, OtherTurn DEF LockOK, LayerPc
<1>8. c.pc \in MidPc => MidOK(d)'
  BY <1>1, <1>2, OtherMid DEF LockOK, MidPc
<1>9. (c.pc = "remove" => RemoveOK(d)') /\ (c.pc = "gc_lock" => GcOK(d)')
  BY <1>1, OtherRemove DEF LockOK, DeletePc
<1>10. c.pc \in DeletePc => DeleteOK(d)'
  BY <1>1, OtherDelete DEF LockOK
<1>11. QED
  BY <1>0, <1>3, <1>4, <1>5, <1>6, <1>7, <1>8, <1>9, <1>10 DEF LockOK

LEMMA OtherThread ==
  ASSUME IInv, TypeOK', ListInv', AllocInv', NEW p \in Procs, NEW q \in Procs \ {p}, Frame(p)
  PROVE  ThreadOK(t[q])'
<1>1. PICK c, d \in Thread : c = t[q] /\ d = t'[q] /\ Later(c, d)
  BY FrameThread DEF Frame, IInv, StoreInv
<1>2. ThreadOK(c)
  BY <1>1 DEF IInv, ThreadInv
<1>3. /\ d.pc = c.pc /\ d.node = c.node /\ d.other = c.other /\ d.root = c.root /\ d.val = c.val
      /\ c.may \subseteq d.may /\ (d.held = "same" => c.held = "same")
      /\ d.depth = c.depth
  BY <1>1 DEF Later
<1>4. d.pc # "idle" => KeyOK(c) /\ KeyOK(d)'
  BY <1>1, <1>2, <1>3, LaterKey DEF ThreadOK
<1>5. d.pc \in {"reach"} \cup SearchPc => RootOK(d)' /\ c.root \in layers
  <2>1. SUFFICES ASSUME d.pc \in {"reach"} \cup SearchPc PROVE RootOK(d)' /\ c.root \in layers
    OBVIOUS
  <2>2. RootOK(c) /\ KeyOK(c)
    BY <1>2, <1>3, <1>4, <2>1 DEF ThreadOK, SearchPc
  <2>3. CASE c.depth = 1
    BY <1>3, <2>2, <2>3 DEF RootOK, IInv, StoreInv, TypeOK, LeafTypeOK
  <2>4. CASE c.depth # 1
    <3>1. LayerRef(c, c.root) /\ Len(c.key) = 2
      BY <2>2, <2>4, IkeyType DEF RootOK
    <3>2. LayerRef(d, c.root)'
      BY <1>1, <2>2, <3>1, OtherRef DEF Frame
    <3>3. QED
      BY <1>3, <2>4, <3>1, <3>2 DEF RootOK, LayerRef
  <2>5. QED
    BY <2>3, <2>4
<1>6. d.pc \in SearchPc => SearchOK(d)' /\ c.node \in Leaves
  <2>1. SUFFICES ASSUME d.pc \in SearchPc PROVE SearchOK(d)' /\ c.node \in Leaves
    OBVIOUS
  <2>2. SearchOK(c) /\ KeyOK(c) /\ c.root \in layers
    BY <1>2, <1>3, <1>4, <1>5, <2>1 DEF ThreadOK, SearchPc
  <2>3. SearchOK(d)'
    BY <1>1, <1>3, <2>1, <2>2, OtherSearch
  <2>4. QED
    BY <2>2, <2>3, ThreadType DEF SearchOK
<1>7. d.pc \in ReadPc => PlaceType(d)'
  <2>1. SUFFICES ASSUME d.pc \in ReadPc PROVE PlaceType(d)'
    OBVIOUS
  <2>2. PlaceType(c)
    BY <1>2, <1>3, <2>1 DEF ThreadOK
  <2>3. QED
    BY <1>1, <2>2 DEF PlaceType, FoundPlace, Later
<1>8. d.pc \in ReadPc /\ d.held = "same" => ReadOK(d)' /\ PlaceOK(d)'
  <2>1. SUFFICES ASSUME d.pc \in ReadPc, d.held = "same" PROVE ReadOK(d)' /\ PlaceOK(d)'
    OBVIOUS
  <2>2. ReadOK(c) /\ PlaceOK(c) /\ PlaceType(c) /\ KeyOK(c) /\ c.node \in Leaves
    BY <1>2, <1>3, <1>4, <1>6, <2>1 DEF ThreadOK, ReadPc, SearchPc
  <2>3. QED
    BY <1>1, <1>3, <2>1, <2>2, OtherRead
<1>9. d.pc \in LockPc => LockOK(d)'
  <2>1. SUFFICES ASSUME d.pc \in LockPc PROVE LockOK(d)'
    OBVIOUS
  <2>2. KeyOK(c) /\ LockOK(c) /\ c.pc \in LockPc
    <3>1. c.pc # "idle"
      BY <1>3, <2>1 DEF LockPc, AssignPc, StorePc, LayerPc, MidPc, DeletePc
    <3>2. QED
      BY <1>2, <1>3, <1>4, <2>1, <3>1 DEF ThreadOK
  <2>3. QED
    BY <1>1, <1>3, <2>1, <2>2, OtherLock
<1>10. d.pc \notin OtherPc => d.other = None
  BY <1>2, <1>3 DEF ThreadOK
<1>11. d.pc = "done" => d.val \in d.may
  BY <1>2, <1>3 DEF ThreadOK
<1>12. ThreadOK(d)'
  BY <1>4, <1>5, <1>6, <1>7, <1>8, <1>9, <1>10, <1>11 DEF ThreadOK
<1>13. QED
  BY <1>1, <1>12

-----------------------------------------------------------------------------
(* Steps that change no leaf.                                              *)

LEMMA QuietViews ==
  ASSUME TypeOK, Quiet
  PROVE  /\ \A n \in Leaves : Gone(n)' <=> Gone(n)
         /\ \A n \in Leaves : Hi(n)' = Hi(n)
         /\ \A n \in Leaves : \A x : Below(n, x)' <=> Below(n, x)
         /\ \A n \in Leaves : \A x : Covers(n, x)' <=> Covers(n, x)
         /\ \A l, a : Attached(l, a)' <=> Attached(l, a)
         /\ \A n \in Leaves : Linked(n)' <=> Linked(n)
         /\ \A l \in layers : l \in Layers
<1>0. layers \subseteq Layers /\ RootLayer \in Layers
  BY DEF TypeOK, LeafTypeOK
<1>1. \A n \in Leaves : Gone(n)' <=> Gone(n)
  BY DEF Quiet, Gone
<1>2. \A n \in Leaves : Hi(n)' = Hi(n)
  BY DEF Quiet, Hi
<1>3. \A n \in Leaves : \A x : Below(n, x)' <=> Below(n, x)
  BY <1>2 DEF Quiet, Below
<1>4. \A n \in Leaves : \A x : Covers(n, x)' <=> Covers(n, x)
  BY <1>3 DEF Quiet, Covers
<1>5. \A l, a : Attached(l, a)' <=> Attached(l, a)
  BY <1>0 DEF Quiet, Attached
<1>6. \A n \in Leaves : Linked(n)' <=> Linked(n)
  BY DEF Quiet, Linked
<1>7. QED
  BY <1>0, <1>1, <1>2, <1>3, <1>4, <1>5, <1>6

LEMMA QuietStore ==
  ASSUME IInv, Quiet, db' = db
  PROVE  ListInv' /\ LeafInv' /\ DbInv' /\ AttachInv'
<1>0. TypeOK /\ RootLayer \in layers
  BY DEF IInv, StoreInv, TypeOK, LeafTypeOK
<1>1. ListInv'
  <2>1. ListInv /\ (\A l \in layers : l \in Layers) /\ next \in [Leaves -> Leaves \cup {None}]
        /\ prev \in [Leaves -> Leaves \cup {None}]
    BY QuietViews DEF IInv, StoreInv, TypeOK, LeafTypeOK
  <2>2. QED
    BY <2>1 DEF ListInv, Quiet
<1>2. LeafInv'
  <2>1. ASSUME NEW l \in layers, NEW n \in Leaves, In(n, l)', NEW e \in Entries(n)
        PROVE  /\ Covers(n, e.ikey)'
               /\ e.kind # "layer" => e.lv # 0
               /\ l # RootLayer => e.kind = "plain"
               /\ e.kind = "layer" => e.lv \in layers \ {RootLayer}
    <3>1. In(n, l)
      BY <1>0, <2>1, QuietViews DEF Quiet
    <3>2. /\ Covers(n, e.ikey)
          /\ e.kind # "layer" => e.lv # 0
          /\ l # RootLayer => e.kind = "plain"
          /\ e.kind = "layer" => e.lv \in layers \ {RootLayer}
      BY <3>1 DEF IInv, StoreInv, LeafInv
    <3>3. QED
      BY <1>0, <3>2, QuietViews
  <2>2. layers' = layers /\ \A n \in Leaves : Entries(n)' = Entries(n)
    BY DEF Quiet
  <2>3. QED
    BY <2>1, <2>2 DEF LeafInv
<1>3. DbInv'
  <2>1. ASSUME NEW n \in Leaves
        PROVE  /\ \A x, k : PlainSays(n, x, k)' <=> PlainSays(n, x, k)
               /\ \A k : SufSays(n, k)' <=> SufSays(n, k)
    <3>1. Entries(n)' = Entries(n)
      BY DEF Quiet
    <3>2. QED
      BY <3>1 DEF PlainSays, SufSays
  <2>2. ASSUME NEW k \in Keys, NEW n \in Leaves, In(n, RootLayer)', Covers(n, k[1])'
        PROVE  /\ Len(k) = 1 => PlainSays(n, k[1], k)'
               /\ Len(k) = 2 => SufSays(n, k)'
    <3>1. In(n, RootLayer) /\ Covers(n, k[1])
      BY <1>0, <2>2, QuietViews DEF Quiet
    <3>2. QED
      BY <2>1, <3>1 DEF IInv, StoreInv, DbInv
  <2>3. ASSUME NEW k \in Keys, NEW l \in layers, Len(k) = 2, Attached(l, k[1])',
               NEW n \in Leaves, In(n, l)', Covers(n, k[2])'
        PROVE  PlainSays(n, k[2], k)'
    <3>1. In(n, l) /\ Covers(n, k[2]) /\ Attached(l, k[1])
      BY <1>0, <2>3, QuietViews DEF Quiet
    <3>2. QED
      BY <2>1, <2>3, <3>1 DEF IInv, StoreInv, DbInv
  <2>4. QED
    BY <2>2, <2>3 DEF DbInv, Quiet
<1>4. AttachInv'
  <2>1. AttachInv /\ layers' = layers /\ \A l, a : Attached(l, a)' <=> Attached(l, a)
    BY <1>0, QuietViews DEF Quiet, IInv, StoreInv
  <2>2. QED
    BY <2>1 DEF AttachInv
<1>5. QED
  BY <1>1, <1>2, <1>3, <1>4

LEMMA QuietFrame ==
  ASSUME IInv, NEW p \in Procs, Quiet,
         \A n \in Leaves : modstate[n] = "deleted_layer" => modstate'[n] = "deleted_layer",
         \A n \in Leaves : Alloc(n) => Alloc(n)' /\ (prev[n] = None => layer'[n] = layer[n]),
         \A n \in Leaves : n \in deleted => n \in deleted',
         \A n \in Leaves : n \in deleted' /\ n \notin deleted =>
           locked[n] = p /\ \A q \in Procs \ {p} : t[q].node = n => t'[q].held = "split"
  PROVE  LeafFrame(p) /\ ListFrame(p) /\ LayerFrame(p)
<1>0. TypeOK
  BY DEF IInv, StoreInv
<1>1. LeafFrame(p)
  BY <1>0, QuietViews DEF LeafFrame, Quiet
<1>2. ListFrame(p)
  BY <1>0, QuietViews DEF ListFrame, Quiet
<1>3. LayerFrame(p)
  <2>1. \A l \in layers : Dead(l) => Dead(l)'
    BY <1>0, QuietViews DEF Quiet, Dead
  <2>2. QED
    BY <1>0, <2>1, QuietViews DEF LayerFrame, Quiet
<1>4. QED
  BY <1>1, <1>2, <1>3

-----------------------------------------------------------------------------
LEMMA RolesSame ==
  ASSUME TypeOK, TypeOK', NEW p \in Procs, ThreadFrame(p), LocksFrame(p), NEW S,
         \/ t[p].pc \notin S /\ t'[p].pc \notin S
         \/ /\ t[p].pc \in S /\ t'[p].pc \in S /\ t'[p].node = t[p].node /\ t'[p].p = t[p].p
            /\ \A n \in Leaves : n = t[p].node => locked'[n] = locked[n]
  PROVE  \A n \in Leaves : 
           /\ locked'[n] # None /\ t'[locked'[n]].node = n /\ t'[locked'[n]].pc \in S
              <=> locked[n] # None /\ t[locked[n]].node = n /\ t[locked[n]].pc \in S
           /\ locked[n] # None /\ t[locked[n]].node = n /\ t[locked[n]].pc \in S
                => locked'[n] = locked[n] /\ t'[locked[n]].p = t[locked[n]].p
<1> SUFFICES ASSUME NEW n \in Leaves
             PROVE /\ locked'[n] # None /\ t'[locked'[n]].node = n /\ t'[locked'[n]].pc \in S
                      <=> locked[n] # None /\ t[locked[n]].node = n /\ t[locked[n]].pc \in S
                   /\ locked[n] # None /\ t[locked[n]].node = n /\ t[locked[n]].pc \in S
                        => locked'[n] = locked[n] /\ t'[locked[n]].p = t[locked[n]].p
  OBVIOUS
<1>1. locked[n] \in Procs \cup {None} /\ locked'[n] \in Procs \cup {None} /\ None \notin Procs
  BY ConstantFacts DEF TypeOK, LeafTypeOK
<1>2. CASE locked[n] \in Procs \ {p}
  <2>1. PICK c, d \in Thread : c = t[locked[n]] /\ d = t'[locked[n]] /\ Later(c, d)
    BY <1>2, FrameThread
  <2>2. locked'[n] = locked[n]
    BY <1>1, <1>2 DEF LocksFrame
  <2>3. QED
    BY <2>1, <2>2 DEF Later
<1>3. CASE locked[n] \in {p, None}
  <2>1. locked'[n] \in {p, None}
    BY <1>3 DEF LocksFrame
  <2>2. QED
    BY <1>1, <1>3, <2>1
<1>4. QED
  BY <1>1, <1>2, <1>3

LEMMA SplittingSame ==
  ASSUME TypeOK, TypeOK', NEW p \in Procs, ThreadFrame(p), LocksFrame(p),
         \/ t[p].pc \notin MidPc /\ t'[p].pc \notin MidPc
         \/ /\ t[p].pc \in MidPc /\ t'[p].pc \in MidPc /\ t'[p].node = t[p].node /\ t'[p].p = t[p].p
            /\ \A n \in Leaves : n = t[p].node => locked'[n] = locked[n]
  PROVE  \A n \in Leaves : Splitting(n)' <=> Splitting(n)
BY RolesSame DEF Splitting

LEMMA TurningSame ==
  ASSUME TypeOK, TypeOK', NEW p \in Procs, ThreadFrame(p), LocksFrame(p),
         \/ t[p].pc \notin TurnPc /\ t'[p].pc \notin TurnPc
         \/ /\ t[p].pc \in TurnPc /\ t'[p].pc \in TurnPc /\ t'[p].node = t[p].node /\ t'[p].p = t[p].p
            /\ \A n \in Leaves : n = t[p].node => locked'[n] = locked[n]
  PROVE  \A n \in Leaves : \A s : (Turning(n, s)' <=> Turning(n, s)) /\ (Turning(n, s) => locked'[n] = locked[n])
<1> DEFINE Turner(n) == locked[n] # None /\ t[locked[n]].node = n /\ t[locked[n]].pc \in TurnPc
           Turner1(n) == locked'[n] # None /\ t'[locked'[n]].node = n /\ t'[locked'[n]].pc \in TurnPc
<1>1. \A n \in Leaves : (Turner1(n) <=> Turner(n))
        /\ (Turner(n) => locked'[n] = locked[n] /\ t'[locked[n]].p = t[locked[n]].p)
  BY RolesSame
<1>2. \A n : \A s : /\ Turning(n, s) <=> Turner(n) /\ t[locked[n]].p = s
                    /\ Turning(n, s)' <=> Turner1(n) /\ t'[locked'[n]].p = s
  BY DEF Turning
<1> HIDE DEF Turner, Turner1
<1>3. QED
  BY <1>1, <1>2

(* The entries of a leaf whose slots in use stay as they are.              *)
LEMMA EntriesSame ==
  ASSUME IInv, TypeOK', NEW p \in Procs, ThreadFrame(p), LocksFrame(p),
         t[p].pc \notin TurnPc /\ t'[p].pc \notin TurnPc,
         \A m \in Leaves : layer[m] # None /\ prev[m] = None => layer'[m] = layer[m],
         NEW n \in Leaves, perm'[n].size = perm[n].size,
         \A i \in Index(perm[n]) : /\ perm'[n].slot[i] = perm[n].slot[i]
                                   /\ slot'[n][perm[n].slot[i]] = slot[n][perm[n].slot[i]]
  PROVE  Entries(n)' = Entries(n)
<1>0. TypeOK
  BY DEF IInv, StoreInv
<1>1. \A s : (Turning(n, s)' <=> Turning(n, s)) /\ (Turning(n, s) => locked'[n] = locked[n])
  BY <1>0, TurningSame
<1>2. ASSUME NEW i \in Index(perm[n]) PROVE Ent(n, perm[n].slot[i])' = Ent(n, perm[n].slot[i])
  <2>1. PICK s : s = perm[n].slot[i]
    OBVIOUS
  <2>2. slot'[n][s] = slot[n][s] /\ perm'[n].slot[i] = s
    BY <1>2, <2>1
  <2>3. CASE ~Turning(n, s)
    BY <1>1, <2>1, <2>2, <2>3 DEF Ent
  <2>4. CASE Turning(n, s)
    <3>1. PICK q \in Procs : locked[n] = q /\ t[q].pc \in TurnPc /\ t[q].other \in Leaves /\ TurnOK(t[q])
      BY <2>4, TurnerFacts
    <3>2. q # p
      BY <3>1
    <3>3. PICK c, d \in Thread : c = t[q] /\ d = t'[q] /\ Later(c, d)
      BY <1>0, <3>1, <3>2, FrameThread
    <3>4. t'[q].other = t[q].other
      BY <3>3 DEF Later
    <3>5. layer[t[q].other] # None /\ prev[t[q].other] = None
      <4>1. layer[t[q].other] \in layers
        BY <3>1 DEF TurnOK
      <4>2. QED
        BY <3>1, <4>1, ConstantFacts, <1>0 DEF TurnOK, TypeOK, LeafTypeOK
    <3>6. layer'[t[q].other] = layer[t[q].other]
      BY <3>1, <3>5
    <3>7. QED
      BY <1>1, <2>1, <2>2, <2>4, <3>1, <3>4, <3>6 DEF Ent
  <2>5. QED
    BY <2>3, <2>4
<1>3. Index(perm'[n]) = Index(perm[n])
  BY DEF Index
<1>4. QED
  BY <1>2, <1>3 DEF Entries, Index

(* What holds of a cursor depends on the leaves and the table alone.       *)
LEMMA StillOK ==
  ASSUME TypeOK, UNCHANGED leafVars, db' = db, Quiet, NEW c \in Thread, c.pc \notin MidPc, ThreadOK(c),
         c.pc \in LockPc => c.node \in Leaves
  PROVE  ThreadOK(c)'
<1>0. /\ slot' = slot /\ perm' = perm /\ modstate' = modstate /\ locked' = locked /\ dirty' = dirty
      /\ deleted' = deleted /\ layer' = layer /\ low' = low /\ next' = next /\ prev' = prev
      /\ layers' = layers
  BY DEF leafVars
<1>1. \A n, l : In(n, l)' <=> In(n, l)
  BY <1>0 DEF In, Linked
<1>2. /\ \A n : Gone(n)' <=> Gone(n)
      /\ \A l : Dead(l)' <=> Dead(l)
      /\ \A n : Linked(n)' <=> Linked(n)
      /\ \A n, i : At(n, i)' = At(n, i)
  BY <1>0, <1>1 DEF Gone, Dead, Linked, At
<1>3. /\ \A n \in Leaves : \A x : Covers(n, x)' <=> Covers(n, x)
      /\ \A l, a : Attached(l, a)' <=> Attached(l, a)
  BY QuietViews
<1>4. \A l : LayerRef(c, l)' <=> LayerRef(c, l)
  BY <1>0, <1>2, <1>3 DEF LayerRef
<1>5. KeyOK(c)' <=> KeyOK(c)
  BY DEF KeyOK
<1>6. RootOK(c)' <=> RootOK(c)
  BY <1>4 DEF RootOK
<1>7. SearchOK(c) => SearchOK(c)'
  <2>1. SearchOK(c) => c.node \in Leaves
    BY ThreadType DEF SearchOK
  <2>2. QED
    BY <1>0, <1>1, <1>2, <1>3, <2>1 DEF SearchOK
<1>8. ReadOK(c) => ReadOK(c)'
  BY <1>0, <1>4 DEF ReadOK, Regime, SortedBy, CmpAt, MatchAt, LvAt
<1>9. (PlaceOK(c) => PlaceOK(c)') /\ (PlaceType(c) => PlaceType(c)')
  BY <1>0 DEF PlaceOK, PlaceType, CmpAt, MatchAt, LvAt, FoundPlace
<1>10. c.node \in Leaves /\ HomeOK(c) => HomeOK(c)'
  BY <1>0, <1>1, <1>3 DEF HomeOK, Level
<1>11. /\ Position(c) => Position(c)'
       /\ FoundAt(c) => FoundAt(c)'
       /\ GcAt(c) => GcAt(c)'
       /\ UnlockOK(c) => UnlockOK(c)'
  BY <1>0, <1>2 DEF Position, FoundAt, GcAt, UnlockOK
<1>12. FoundOK(c) => FoundOK(c)'
  BY <1>0, <1>11 DEF FoundOK
<1>13. NewOK(c) => NewOK(c)'
  BY <1>0, <1>11 DEF NewOK, SlotIs
<1>14. TurnOK(c) => TurnOK(c)'
  BY <1>0, <1>2 DEF TurnOK
<1>15. (RemoveOK(c) => RemoveOK(c)') /\ (GcOK(c) => GcOK(c)')
  BY <1>0, <1>2, <1>11 DEF RemoveOK, GcOK
<1>16. DeleteOK(c) => DeleteOK(c)'
  BY <1>0, <1>2 DEF DeleteOK
<1>17. c.pc \in LockPc /\ LockOK(c) => LockOK(c)'
  BY <1>0, <1>10, <1>11, <1>12, <1>13, <1>14, <1>15, <1>16 DEF LockOK
<1>18. QED
  BY <1>5, <1>6, <1>7, <1>8, <1>9, <1>17 DEF ThreadOK

(* Locks after a step of p.                                                *)
LEMMA LockStep ==
  ASSUME LockInv, TypeOK, TypeOK', NEW p \in Procs, ThreadFrame(p), LocksFrame(p),
         \A n \in Leaves : locked'[n] = p <=> Owns(t'[p], n),
         t'[p].pc \in LockPc => t'[p].node \in Leaves /\ t'[p].other # t'[p].node,
         \A n \in dirty' : locked'[n] # None,
         \A n \in dirty' : n \in dirty \/ \A q \in Procs \ {p} : t[q].node = n => t'[q].held # "same",
         t'[p].node \in dirty' => t'[p].held # "same"
  PROVE  LockInv'
<1>1. ASSUME NEW q \in Procs, q # p, NEW n \in Leaves PROVE locked'[n] = q <=> Owns(t'[q], n)
  <2>1. PICK c, d \in Thread : c = t[q] /\ d = t'[q] /\ Later(c, d)
    BY <1>1, FrameThread
  <2>2. Owns(d, n) <=> Owns(c, n)
    BY <2>1 DEF Later, Owns
  <2>3. locked'[n] = q <=> locked[n] = q
    BY <1>1, ConstantFacts DEF LocksFrame
  <2>4. QED
    BY <2>1, <2>2, <2>3 DEF LockInv
<1>2. ASSUME NEW q \in Procs, q # p, t'[q].pc \in LockPc
      PROVE  t'[q].node \in Leaves /\ t'[q].other # t'[q].node
  <2>1. PICK c, d \in Thread : c = t[q] /\ d = t'[q] /\ Later(c, d)
    BY <1>2, FrameThread
  <2>2. QED
    BY <1>2, <2>1 DEF Later, LockInv
<1>3. ASSUME NEW q \in Procs, q # p, NEW n \in dirty', t'[q].node = n PROVE t'[q].held # "same"
  <2>1. PICK c, d \in Thread : c = t[q] /\ d = t'[q] /\ Later(c, d)
    BY <1>3, FrameThread
  <2>2. QED
    BY <1>3, <2>1 DEF Later, LockInv
<1>4. QED
  <2>1. \A q \in Procs : \A n \in Leaves : locked'[n] = q <=> Owns(t'[q], n)
    BY <1>1
  <2>2. QED
    BY <1>2, <1>3, <2>1 DEF LockInv, Owns

(* Allocation after a quiet step of p.                                     *)
LEMMA AllocStep ==
  ASSUME IInv, TypeOK', NEW p \in Procs, ThreadFrame(p), LocksFrame(p), Quiet,
         \A n \in Leaves : Alloc(n)' <=> Alloc(n),
         \A n \in Leaves : ~Alloc(n) => modstate'[n] = modstate[n] /\ perm'[n] = perm[n],
         t'[p].node # None => Alloc(t'[p].node),
         t'[p].other # None => Alloc(t'[p].other),
         \A n \in Leaves : layer'[n] # None => layer'[n] \in layers,
         deleted \subseteq deleted',
         \A n \in Leaves : locked'[n] # None /\ layer'[n] = None /\ n \notin deleted' =>
           layer[n] = None /\ locked[n] = locked'[n] /\ (locked[n] = p => t'[p].pc = t[p].pc /\ t'[p].other = t[p].other),
         \A n \in Leaves : layer'[n] # None /\ (~Linked(n) \/ n \in deleted') =>
           \/ locked'[n] = p /\ t'[p].pc \in UnlinkPc /\ t'[p].node = n
           \/ /\ layer[n] # None /\ (~Linked(n) \/ n \in deleted)
              /\ locked'[n] = locked[n] /\ locked[n] # p
  PROVE  AllocInv'
<1>0. AllocInv /\ TypeOK /\ layers' = layers /\ next' = next /\ prev' = prev /\ low' = low
      /\ None \notin Procs /\ next \in [Leaves -> Leaves \cup {None}] /\ prev \in [Leaves -> Leaves \cup {None}]
  BY ConstantFacts DEF IInv, StoreInv, Quiet, TypeOK, LeafTypeOK
<1>1. \A n \in Leaves : ~Alloc(n)' =>
        low'[n] = 0 /\ next'[n] = None /\ prev'[n] = None /\ modstate'[n] = "insert" /\ perm'[n].size = 0
  BY <1>0 DEF AllocInv
<1>2. /\ \A n \in Leaves : next'[n] # None => Alloc(next[n])'
      /\ \A n \in Leaves : prev'[n] # None => Alloc(prev[n])'
  BY <1>0 DEF AllocInv
<1>3. ASSUME NEW q \in Procs
      PROVE (t'[q].node # None => Alloc(t[q].node)') /\ (t'[q].other # None => Alloc(t[q].other)')
  <2>1. CASE q = p
    <3>1. t'[p].node \in Leaves \cup {None} /\ t'[p].other \in Leaves \cup {None}
      BY ThreadType DEF TypeOK
    <3>2. QED
      BY <2>1, <3>1
  <2>2. CASE q # p
    <3>1. PICK c, d \in Thread : c = t[q] /\ d = t'[q] /\ Later(c, d)
      BY <1>0, <2>2, FrameThread
    <3>2. /\ c.node # None => c.node \in Leaves /\ Alloc(c.node)
          /\ c.other # None => c.other \in Leaves /\ Alloc(c.other)
      BY <1>0, <3>1, ThreadType DEF AllocInv
    <3>3. /\ d.node # None => Alloc(d.node)'
          /\ d.other # None => Alloc(d.other)'
      BY <3>1, <3>2 DEF Later
    <3>4. QED
      BY <3>1, <3>3
  <2>3. QED
    BY <2>1, <2>2
<1>4. ASSUME NEW n \in Leaves, locked'[n] # None, layer'[n] = None, n \notin deleted'
      PROVE  t'[locked'[n]].pc = "split_tree" /\ t'[locked'[n]].other = n
  <2>1. layer[n] = None /\ locked'[n] = locked[n] /\ locked[n] # None /\ n \notin deleted
    BY <1>4
  <2>2. t[locked[n]].pc = "split_tree" /\ t[locked[n]].other = n /\ locked[n] \in Procs
    BY <1>0, <2>1, LeafType DEF AllocInv
  <2>3. CASE locked[n] = p
    BY <1>4, <2>1, <2>2, <2>3
  <2>4. CASE locked[n] # p
    <3>1. PICK c, d \in Thread : c = t[locked[n]] /\ d = t'[locked[n]] /\ Later(c, d)
      BY <1>0, <2>2, <2>4, FrameThread
    <3>2. QED
      BY <2>1, <2>2, <3>1 DEF Later
  <2>5. QED
    BY <2>3, <2>4
<1>5. \A n \in Leaves : Alloc(n)' /\ n \notin deleted' => \E l \in layers' : In(n, l)'
  BY <1>0, QuietViews DEF AllocInv, Quiet
<1>6. ASSUME NEW n \in Leaves, layer'[n] # None, ~Linked(n)' \/ n \in deleted'
      PROVE  locked'[n] # None /\ t'[locked'[n]].pc \in UnlinkPc /\ t'[locked'[n]].node = n
  <2>1. ~Linked(n) \/ n \in deleted'
    BY <1>0, <1>6, QuietViews
  <2>2. CASE locked'[n] = p /\ t'[p].pc \in UnlinkPc /\ t'[p].node = n
    BY <1>0, <2>2
  <2>3. CASE /\ layer[n] # None /\ (~Linked(n) \/ n \in deleted)
             /\ locked'[n] = locked[n] /\ locked[n] # p
    <3>1. t[locked[n]].pc \in UnlinkPc /\ t[locked[n]].node = n /\ locked[n] \in Procs
      BY <1>0, <2>3, LeafType DEF AllocInv
    <3>2. PICK c, d \in Thread : c = t[locked[n]] /\ d = t'[locked[n]] /\ Later(c, d)
      BY <1>0, <2>3, <3>1, FrameThread
    <3>3. QED
      BY <1>0, <2>3, <3>1, <3>2 DEF Later
  <2>4. QED
    BY <1>6, <2>1, <2>2, <2>3
<1>7. \A n \in Leaves : layer'[n] # None => layer'[n] \in layers'
  BY <1>0
<1>8. QED
  BY <1>1, <1>2, <1>3, <1>4, <1>5, <1>6, <1>7 DEF AllocInv

LEMMA ThreadInvStep ==
  ASSUME IInv, TypeOK', ListInv', AllocInv', NEW p \in Procs, Frame(p), ThreadOK(t[p])'
  PROVE  ThreadInv'
<1>1. ASSUME NEW q \in Procs PROVE ThreadOK(t[q])'
  BY OtherThread
<1>2. QED
  BY <1>1 DEF ThreadInv

(* A step of the search: it reads the leaves and changes its cursor.       *)
LEMMA SearchStep ==
  ASSUME IInv, NEW p \in Procs, UNCHANGED leafVars, db' = db, scene' = scene,
         gcs' \subseteq Nat, ops' \in Nat, NEW d \in Thread, t' = [t EXCEPT ![p] = d],
         t[p].pc \notin MidPc \cup TurnPc \cup UnlinkPc,
         d.pc \notin MidPc \cup TurnPc \cup UnlinkPc,
         d.node # None => Alloc(d.node),
         d.other # None => Alloc(d.other),
         \A n \in Leaves : Owns(d, n) <=> Owns(t[p], n),
         d.pc \in LockPc => d.node \in Leaves /\ d.other # d.node,
         d.node \in dirty => d.node = t[p].node /\ d.held = t[p].held,
         ThreadOK(d)
  PROVE  IInv'
<1>0. /\ slot' = slot /\ perm' = perm /\ modstate' = modstate /\ locked' = locked /\ dirty' = dirty
      /\ deleted' = deleted /\ layer' = layer /\ low' = low /\ next' = next /\ prev' = prev
      /\ layers' = layers
  BY DEF leafVars
<1>1. t \in [Procs -> Thread] /\ t' \in [Procs -> Thread] /\ t'[p] = d
      /\ \A q \in Procs \ {p} : t'[q] = t[q]
  BY DEF IInv, StoreInv, TypeOK
<1>2. TypeOK /\ TypeOK'
  BY <1>0, <1>1 DEF IInv, StoreInv, TypeOK, LeafTypeOK
<1>3. ThreadFrame(p) /\ LocksFrame(p)
  <2>1. \A q \in Procs \ {p} : t[q] = [t[q] EXCEPT !.held = t[q].held, !.may = t[q].may]
    BY <1>1 DEF Thread
  <2>2. QED
    BY <1>0, <1>1, <2>1 DEF ThreadFrame, LocksFrame
<1>4. Quiet
  <2>1. \A n \in Leaves : \A l \in Layers : In(n, l)' <=> In(n, l)
    BY <1>0 DEF In, Linked
  <2>2. \A n \in Leaves : Splitting(n)' <=> Splitting(n)
    BY <1>1, <1>2, <1>3, SplittingSame
  <2>3. \A n \in Leaves : Entries(n)' = Entries(n)
    BY <1>0, <1>1, <1>2, <1>3, EntriesSame
  <2>4. QED
    BY <1>0, <2>1, <2>2, <2>3 DEF Quiet
<1>5. ListInv' /\ LeafInv' /\ DbInv' /\ AttachInv'
  BY <1>4, QuietStore
<1>6. LockInv'
  <2>1. LockInv /\ t[p] \in Thread
    BY <1>1 DEF IInv, StoreInv
  <2>2. \A n \in Leaves : locked'[n] = p <=> Owns(t'[p], n)
    BY <1>0, <1>1, <2>1 DEF LockInv
  <2>3. t'[p].node \in dirty' => t'[p].held # "same"
    BY <1>0, <1>1, <2>1 DEF LockInv
  <2>4. \A n \in dirty' : locked'[n] # None
    BY <1>0, <2>1 DEF LockInv
  <2>5. QED
    BY <1>0, <1>1, <1>2, <1>3, <2>1, <2>2, <2>3, <2>4, LockStep
<1>7. DeadInv' /\ BoundInv' /\ SortInv'
  BY <1>0 DEF IInv, StoreInv, DeadInv, BoundInv, SortInv, SortedBy
<1>8. LeftInv'
  <2>1. LeftInv /\ (\A n \in Leaves : \A x : Below(n, x)' <=> Below(n, x))
        /\ (\A n : At(n, 0)' = At(n, 0))
        /\ (\A n \in Leaves : \A l \in layers : In(n, l)' <=> In(n, l))
    BY <1>0, <1>2, <1>4, QuietViews DEF IInv, StoreInv, Quiet, At
  <2>2. QED
    BY <1>0, <2>1 DEF LeftInv
<1>9. AllocInv'
  <2>1. \A n \in Leaves : Alloc(n)' <=> Alloc(n)
    BY <1>0 DEF Alloc
  <2>2. AllocInv
    BY DEF IInv, StoreInv
  <2>3. \A n \in Leaves : locked'[n] # None /\ layer'[n] = None /\ n \notin deleted' =>
           layer[n] = None /\ locked[n] = locked'[n] /\ (locked[n] = p => t'[p].pc = t[p].pc /\ t'[p].other = t[p].other)
    BY <1>0, <2>2 DEF AllocInv, MidPc
  <2>4. \A n \in Leaves : layer'[n] # None /\ (~Linked(n) \/ n \in deleted') =>
           /\ layer[n] # None /\ (~Linked(n) \/ n \in deleted)
           /\ locked'[n] = locked[n] /\ locked[n] # p
    BY <1>0, <2>2 DEF AllocInv
  <2>5. \A n \in Leaves : layer'[n] # None => layer'[n] \in layers
    BY <1>0, <2>2 DEF AllocInv
  <2>6. QED
    BY <1>0, <1>1, <1>2, <1>3, <1>4, <2>1, <2>3, <2>4, <2>5, AllocStep
<1>10. Frame(p)
  <2>1. LeafFrame(p) /\ ListFrame(p) /\ LayerFrame(p)
    <3>1. \A n \in Leaves : Alloc(n)' <=> Alloc(n)
      BY <1>0 DEF Alloc
    <3>2. QED
      BY <1>0, <1>4, <3>1, QuietFrame
  <2>2. LockedFrame(p)
    BY <1>0, <1>1 DEF LockedFrame
  <2>3. ReadFrame(p)
    BY <1>0, <1>1 DEF ReadFrame, Regime
  <2>4. QED
    BY <1>3, <2>1, <2>2, <2>3 DEF Frame
<1>11. ThreadOK(t[p])'
  <2>1. ThreadOK(d)'
    BY <1>2, <1>4, StillOK
  <2>2. QED
    BY <1>1, <2>1
<1>12. QED
  BY <1>2, <1>5, <1>6, <1>7, <1>8, <1>9, <1>10, <1>11, ThreadInvStep DEF IInv, StoreInv

-----------------------------------------------------------------------------
(* reach_leaf, and what a leaf says of the key it covers.                  *)

LEMMA MinNat ==
  ASSUME NEW T, T \subseteq Nat, T # {}
  PROVE  \E x \in T : \A y \in T : x <= y
<1> DEFINE R == OpToRel(<, Nat)
<1>1. IsWellFoundedOn(R, Nat)
  BY NatLessThanWellFounded
<1>2. \A x, y \in Nat : <<x, y>> \in R <=> x < y
  BY DEF OpToRel
<1> HIDE DEF R
<1>3. PICK x \in T : \A y \in T : <<y, x>> \notin R
  BY <1>1, WFMin
<1>4. \A y \in T : ~(y < x)
  BY <1>2, <1>3
<1>5. QED
  BY <1>3, <1>4

(* reach_leaf finds the leaf that covers the slice, once it is stable.     *)
LEMMA ReachFacts ==
  ASSUME IInv, NEW l \in layers, NEW x \in Nat, Responsible(l, x) \notin dirty
  PROVE  LET n == Responsible(l, x) IN
         n \in Leaves /\ In(n, l) /\ Covers(n, x) /\ layer[n] = l /\ n \notin deleted
<1>0. /\ TypeOK /\ ListInv /\ AllocInv /\ BoundInv /\ l \in Layers /\ None \notin Leaves /\ l # None
      /\ layer \in [Leaves -> Layers \cup {None}] /\ low \in [Leaves -> Nat]
      /\ prev \in [Leaves -> Leaves \cup {None}] /\ next \in [Leaves -> Leaves \cup {None}]
  BY ConstantFacts DEF IInv, StoreInv, TypeOK, LeafTypeOK
<1> DEFINE right == {n \in Tree(l) : prev[n] # None /\ low[n] <= x}
<1>1. PICK n : n = Responsible(l, x)
  OBVIOUS
<1>2. /\ n \in Leaves /\ layer[n] = l /\ low[n] <= x
      /\ \A m \in right : low[m] <= low[n]
      /\ right = {} => prev[n] = None
      /\ right # {} => n \in right
  <2>1. CASE right = {}
    <3>1. PICK m \in Leaves : In(m, l) /\ prev[m] = None
      BY <1>0 DEF ListInv
    <3>2. m \in Tree(l)
      BY <3>1 DEF In, Tree
    <3>3. n = CHOOSE k \in Tree(l) : prev[k] = None
      BY <1>1, <2>1 DEF Responsible
    <3>4. n \in Tree(l) /\ prev[n] = None
      BY <3>1, <3>2, <3>3
    <3>5. n \in Leaves /\ layer[n] = l
      BY <3>4 DEF Tree
    <3>6. In(n, l)
      BY <3>4, <3>5 DEF In, Linked
    <3>7. low[n] = 0
      BY <1>0, <3>4, <3>5, <3>6 DEF ListInv
    <3>8. QED
      BY <2>1, <3>4, <3>5, <3>7
  <2>2. CASE right # {}
    <3> DEFINE T == {x - low[m] : m \in right}
    <3>1. right \subseteq Leaves /\ \A m \in right : low[m] \in Nat /\ low[m] <= x /\ layer[m] = l
      BY <1>0 DEF Tree
    <3>2. T \subseteq Nat /\ T # {}
      BY <2>2, <3>1
    <3>3. PICK y \in T : \A z \in T : y <= z
      BY <3>2, MinNat
    <3>4. PICK m \in right : y = x - low[m]
      BY <3>3
    <3>5. \A k \in right : low[k] <= low[m]
      <4>1. SUFFICES ASSUME NEW k \in right PROVE low[k] <= low[m]
        OBVIOUS
      <4>2. x - low[m] <= x - low[k]
        BY <3>3, <3>4
      <4>3. QED
        BY <3>1, <4>2
    <3>6. n = CHOOSE k \in right : \A j \in right : low[j] <= low[k]
      BY <1>1, <2>2 DEF Responsible
    <3> HIDE DEF right, T
    <3>7. n \in right /\ \A j \in right : low[j] <= low[n]
      BY <3>5, <3>6
    <3>8. QED
      BY <2>2, <3>1, <3>7
  <2>3. QED
    BY <2>1, <2>2
<1>3. n \notin dirty
  BY <1>1
<1>4. Linked(n) /\ n \notin deleted
  <2>1. SUFFICES ASSUME ~Linked(n) \/ n \in deleted PROVE FALSE
    OBVIOUS
  <2>2. PICK q \in Procs : locked[n] = q /\ t[q].pc \in UnlinkPc /\ t[q].node = n
    BY <1>0, <1>2, <2>1, LeafType DEF AllocInv
  <2>3. ThreadOK(t[q])
    BY DEF IInv, ThreadInv
  <2>4. DeleteOK(t[q])
    BY <2>2, <2>3 DEF ThreadOK, LockPc, DeletePc, UnlinkPc, LockOK
  <2>5. QED
    BY <1>3, <2>2, <2>4 DEF DeleteOK, UnlinkPc
<1>5. In(n, l)
  BY <1>2, <1>4 DEF In
<1>6. Below(n, x)
  <2>1. SUFFICES ASSUME Hi(n) # None PROVE x < low[Hi(n)]
    BY DEF Below
  <2>2. /\ Hi(n) \in Leaves /\ In(Hi(n), l) /\ low[n] < low[Hi(n)] /\ prev[Hi(n)] # None
        /\ layer[Hi(n)] = l
    BY <1>2, <1>5, <2>1, HiFacts
  <2>3. SUFFICES ASSUME low[Hi(n)] <= x PROVE FALSE
    BY <1>0, <2>2
  <2>4. Hi(n) \in right
    BY <2>2, <2>3 DEF Tree
  <2>5. low[Hi(n)] <= low[n]
    BY <1>2, <2>4
  <2>6. QED
    BY <1>0, <1>2, <2>2, <2>5
<1>7. Covers(n, x)
  BY <1>2, <1>6 DEF Covers
<1>8. QED
  BY <1>1, <1>2, <1>4, <1>5, <1>7

Reads(c, n, l) ==
  /\ n \in Leaves /\ l \in layers /\ In(n, l) /\ Covers(n, Ikey(c))
  /\ \A s : Ent(n, s) = slot[n][s]
  /\ IF c.depth = 1 THEN l = RootLayer ELSE Attached(l, c.key[1])

(* The entries of the leaf that covers the key say what the table has.     *)
LEMMA LeafSays ==
  ASSUME IInv, NEW c \in Thread, KeyOK(c), NEW n, NEW l, Reads(c, n, l)
  PROVE  /\ \A j \in Index(perm[n]) : Compare(c, At(n, j)) = 0 =>
              /\ KsufMatches(c, At(n, j)) = 1 /\ c.op # "gc" => db[c.key] = At(n, j).lv /\ db[c.key] # 0
              /\ KsufMatches(c, At(n, j)) = -1 =>
                   /\ c.depth = 1 /\ Len(c.key) = 2 /\ Attached(At(n, j).lv, c.key[1])
                   /\ At(n, j).lv \in layers \ {RootLayer}
         /\ c.op # "gc" /\ (\A j \in Index(perm[n]) : Compare(c, At(n, j)) # 0 \/ KsufMatches(c, At(n, j)) = 0)
              => db[c.key] = 0
<1>0. /\ n \in Leaves /\ l \in layers /\ In(n, l) /\ TypeOK /\ LeafInv /\ DbInv
      /\ RootLayer \in layers /\ Covers(n, Ikey(c))
  BY DEF Reads, IInv, StoreInv, TypeOK, LeafTypeOK
<1>1. /\ Ikey(c) \in Nat /\ Ikey(c) = c.key[c.depth] /\ (HasSuffix(c) <=> c.depth = 1 /\ Len(c.key) = 2)
      /\ c.depth = 1 \/ (c.depth = 2 /\ Len(c.key) = 2)
      /\ Len(c.key) = 1 \/ Len(c.key) = 2
  BY IkeyType DEF KeyOK
<1>2. /\ \A e \in Entries(n) : e \in Slot /\ \E i \in Index(perm[n]) : e = At(n, i)
      /\ \A i \in Index(perm[n]) : At(n, i) \in Entries(n)
  BY <1>0, EntriesAt, EntryType DEF Reads
<1>3. ASSUME NEW e \in Slot
      PROVE  /\ Compare(c, e) = 0 <=> Ikey(c) = e.ikey /\ (HasSuffix(c) <=> e.kind # "plain")
             /\ KsufMatches(c, e) \in {-1, 0, 1}
             /\ KsufMatches(c, e) = -1 <=> e.kind = "layer"
             /\ KsufMatches(c, e) = 1 <=> \/ e.kind = "plain"
                                          \/ e.kind = "ksuf" /\ HasSuffix(c) /\ e.suf = c.key[c.depth + 1]
             /\ e.kind \in {"plain", "ksuf", "layer"}
  BY CompareFacts, MatchFacts, SlotType
<1>4. ASSUME NEW j \in Index(perm[n]), Compare(c, At(n, j)) = 0, KsufMatches(c, At(n, j)) = -1
      PROVE  /\ c.depth = 1 /\ Len(c.key) = 2 /\ Attached(At(n, j).lv, c.key[1])
             /\ At(n, j).lv \in layers \ {RootLayer}
  <2>1. PICK e \in Entries(n) : e = At(n, j)
    BY <1>2
  <2>2. e.kind = "layer" /\ e.ikey = Ikey(c) /\ HasSuffix(c)
    BY <1>2, <1>3, <1>4, <2>1
  <2>3. l = RootLayer /\ e.lv \in layers \ {RootLayer}
    BY <1>0, <2>2 DEF LeafInv
  <2>4. c.depth = 1 /\ Len(c.key) = 2
    BY <1>1, <2>2
  <2>5. Attached(e.lv, c.key[1])
    BY <1>0, <1>1, <2>2, <2>3, <2>4 DEF Attached, IsLayer
  <2>6. QED
    BY <2>1, <2>3, <2>4, <2>5
<1>5. ASSUME c.op # "gc"
      PROVE  /\ \A e \in Entries(n) : Compare(c, e) = 0 /\ KsufMatches(c, e) = 1 => db[c.key] = e.lv
             /\ (\A e \in Entries(n) : Compare(c, e) # 0 \/ KsufMatches(c, e) = 0) => db[c.key] = 0
  <2>0. c.key \in Keys
    BY <1>5 DEF KeyOK
  <2>1. CASE c.depth = 1 /\ Len(c.key) = 1
    <3>1. l = RootLayer /\ Ikey(c) = c.key[1] /\ ~HasSuffix(c)
      BY <1>1, <2>1 DEF Reads
    <3>2. PlainSays(n, c.key[1], c.key)
      BY <1>0, <2>0, <2>1, <3>1 DEF DbInv
    <3>3. QED
      BY <1>2, <1>3, <3>1, <3>2 DEF PlainSays
  <2>2. CASE c.depth = 1 /\ Len(c.key) = 2
    <3>1. l = RootLayer /\ Ikey(c) = c.key[1] /\ HasSuffix(c) /\ c.depth + 1 = 2
      BY <1>1, <2>2 DEF Reads
    <3>2. SufSays(n, c.key)
      BY <1>0, <2>0, <2>2, <3>1 DEF DbInv
    <3>3. QED
      BY <1>2, <1>3, <3>1, <3>2 DEF SufSays
  <2>3. CASE c.depth = 2 /\ Len(c.key) = 2
    <3>1. Attached(l, c.key[1]) /\ Ikey(c) = c.key[2] /\ ~HasSuffix(c)
      BY <1>1, <2>3 DEF Reads
    <3>2. PlainSays(n, c.key[2], c.key)
      BY <1>0, <2>0, <2>3, <3>1 DEF DbInv
    <3>3. QED
      BY <1>2, <1>3, <3>1, <3>2 DEF PlainSays
  <2>4. QED
    BY <1>1, <2>1, <2>2, <2>3
<1>6. ASSUME NEW j \in Index(perm[n]), Compare(c, At(n, j)) = 0, KsufMatches(c, At(n, j)) = 1,
             c.op # "gc"
      PROVE  db[c.key] = At(n, j).lv /\ db[c.key] # 0
  <2>1. PICK e \in Entries(n) : e = At(n, j)
    BY <1>2
  <2>2. e.kind # "layer"
    BY <1>2, <1>3, <1>6, <2>1
  <2>3. e.lv # 0
    BY <1>0, <2>2 DEF LeafInv
  <2>4. QED
    BY <1>5, <1>6, <2>1, <2>3
<1>7. QED
  BY <1>2, <1>4, <1>5, <1>6

(* Why a locked search is exact.                                           *)
LEMMA FoundSays ==
  ASSUME IInv, NEW p \in Procs, t[p].pc = "found"
  PROVE  /\ t[p] \in Thread /\ KeyOK(t[p]) /\ HomeOK(t[p]) /\ FoundOK(t[p])
         /\ t[p].node \in Leaves /\ locked[t[p].node] = p /\ t[p].other = None
         /\ Reads(t[p], t[p].node, layer[t[p].node])
         /\ t[p].op # "gc" => /\ (t[p].state = 1) <=> (db[t[p].key] # 0)
                              /\ t[p].state = 1 => slot[t[p].node][t[p].p].lv = db[t[p].key]
         /\ t[p].op \in {"put", "remove", "gc"}
<1>1. PICK c \in Thread : c = t[p]
  BY DEF IInv, StoreInv, TypeOK
<1>2. /\ KeyOK(c) /\ HomeOK(c) /\ FoundOK(c) /\ c.other = None
  <2>1. ThreadOK(c)
    BY <1>1 DEF IInv, ThreadInv
  <2>2. LockOK(c) /\ KeyOK(c) /\ c.other = None
    BY <1>1, <2>1 DEF ThreadOK, LockPc, OtherPc, AssignPc, LayerPc, MidPc
  <2>3. QED
    BY <1>1, <2>2 DEF LockOK, DeletePc
<1>3. c.node \in Leaves /\ locked[c.node] = p
  BY <1>1 DEF IInv, StoreInv, LockInv, Owns, LockPc
<1>4. Reads(c, c.node, layer[c.node])
  <2>1. \A s : Ent(c.node, s) = slot[c.node][s]
    BY <1>1, <1>3, EntSlot DEF TurnPc
  <2>2. QED
    BY <1>2, <1>3, <2>1 DEF Reads, HomeOK, Level
<1>5. ASSUME c.op # "gc"
      PROVE  /\ (c.state = 1) <=> (db[c.key] # 0)
             /\ c.state = 1 => slot[c.node][c.p].lv = db[c.key]
  <2> DEFINE n == c.node
  <2>0. /\ \A j \in Index(perm[n]) : Compare(c, At(n, j)) = 0 =>
              /\ KsufMatches(c, At(n, j)) = 1 => db[c.key] = At(n, j).lv /\ db[c.key] # 0
        /\ (\A j \in Index(perm[n]) : Compare(c, At(n, j)) # 0 \/ KsufMatches(c, At(n, j)) = 0)
              => db[c.key] = 0
    BY <1>2, <1>4, <1>5, LeafSays
  <2>1. CASE c.p = None
    <3>1. c.state = 0 /\ Position(c)
      BY <1>2, <2>1 DEF FoundOK
    <3>2. Index(perm[n]) \subseteq Int /\ c.i \in Int
      BY <1>3, IndexType, LeafType, ThreadType DEF IInv, StoreInv
    <3>3. \A j \in Index(perm[n]) : Compare(c, At(n, j)) # 0
      BY <3>1, <3>2 DEF Position
    <3>4. QED
      BY <2>0, <3>1, <3>3
  <2>2. CASE c.p # None
    <3>1. FoundAt(c) /\ c.state \in {0, 1}
      BY <1>2, <2>2 DEF FoundOK
    <3>2. At(n, c.i) = slot[n][c.p] /\ c.i \in Index(perm[n]) /\ Compare(c, At(n, c.i)) = 0
          /\ KsufMatches(c, At(n, c.i)) = c.state
      BY <3>1 DEF FoundAt, At
    <3>3. CASE c.state = 1
      BY <2>0, <3>2, <3>3
    <3>4. CASE c.state = 0
      <4>1. SUFFICES ASSUME NEW j \in Index(perm[n]), Compare(c, At(n, j)) = 0
                     PROVE  KsufMatches(c, At(n, j)) = 0
        BY <2>0, <3>4
      <4>2. At(n, j) = At(n, c.i)
        <5>0. At(n, j) \in Entries(n) /\ At(n, c.i) \in Entries(n)
          BY <1>3, <1>4, <3>2, EntriesAt DEF Reads
        <5>1. At(n, j) \in Slot /\ At(n, c.i) \in Slot
          BY <1>3, <5>0, EntryType
        <5>2. /\ At(n, j).ikey = At(n, c.i).ikey
              /\ At(n, j).kind = "plain" <=> At(n, c.i).kind = "plain"
          BY <1>2, <3>2, <4>1, <5>1, CompareFacts
        <5>3. QED
          BY <1>3, <5>0, <5>2, EntryUnique
      <4>3. QED
        BY <3>2, <3>4, <4>2
    <3>5. QED
      BY <3>1, <3>3, <3>4
  <2>3. QED
    BY <2>1, <2>2
<1>6. c.op \in {"put", "remove", "gc"}
  BY <1>1, <1>2, ThreadType DEF KeyOK, LockPc
<1>7. QED
  BY <1>1, <1>2, <1>3, <1>4, <1>5, <1>6

-----------------------------------------------------------------------------
(* The steps of the search: each reads the leaves and changes its own      *)
(* cursor.                                                                 *)

LEMMA PcFacts ==
  /\ MidPc \cup TurnPc \cup UnlinkPc \subseteq LockPc
  /\ LockPc \cap ({"idle", "reach", "done"} \cup SearchPc) = {}
  /\ ReadPc \subseteq SearchPc
  /\ "idle" \notin SearchPc /\ "reach" \notin SearchPc /\ "done" \notin SearchPc
  /\ OtherPc \subseteq LockPc
  /\ LockPc \subseteq Pcs /\ SearchPc \subseteq Pcs
<1>1. /\ MidPc \cup TurnPc \cup UnlinkPc \subseteq LockPc
      /\ OtherPc \subseteq LockPc
  BY DEF MidPc, TurnPc, UnlinkPc, LockPc, LayerPc, DeletePc, OtherPc, AssignPc, StorePc
<1>2. LockPc \cap ({"idle", "reach", "done"} \cup SearchPc) = {}
  BY DEF LockPc, SearchPc, AssignPc, StorePc, LayerPc, MidPc, DeletePc
<1>3. /\ ReadPc \subseteq SearchPc
      /\ "idle" \notin SearchPc /\ "reach" \notin SearchPc /\ "done" \notin SearchPc
  BY DEF ReadPc, SearchPc
<1>4. LockPc \subseteq Pcs /\ SearchPc \subseteq Pcs
  BY DEF Pcs
<1>5. QED
  BY <1>1, <1>2, <1>3, <1>4

LEMMA Mine ==
  ASSUME IInv, NEW p \in Procs
  PROVE  /\ t[p] \in Thread /\ ThreadOK(t[p]) /\ t \in [Procs -> Thread]
         /\ t[p].node # None => Alloc(t[p].node) /\ t[p].node \in Leaves
         /\ t[p].other # None => Alloc(t[p].other) /\ t[p].other \in Leaves
         /\ t[p].pc \in LockPc => t[p].node \in Leaves /\ t[p].other # t[p].node /\ locked[t[p].node] = p
         /\ t[p].node \in dirty => t[p].held # "same"
<1>1. t[p] \in Thread /\ ThreadOK(t[p]) /\ t \in [Procs -> Thread]
  BY DEF IInv, StoreInv, TypeOK, ThreadInv
<1>2. /\ t[p].node # None => Alloc(t[p].node) /\ t[p].node \in Leaves
      /\ t[p].other # None => Alloc(t[p].other) /\ t[p].other \in Leaves
  BY <1>1, ThreadType DEF IInv, StoreInv, AllocInv
<1>3. /\ t[p].pc \in LockPc => t[p].node \in Leaves /\ t[p].other # t[p].node /\ locked[t[p].node] = p
      /\ t[p].node \in dirty => t[p].held # "same"
  BY DEF IInv, StoreInv, LockInv, Owns
<1>4. QED
  BY <1>1, <1>2, <1>3

(* A step of a thread that has no lock.                                    *)
LEMMA FreeStep ==
  ASSUME IInv, NEW p \in Procs, UNCHANGED leafVars, db' = db, scene' = scene,
         gcs' \subseteq Nat, ops' \in Nat, NEW d \in Thread, t' = [t EXCEPT ![p] = d],
         t[p].pc \notin LockPc, d.pc \notin LockPc,
         d.node # None => Alloc(d.node), d.other = None,
         d.node \in dirty => d.node = t[p].node /\ d.held = t[p].held,
         ThreadOK(d)
  PROVE  IInv'
<1>1. /\ t[p].pc \notin MidPc \cup TurnPc \cup UnlinkPc
      /\ d.pc \notin MidPc \cup TurnPc \cup UnlinkPc
  BY PcFacts
<1>2. \A n \in Leaves : Owns(d, n) <=> Owns(t[p], n)
  BY DEF Owns
<1>3. QED
  BY <1>1, <1>2, SearchStep

LEMMA IdleOK == Idle \in Thread /\ ThreadOK(Idle) /\ Idle.pc = "idle" /\ Idle.node = None /\ Idle.other = None
<1>1. Idle \in Thread
  BY MakeEmptyOK, ConstantFacts DEF Idle, Thread, Pcs, Empty
<1>2. Idle.pc = "idle" /\ Idle.node = None /\ Idle.other = None
  BY DEF Idle
<1>3. ThreadOK(Idle)
  BY <1>2, PcFacts DEF ThreadOK
<1>4. QED
  BY <1>1, <1>2, <1>3

LEMMA OneFirst == ASSUME NEW m \in 1..2 PROVE 1 \in 1..m
OBVIOUS

LEMMA StartStep ==
  ASSUME IInv, NEW p \in Procs, NEW w \in scene.todo, Start(p, w[1], w[2])
  PROVE  IInv'
<1> DEFINE k == w[2]
           d == [Idle EXCEPT !.pc = "reach", !.op = w[1], !.key = k, !.val = ops + 1, !.may = {db[k]}]
<1>1. /\ w[1] \in {"get", "put", "remove"} /\ k \in Keys /\ db[k] \in Int \cup Layers
      /\ ops \in Nat /\ gcs \subseteq Nat
  BY LeafReadAssumption DEF IInv, StoreInv, TypeOK
<1>2. k \in Seq(Nat) /\ Len(k) \in 1..2 /\ 1 \in 1..Len(k) /\ ops + 1 \in Nat \ {0} /\ ops + 1 \in Int
  <2>1. k \in Seq(Nat) /\ Len(k) \in 1..2
    BY <1>1, KeyFacts
  <2>4. ops + 1 \in Nat \ {0} /\ ops + 1 \in Int
    BY <1>1
  <2>5. 1 \in 1..Len(k)
    BY <2>1, OneFirst, Zenon
  <2>6. QED
    BY <2>1, <2>4, <2>5, Zenon
<1>3. d \in Thread
  <2>1. PICK c \in Thread : c = Idle
    BY IdleOK
  <2>2. [c EXCEPT !.pc = "reach", !.op = w[1], !.key = k, !.val = ops + 1, !.may = {db[k]}] \in Thread
    BY <1>1, <1>2 DEF Thread, Pcs
  <2>3. QED
    BY <2>1, <2>2
<1>4. /\ d.pc = "reach" /\ d.op = w[1] /\ d.key = k /\ d.depth = 1 /\ d.root = RootLayer
      /\ d.node = None /\ d.other = None /\ d.val = ops + 1 /\ d.may = {db[k]}
  BY DEF Idle
<1> HIDE DEF k, d
<1>5. KeyOK(d)
  BY <1>1, <1>2, <1>4, PcFacts DEF KeyOK
<1>6. ThreadOK(d)
  BY <1>4, <1>5, PcFacts DEF ThreadOK, RootOK
<1>7. /\ t' = [t EXCEPT ![p] = d] /\ UNCHANGED leafVars /\ db' = db /\ scene' = scene
      /\ gcs' = gcs /\ ops' = ops + 1 /\ t[p].pc = "idle"
  BY DEF Start, d, k
<1>8. d.node \notin dirty
  BY <1>4, ConstantFacts DEF IInv, StoreInv, TypeOK, LeafTypeOK
<1>9. QED
  BY <1>1, <1>2, <1>3, <1>4, <1>6, <1>7, <1>8, PcFacts, FreeStep

LEMMA StartGcStep ==
  ASSUME IInv, NEW p \in Procs, NEW k \in gcs, StartGc(p, k)
  PROVE  IInv'
<1> DEFINE d == [Idle EXCEPT !.pc = "reach", !.op = "gc", !.key = <<k>>]
<1>1. k \in Nat /\ gcs \subseteq Nat /\ ops \in Nat
  BY DEF IInv, StoreInv, TypeOK
<1>2. <<k>> \in Seq(Nat) /\ Len(<<k>>) = 1
  BY <1>1
<1>3. d \in Thread
  <2>1. PICK c \in Thread : c = Idle
    BY IdleOK
  <2>2. [c EXCEPT !.pc = "reach", !.op = "gc", !.key = <<k>>] \in Thread
    BY <1>2 DEF Thread, Pcs
  <2>3. QED
    BY <2>1, <2>2
<1>4. /\ d.pc = "reach" /\ d.op = "gc" /\ d.key = <<k>> /\ d.depth = 1 /\ d.root = RootLayer
      /\ d.node = None /\ d.other = None
  BY DEF Idle
<1> HIDE DEF d
<1>5. KeyOK(d)
  BY <1>2, <1>4, PcFacts DEF KeyOK
<1>6. ThreadOK(d)
  BY <1>4, <1>5, PcFacts DEF ThreadOK, RootOK
<1>7. /\ t' = [t EXCEPT ![p] = d] /\ UNCHANGED leafVars /\ db' = db /\ scene' = scene
      /\ gcs' = gcs \ {k} /\ ops' = ops /\ t[p].pc = "idle"
  BY DEF StartGc, d
<1>8. d.node \notin dirty
  BY <1>4, ConstantFacts DEF IInv, StoreInv, TypeOK, LeafTypeOK
<1>9. QED
  BY <1>1, <1>3, <1>4, <1>6, <1>7, <1>8, PcFacts, FreeStep

LEMMA RootFacts ==
  ASSUME IInv, NEW c \in Thread, KeyOK(c), RootOK(c)
  PROVE  /\ c.root \in layers /\ c.root \in Layers
         /\ IF c.depth = 1 THEN c.root = RootLayer
            ELSE Len(c.key) = 2 /\ (Attached(c.root, c.key[1]) \/ (Dead(c.root) /\ (c.op = "get" => 0 \in c.may)))
<1>1. RootLayer \in layers /\ layers \subseteq Layers
  BY DEF IInv, StoreInv, TypeOK, LeafTypeOK
<1>2. CASE c.depth = 1
  BY <1>1, <1>2 DEF RootOK
<1>3. CASE c.depth # 1
  BY <1>1, <1>3, IkeyType DEF RootOK, LayerRef
<1>4. QED
  BY <1>2, <1>3

LEMMA ReachLeafStep ==
  ASSUME IInv, NEW p \in Procs, ReachLeaf(p)
  PROVE  IInv'
<1>1. PICK c \in Thread : c = t[p] /\ ThreadOK(c) /\ c.pc = "reach" /\ t \in [Procs -> Thread]
  BY Mine DEF ReachLeaf
<1>2. KeyOK(c) /\ RootOK(c) /\ c.other = None
  BY <1>1, PcFacts DEF ThreadOK
<1>3. PICK n : n = Responsible(c.root, Ikey(c))
  OBVIOUS
<1> DEFINE d == [c EXCEPT !.pc = "forward", !.node = n, !.held = "same", !.bit = "live"]
<1>4. Ikey(c) \in Nat /\ c.root \in layers /\ c.root \in Layers
  BY <1>2, IkeyType, RootFacts
<1>5. n \notin dirty
  BY <1>1, <1>3 DEF ReachLeaf
<1>6. n \in Leaves /\ In(n, c.root) /\ Covers(n, Ikey(c)) /\ layer[n] = c.root /\ n \notin deleted
  BY <1>3, <1>4, <1>5, ReachFacts
<1>7. d \in Thread
  BY <1>6 DEF Thread, Pcs, SearchPc
<1>8. /\ d.pc = "forward" /\ d.node = n /\ d.held = "same" /\ d.bit = "live" /\ d.op = c.op
      /\ d.key = c.key /\ d.depth = c.depth /\ d.root = c.root /\ d.other = c.other /\ d.may = c.may
      /\ d.val = c.val
  BY DEF Thread
<1>9. t' = [t EXCEPT ![p] = d]
  BY <1>1, <1>3 DEF ReachLeaf
<1> HIDE DEF d
<1>10. Ikey(d) = Ikey(c)
  BY <1>8 DEF Ikey
<1>11. KeyOK(d) /\ RootOK(d)
  BY <1>1, <1>2, <1>8, PcFacts DEF KeyOK, RootOK, LayerRef, SearchPc
<1>12. SearchOK(d)
  <2>1. next[n] # None => In(next[n], c.root)
    BY <1>4, <1>6 DEF IInv, StoreInv, ListInv
  <2>2. QED
    BY <1>5, <1>6, <1>8, <1>10, <2>1, ConstantFacts DEF SearchOK, Covers, ReadPc
<1>13. ThreadOK(d)
  BY <1>2, <1>8, <1>11, <1>12, PcFacts DEF ThreadOK, SearchPc, ReadPc
<1>14. Alloc(n)
  BY <1>4, <1>6, InAlloc DEF IInv, StoreInv
<1>15. /\ UNCHANGED leafVars /\ db' = db /\ scene' = scene /\ gcs' = gcs /\ ops' = ops
  BY DEF ReachLeaf
<1>16. gcs \subseteq Nat /\ ops \in Nat
  BY DEF IInv, StoreInv, TypeOK
<1>17. QED
  BY <1>1, <1>2, <1>5, <1>7, <1>8, <1>9, <1>13, <1>14, <1>15, <1>16, PcFacts, FreeStep DEF SearchPc

LEMMA CompareMono ==
  ASSUME NEW c \in Thread, KeyOK(c), NEW a \in Slot, NEW b \in Slot, Less(a, b)
  PROVE  /\ Compare(c, a) # 1 => Compare(c, b) = -1
         /\ Compare(c, b) # -1 => Compare(c, a) = 1
<1>1. /\ Ikey(c) \in Nat /\ a.ikey \in Nat /\ b.ikey \in Nat
  BY IkeyType, SlotType
<1>2. PICK x, y, z \in Nat : x = Ikey(c) /\ y = a.ikey /\ z = b.ikey
  BY <1>1
<1>3. /\ Compare(c, a) \in {-1, 0, 1} /\ Compare(c, b) \in {-1, 0, 1}
      /\ Compare(c, a) = 1 <=> x > y \/ (x = y /\ HasSuffix(c) /\ a.kind = "plain")
      /\ Compare(c, b) = -1 <=> x < z \/ (x = z /\ ~HasSuffix(c) /\ b.kind # "plain")
  BY <1>2, CompareFacts
<1>4. y < z \/ (y = z /\ a.kind = "plain" /\ b.kind # "plain")
  BY <1>2 DEF Less
<1>5. Compare(c, a) # 1 => Compare(c, b) = -1
  BY <1>3, <1>4
<1>6. QED
  BY <1>5

(* A cursor that goes on with the same leaf and the same version.          *)
SameRead(c, d) ==
  /\ d.key = c.key /\ d.depth = c.depth /\ d.root = c.root /\ d.node = c.node /\ d.held = c.held
  /\ d.bit = c.bit /\ d.op = c.op /\ d.may = c.may /\ d.val = c.val /\ d.other = c.other

LEMMA SearchKept ==
  ASSUME NEW c \in Thread, NEW d \in Thread, SameRead(c, d), KeyOK(c), RootOK(c), SearchOK(c),
         c.pc \in SearchPc \ {"walk"}, d.pc \in SearchPc,
         d.pc \in ReadPc \cup {"advance"} => c.bit = "live", d.pc = "reread" => c.op # "get"
  PROVE  /\ KeyOK(d) /\ RootOK(d) /\ SearchOK(d) /\ Ikey(d) = Ikey(c) /\ (HasSuffix(d) <=> HasSuffix(c))
         /\ \A s : Compare(d, s) = Compare(c, s) /\ KsufMatches(d, s) = KsufMatches(c, s)
<1>1. Ikey(d) = Ikey(c) /\ (HasSuffix(d) <=> HasSuffix(c))
  BY DEF SameRead, Ikey, HasSuffix
<1>2. KeyOK(d)
  BY PcFacts DEF SameRead, KeyOK
<1>3. RootOK(d)
  BY DEF SameRead, RootOK, LayerRef
<1>4. SearchOK(d)
  BY <1>1 DEF SameRead, SearchOK
<1>5. \A s : Compare(d, s) = Compare(c, s) /\ KsufMatches(d, s) = KsufMatches(c, s)
  BY <1>1 DEF SameRead, Compare, KsufMatches
<1>6. QED
  BY <1>1, <1>2, <1>3, <1>4, <1>5

LEMMA SearchMine ==
  ASSUME IInv, NEW p \in Procs, t[p].pc \in SearchPc
  PROVE  /\ t[p] \in Thread /\ ThreadOK(t[p]) /\ t \in [Procs -> Thread]
         /\ KeyOK(t[p]) /\ RootOK(t[p]) /\ SearchOK(t[p]) /\ t[p].other = None
         /\ t[p].node \in Leaves /\ Alloc(t[p].node) /\ t[p].pc \notin LockPc
         /\ t[p].pc \in ReadPc => PlaceType(t[p])
         /\ t[p].pc \in ReadPc /\ t[p].held = "same" => ReadOK(t[p]) /\ PlaceOK(t[p])
         /\ t[p].held = "same" => t[p].node \notin dirty
         /\ gcs \subseteq Nat /\ ops \in Nat
<1>1. PICK c \in Thread : c = t[p] /\ ThreadOK(c) /\ t \in [Procs -> Thread]
  BY Mine
<1>2. KeyOK(c) /\ RootOK(c) /\ SearchOK(c) /\ c.other = None /\ c.pc \notin LockPc
  BY <1>1, PcFacts DEF ThreadOK
<1>3. c.node \in Leaves /\ Alloc(c.node) /\ (c.held = "same" => c.node \notin dirty)
  BY <1>1, <1>2, Mine DEF SearchOK
<1>4. /\ c.pc \in ReadPc => PlaceType(c)
      /\ c.pc \in ReadPc /\ c.held = "same" => ReadOK(c) /\ PlaceOK(c)
  BY <1>1 DEF ThreadOK
<1>5. gcs \subseteq Nat /\ ops \in Nat
  BY DEF IInv, StoreInv, TypeOK
<1>6. QED
  BY <1>1, <1>2, <1>3, <1>4, <1>5

(* The permutation that is in the leaf now.                                *)
LEMMA ReadNow ==
  ASSUME IInv, NEW d \in Thread, KeyOK(d), RootOK(d), SearchOK(d), d.held = "same", d.bit = "live",
         d.pc # "walk", d.node \in Leaves, d.node \notin dirty, d.perm = perm[d.node], Regime(d)
  PROVE  ReadOK(d)
<1>0. PICK n \in Leaves : n = d.node
  OBVIOUS
<1>1. In(n, d.root) /\ Covers(n, Ikey(d)) /\ n \notin deleted
  BY <1>0 DEF SearchOK
<1>2. SortedBy(d.node, d.perm)
  BY DEF IInv, StoreInv, SortInv
<1>3. \A j : CmpAt(d, j) = Compare(d, At(n, j)) /\ MatchAt(d, j) = KsufMatches(d, At(n, j))
             /\ LvAt(d, j) = At(n, j).lv
  BY <1>0 DEF CmpAt, MatchAt, LvAt, At
<1>4. Index(d.perm) = Index(perm[n])
  BY <1>0
<1>5. /\ d.root \in layers
      /\ IF d.depth = 1 THEN d.root = RootLayer
         ELSE Len(d.key) = 2 /\ (Attached(d.root, d.key[1]) \/ (Dead(d.root) /\ (d.op = "get" => 0 \in d.may)))
  BY RootFacts
<1>6. d.op = "get" => db[d.key] \in d.may
  BY DEF KeyOK
<1>7. CASE d.depth # 1 /\ ~Attached(d.root, d.key[1])
  <2>1. perm[n].size = 0
    BY <1>1, <1>5, <1>7 DEF Dead, IInv, StoreInv, DeadInv
  <2>2. Index(perm[n]) = {}
    BY <2>1 DEF Index
  <2>3. d.op = "get" => 0 \in d.may
    BY <1>5, <1>7
  <2>4. QED
    BY <1>2, <1>4, <2>2, <2>3 DEF ReadOK
<1>8. CASE d.depth = 1 \/ Attached(d.root, d.key[1])
  <2>1. Reads(d, n, d.root)
    <3>1. \A s : Ent(n, s) = slot[n][s]
      BY <1>0, CleanEnt
    <3>2. QED
      BY <1>1, <1>5, <1>8, <3>1 DEF Reads
  <2>2. /\ \A j \in Index(perm[n]) : CmpAt(d, j) = 0 =>
              /\ MatchAt(d, j) = 1 /\ d.op # "gc" => db[d.key] = LvAt(d, j)
              /\ MatchAt(d, j) = -1 =>
                   /\ d.depth = 1 /\ Len(d.key) = 2 /\ Attached(LvAt(d, j), d.key[1])
                   /\ LvAt(d, j) \in layers \ {RootLayer}
        /\ d.op # "gc" /\ (\A j \in Index(perm[n]) : CmpAt(d, j) # 0 \/ MatchAt(d, j) = 0)
              => db[d.key] = 0
    BY <1>3, <2>1, LeafSays
  <2>3. QED
    BY <1>2, <1>4, <1>6, <2>2 DEF ReadOK, LayerRef
<1>9. QED
  BY <1>7, <1>8

LEMMA ThreadRead ==
  ASSUME NEW c \in Thread, NEW u \in Pcs, NEW a \in Permuters, NEW b \in Permuters,
         NEW i \in Int, NEW r \in Int
  PROVE  [c EXCEPT !.pc = u, !.perm0 = a, !.perm = b, !.i = i, !.r = r] \in Thread
BY DEF Thread

LEMMA ReadPermutationStep ==
  ASSUME IInv, NEW p \in Procs, ReadPermutation(p)
  PROVE  IInv'
<1>1. PICK c \in Thread : c = t[p] /\ c.pc = "forward"
  BY Mine DEF ReadPermutation
<1>2. /\ t \in [Procs -> Thread] /\ KeyOK(c) /\ RootOK(c) /\ SearchOK(c) /\ c.other = None
      /\ c.node \in Leaves /\ Alloc(c.node) /\ c.pc \notin LockPc
      /\ c.held = "same" => c.node \notin dirty
      /\ gcs \subseteq Nat /\ ops \in Nat
  BY <1>1, SearchMine DEF SearchPc
<1>3. /\ UNCHANGED leafVars /\ db' = db /\ scene' = scene /\ gcs' = gcs /\ ops' = ops
  BY DEF ReadPermutation
<1>4. CASE c.bit = "deleted"
  <2> DEFINE d == [c EXCEPT !.pc = "reach"]
  <2>1. d \in Thread /\ SameRead(c, d) /\ d.pc = "reach"
    BY DEF Thread, Pcs, SameRead
  <2>2. t' = [t EXCEPT ![p] = d]
    BY <1>1, <1>4 DEF ReadPermutation
  <2> HIDE DEF d
  <2>3. KeyOK(d) /\ RootOK(d)
    BY <1>2, <2>1, PcFacts DEF SameRead, KeyOK, RootOK, LayerRef
  <2>4. ThreadOK(d)
    BY <1>2, <2>1, <2>3, PcFacts DEF ThreadOK, SameRead
  <2>5. QED
    BY <1>1, <1>2, <1>3, <2>1, <2>2, <2>4, PcFacts, FreeStep DEF SameRead
<1>5. CASE c.bit # "deleted"
  <2> DEFINE pm == perm[c.node]
             d == [c EXCEPT !.pc = IF c.op = "get" THEN "probe" ELSE "reread",
                            !.perm0 = pm, !.perm = pm, !.i = 0, !.r = pm.size]
  <2>1. pm \in Permuters /\ pm.size \in Nat /\ c.bit = "live"
    BY <1>2, <1>5, LeafType, PermuterType, WidthFacts, ThreadType DEF IInv, StoreInv
  <2>2. t' = [t EXCEPT ![p] = d]
    BY <1>1, <1>5 DEF ReadPermutation
  <2> HIDE DEF pm
  <2>3. d \in Thread
    <3>1. PICK z \in Int : z = pm.size
      BY <2>1
    <3>2. PICK u \in Pcs : u = IF c.op = "get" THEN "probe" ELSE "reread"
      BY DEF Pcs, SearchPc
    <3>3. PICK a \in Permuters, y \in Int : a = pm /\ y = 0
      BY <2>1
    <3>4. [c EXCEPT !.pc = u, !.perm0 = a, !.perm = a, !.i = y, !.r = z] \in Thread
      BY ThreadRead, Zenon
    <3>5. QED
      BY <3>1, <3>2, <3>3, <3>4
  <2>4. /\ SameRead(c, d) /\ d.pc = (IF c.op = "get" THEN "probe" ELSE "reread")
        /\ d.perm0 = pm /\ d.perm = pm /\ d.i = 0 /\ d.r = pm.size
    BY DEF Thread, SameRead
  <2> HIDE DEF d
  <2>5. /\ d.pc \in ReadPc /\ d.pc \in SearchPc /\ d.pc \in {"probe", "reread"}
        /\ (d.pc = "reread" => c.op # "get")
    BY <2>4 DEF ReadPc, SearchPc
  <2>6. KeyOK(d) /\ RootOK(d) /\ SearchOK(d)
    BY <1>1, <1>2, <2>1, <2>3, <2>4, <2>5, SearchKept DEF SearchPc
  <2>7. PlaceType(d)
    BY <2>1, <2>4, <2>5 DEF PlaceType
  <2>8. ASSUME d.held = "same" PROVE ReadOK(d) /\ PlaceOK(d)
    <3>1. Regime(d)
      BY <2>1, <2>4, PermLeReflexive DEF Regime, pm, SameRead
    <3>2. ReadOK(d)
      BY <1>2, <2>1, <2>3, <2>4, <2>5, <2>6, <2>8, <3>1, ReadNow DEF SameRead, pm
    <3>3. \A j \in Index(d.perm) : 0 <= j /\ j < d.r
      BY <2>1, <2>4 DEF Index
    <3>4. Index(d.perm) \subseteq Int
      BY <2>1, <2>4, IndexType
    <3>5. PlaceOK(d)
      BY <2>1, <2>4, <2>5, <3>3, <3>4 DEF PlaceOK
    <3>6. QED
      BY <3>2, <3>5
  <2>9. ThreadOK(d)
    BY <1>2, <2>4, <2>5, <2>6, <2>7, <2>8, PcFacts DEF ThreadOK, SameRead
  <2>10. QED
    BY <1>1, <1>2, <1>3, <2>2, <2>3, <2>4, <2>5, <2>9, PcFacts, FreeStep DEF SameRead
<1>6. QED
  BY <1>4, <1>5

LEMMA RereadStep ==
  ASSUME IInv, NEW p \in Procs, RereadPermutation(p)
  PROVE  IInv'
<1>1. PICK c \in Thread : c = t[p] /\ c.pc = "reread"
  BY Mine DEF RereadPermutation
<1>2. /\ t \in [Procs -> Thread] /\ KeyOK(c) /\ RootOK(c) /\ SearchOK(c) /\ c.other = None
      /\ c.node \in Leaves /\ Alloc(c.node) /\ c.pc \notin LockPc
      /\ c.held = "same" => c.node \notin dirty
      /\ gcs \subseteq Nat /\ ops \in Nat
      /\ PlaceType(c) /\ (c.held = "same" => ReadOK(c))
  BY <1>1, SearchMine DEF SearchPc, ReadPc
<1>3. /\ UNCHANGED leafVars /\ db' = db /\ scene' = scene /\ gcs' = gcs /\ ops' = ops
  BY DEF RereadPermutation
<1> DEFINE pm == perm[c.node]
           d == [c EXCEPT !.pc = "probe", !.perm = pm, !.r = pm.size]
<1>4. pm \in Permuters /\ pm.size \in Nat /\ c.bit = "live" /\ c.perm \in Permuters /\ c.perm0 \in Permuters
  <2>1. c.bit = "live"
    BY <1>1, <1>2 DEF SearchOK, ReadPc
  <2>2. QED
    BY <1>2, <2>1, LeafType, PermuterType, WidthFacts, ThreadType DEF IInv, StoreInv
<1>5. t' = [t EXCEPT ![p] = d]
  BY <1>1 DEF RereadPermutation
<1> HIDE DEF pm
<1>6. d \in Thread
  <2>1. PICK z \in Int : z = pm.size
    BY <1>4
  <2>2. [c EXCEPT !.pc = "probe", !.perm = pm, !.r = z] \in Thread
    BY <1>4 DEF Thread, Pcs, SearchPc
  <2>3. QED
    BY <2>1, <2>2
<1>7. /\ SameRead(c, d) /\ d.pc = "probe" /\ d.perm0 = c.perm0 /\ d.perm = pm /\ d.i = c.i /\ d.r = pm.size
  BY DEF Thread, SameRead
<1> HIDE DEF d
<1>8. KeyOK(d) /\ RootOK(d) /\ SearchOK(d)
  BY <1>1, <1>2, <1>4, <1>6, <1>7, SearchKept DEF SearchPc
<1>9. PlaceType(d) /\ d.i = 0
  BY <1>1, <1>2, <1>4, <1>7 DEF PlaceType
<1>10. ASSUME d.held = "same" PROVE ReadOK(d) /\ PlaceOK(d)
  <2>0. Regime(c)
    BY <1>2, <1>7, <1>10 DEF ReadOK, SameRead
  <2>1. Regime(d)
    BY <1>4, <1>7, <2>0, PermLeReflexive, PermLeTransitive DEF Regime, pm, SameRead
  <2>2. ReadOK(d)
    BY <1>2, <1>4, <1>6, <1>7, <1>8, <1>10, <2>1, ReadNow DEF SameRead, pm
  <2>3. \A j \in Index(d.perm) : 0 <= j /\ j < d.r
    BY <1>4, <1>7 DEF Index
  <2>4. Index(d.perm) \subseteq Int
    BY <1>4, <1>7, IndexType
  <2>5. PlaceOK(d)
    BY <1>4, <1>7, <1>9, <2>3, <2>4 DEF PlaceOK
  <2>6. QED
    BY <2>2, <2>5
<1>11. ThreadOK(d)
  BY <1>2, <1>7, <1>8, <1>9, <1>10, PcFacts DEF ThreadOK, SameRead, SearchPc, ReadPc
<1>12. QED
  BY <1>1, <1>2, <1>3, <1>5, <1>6, <1>7, <1>11, PcFacts, FreeStep DEF SameRead, SearchPc

LEMMA ReadKept ==
  ASSUME NEW c \in Thread, NEW d \in Thread, SameRead(c, d), d.perm = c.perm, d.perm0 = c.perm0
  PROVE  /\ \A j : CmpAt(d, j) = CmpAt(c, j) /\ MatchAt(d, j) = MatchAt(c, j) /\ LvAt(d, j) = LvAt(c, j)
         /\ ReadOK(c) => ReadOK(d)
<1>1. Ikey(d) = Ikey(c) /\ (HasSuffix(d) <=> HasSuffix(c)) /\ d.key = c.key /\ d.depth = c.depth
      /\ d.node = c.node /\ d.op = c.op /\ d.may = c.may
  BY DEF SameRead, Ikey, HasSuffix
<1>2. \A s : Compare(d, s) = Compare(c, s) /\ KsufMatches(d, s) = KsufMatches(c, s)
  BY <1>1 DEF Compare, KsufMatches
<1>3. \A j : CmpAt(d, j) = CmpAt(c, j) /\ MatchAt(d, j) = MatchAt(c, j) /\ LvAt(d, j) = LvAt(c, j)
  BY <1>1, <1>2 DEF CmpAt, MatchAt, LvAt
<1>4. \A l : LayerRef(d, l) <=> LayerRef(c, l)
  BY <1>1 DEF LayerRef
<1>5. ReadOK(c) => ReadOK(d)
  BY <1>1, <1>3, <1>4 DEF ReadOK, Regime
<1>6. QED
  BY <1>3, <1>5

LEMMA ReadTypes ==
  ASSUME IInv, NEW c \in Thread, KeyOK(c), c.node \in Leaves
  PROVE  /\ c.perm.size \in Nat /\ Index(c.perm) \subseteq Int
         /\ \A j \in Index(c.perm) :
              /\ c.perm.slot[j] \in Slots /\ slot[c.node][c.perm.slot[j]] \in Slot
              /\ CmpAt(c, j) \in {-1, 0, 1} /\ MatchAt(c, j) \in {-1, 0, 1}
<1>1. c.perm \in Permuters
  BY ThreadType
<1>2. c.perm.size \in Nat /\ Index(c.perm) \subseteq Int
  BY <1>1, PermuterType, IndexType, WidthFacts
<1>3. ASSUME NEW j \in Index(c.perm)
      PROVE  c.perm.slot[j] \in Slots /\ slot[c.node][c.perm.slot[j]] \in Slot
  BY <1>1, PermuterType, LeafType DEF IInv, StoreInv
<1>4. QED
  BY <1>2, <1>3, CompareFacts, MatchFacts DEF CmpAt, MatchAt

LEMMA MidFacts ==
  ASSUME NEW i \in Int, NEW r \in Int, i < r
  PROVE  (i + r) \div 2 \in Int /\ i <= (i + r) \div 2 /\ (i + r) \div 2 < r
OBVIOUS

(* The sorted keys on either side of a probe.                              *)
LEMMA ProbeSides ==
  ASSUME IInv, NEW c \in Thread, KeyOK(c), c.node \in Leaves, SortedBy(c.node, c.perm),
         NEW m \in Index(c.perm), NEW j \in Index(c.perm)
  PROVE  /\ CmpAt(c, m) # 1 /\ m < j => CmpAt(c, j) = -1
         /\ CmpAt(c, m) # -1 /\ j < m => CmpAt(c, j) = 1
<1>1. PICK a, b \in Slot : a = slot[c.node][c.perm.slot[m]] /\ b = slot[c.node][c.perm.slot[j]]
  BY ReadTypes
<1>2. CmpAt(c, m) = Compare(c, a) /\ CmpAt(c, j) = Compare(c, b)
  BY <1>1 DEF CmpAt
<1>3. (m < j => Less(a, b)) /\ (j < m => Less(b, a))
  BY <1>1 DEF SortedBy
<1>4. QED
  BY <1>2, <1>3, CompareMono

(* The cursor that each outcome of a probe leaves.                         *)
LEMMA ThreadEnd ==
  ASSUME NEW c \in Thread, NEW u \in Pcs, NEW s \in Slots \cup {None}, NEW z \in {-1, 0, 1}, NEW r \in Int
  PROVE  [c EXCEPT !.p = s, !.state = z, !.r = r, !.pc = u] \in Thread
BY DEF Thread

LEMMA ThreadHit ==
  ASSUME NEW c \in Thread, NEW u \in Pcs, NEW s \in Slots \cup {None}, NEW i \in Int, NEW r \in Int
  PROVE  [c EXCEPT !.i = i, !.p = s, !.r = r, !.pc = u] \in Thread
BY DEF Thread

LEMMA ThreadLow ==
  ASSUME NEW c \in Thread, NEW r \in Int
  PROVE  [c EXCEPT !.r = r] \in Thread
BY DEF Thread

LEMMA ThreadHigh ==
  ASSUME NEW c \in Thread, NEW i \in Int
  PROVE  [c EXCEPT !.i = i] \in Thread
BY DEF Thread

LEMMA ProbeStep ==
  ASSUME IInv, NEW p \in Procs, Probe(p)
  PROVE  IInv'
<1>1. PICK c \in Thread : c = t[p] /\ c.pc = "probe"
  BY Mine DEF Probe
<1>2. /\ t \in [Procs -> Thread] /\ KeyOK(c) /\ RootOK(c) /\ SearchOK(c) /\ c.other = None
      /\ c.node \in Leaves /\ Alloc(c.node) /\ c.pc \notin LockPc
      /\ c.held = "same" => c.node \notin dirty
      /\ gcs \subseteq Nat /\ ops \in Nat
      /\ PlaceType(c) /\ (c.held = "same" => ReadOK(c) /\ PlaceOK(c))
  BY <1>1, SearchMine DEF SearchPc, ReadPc
<1>3. /\ UNCHANGED leafVars /\ db' = db /\ scene' = scene /\ gcs' = gcs /\ ops' = ops
  BY DEF Probe
<1>4. PICK m : m = (c.i + c.r) \div 2
  OBVIOUS
<1> DEFINE s == c.perm.slot[m]
           cmp == CmpAt(c, m)
           dEnd == [c EXCEPT !.p = None, !.state = 0, !.r = 0, !.pc = "check"]
           dLow == [c EXCEPT !.r = m]
           dHit == [c EXCEPT !.i = m, !.p = s, !.r = 0, !.pc = "value"]
           dHigh == [c EXCEPT !.i = m + 1]
<1>5. /\ 0 <= c.i /\ c.i <= c.r /\ c.r <= c.perm.size /\ c.i \in Int /\ c.r \in Int
      /\ c.perm.size \in Nat /\ c.bit = "live"
  <2>1. c.bit = "live"
    BY <1>1, <1>2 DEF SearchOK, ReadPc
  <2>2. QED
    BY <1>1, <1>2, <2>1, ReadTypes, ThreadType DEF PlaceType
<1>60. PICK x : /\ x = CASE c.i >= c.r -> dEnd
                          [] c.i < c.r /\ cmp < 0 -> dLow
                          [] c.i < c.r /\ cmp = 0 -> dHit
                          [] OTHER -> dHigh
               /\ t' = [t EXCEPT ![p] = x]
  BY <1>1, <1>4 DEF Probe, CmpAt
<1>61. c.i >= c.r => x = dEnd
  <2> HIDE DEF dEnd, dLow, dHit, dHigh, cmp
  <2>1. QED
    BY <1>5, <1>60
<1>62. c.i < c.r /\ cmp \in {-1, 0, 1} =>
         /\ cmp = -1 => x = dLow
         /\ cmp = 0 => x = dHit
         /\ cmp = 1 => x = dHigh
  <2> HIDE DEF dEnd, dLow, dHit, dHigh, cmp
  <2>1. QED
    BY <1>5, <1>60
<1>7. SUFFICES ASSUME NEW d \in Thread, t' = [t EXCEPT ![p] = d], SameRead(c, d),
                      d.perm = c.perm, d.perm0 = c.perm0, d.pc \in {"probe", "check", "value"},
                      PlaceType(d), d.held = "same" => PlaceOK(d)
               PROVE  IInv'
  <2>1. CASE c.i >= c.r
    <3>1. t' = [t EXCEPT ![p] = dEnd]
      BY <1>60, <1>61, <2>1
    <3>2. dEnd \in Thread /\ SameRead(c, dEnd)
      <4>1. "check" \in Pcs /\ None \in Slots \cup {None} /\ 0 \in {-1, 0, 1} /\ 0 \in Int
        BY DEF Pcs, SearchPc
      <4>2. dEnd \in Thread
        BY <4>1, ThreadEnd, Zenon
      <4>3. SameRead(c, dEnd)
        BY DEF Thread, SameRead
      <4>4. QED
        BY <4>2, <4>3
    <3>3. dEnd.perm = c.perm /\ dEnd.perm0 = c.perm0 /\ dEnd.pc = "check" /\ dEnd.p = None
          /\ dEnd.state = 0 /\ dEnd.i = c.i
      BY DEF Thread
    <3>4. PlaceType(dEnd)
      BY <1>5, <3>3 DEF PlaceType
    <3>5. ASSUME dEnd.held = "same" PROVE PlaceOK(dEnd)
      <4>1. PlaceOK(c)
        BY <1>2, <3>2, <3>5 DEF SameRead
      <4>2. \A j \in Index(c.perm) : (j < c.i => CmpAt(c, j) = 1) /\ (j >= c.r => CmpAt(c, j) = -1)
        BY <1>1, <4>1 DEF PlaceOK
      <4>3. c.i = c.r
        BY <1>5, <2>1
      <4>4. \A j \in Index(c.perm) : (j < c.i => CmpAt(dEnd, j) = 1) /\ (j >= c.i => CmpAt(dEnd, j) = -1)
        BY <4>2, <4>3, <3>2, <3>3, ReadKept
      <4>5. QED
        BY <3>3, <4>4 DEF PlaceOK
    <3> HIDE DEF dEnd
    <3>6. QED
      BY <1>7, <3>1, <3>2, <3>3, <3>4, <3>5
  <2>2. CASE c.i < c.r
    <3>1. m \in Int /\ c.i <= m /\ m < c.r
      BY <1>4, <1>5, <2>2, MidFacts
    <3>2. m \in Index(c.perm)
      BY <1>5, <3>1 DEF Index
    <3>3. s \in Slots /\ cmp \in {-1, 0, 1}
      BY <1>2, <3>2, ReadTypes
    <3>4. c.held = "same" => 
            /\ \A j \in Index(c.perm) : (j < c.i => CmpAt(c, j) = 1) /\ (j >= c.r => CmpAt(c, j) = -1)
            /\ \A j \in Index(c.perm) : /\ CmpAt(c, m) # 1 /\ m < j => CmpAt(c, j) = -1
                                        /\ CmpAt(c, m) # -1 /\ j < m => CmpAt(c, j) = 1
      BY <1>1, <1>2, <3>2, ProbeSides DEF PlaceOK, ReadOK
    <3>5. Index(c.perm) \subseteq Int
      BY <1>2, ReadTypes
    <3> HIDE DEF s, cmp
    <3>6. CASE cmp = -1
      <4>1. t' = [t EXCEPT ![p] = dLow]
        BY <1>60, <1>62, <2>2, <3>3, <3>6
      <4>2. dLow \in Thread /\ SameRead(c, dLow)
        <5>1. m \in Int
          BY <3>1
        <5>2. dLow \in Thread
          BY <5>1, ThreadLow, Zenon
        <5>3. SameRead(c, dLow)
          BY DEF Thread, SameRead
        <5>4. QED
          BY <5>2, <5>3
      <4>3. dLow.perm = c.perm /\ dLow.perm0 = c.perm0 /\ dLow.pc = "probe" /\ dLow.r = m /\ dLow.i = c.i
        BY <1>1 DEF Thread
      <4>4. PlaceType(dLow)
        BY <1>5, <3>1, <4>3 DEF PlaceType
      <4>5. ASSUME dLow.held = "same" PROVE PlaceOK(dLow)
        <5>1. c.held = "same"
          BY <4>2, <4>5 DEF SameRead
        <5>2. \A j \in Index(c.perm) : (j < c.i => CmpAt(c, j) = 1) /\ (j >= m => CmpAt(c, j) = -1)
          BY <3>1, <3>2, <3>3, <3>4, <3>5, <3>6, <5>1 DEF cmp
        <5>3. \A j \in Index(c.perm) : (j < c.i => CmpAt(dLow, j) = 1) /\ (j >= m => CmpAt(dLow, j) = -1)
          BY <4>2, <4>3, <5>2, ReadKept
        <5>4. QED
          BY <4>3, <5>3 DEF PlaceOK
      <4> HIDE DEF dLow
      <4>6. QED
        BY <1>7, <4>1, <4>2, <4>3, <4>4, <4>5
    <3>7. CASE cmp = 0
      <4>1. t' = [t EXCEPT ![p] = dHit]
        BY <1>60, <1>62, <2>2, <3>3, <3>7
      <4>2. dHit \in Thread /\ SameRead(c, dHit)
        <5>1. "value" \in Pcs /\ s \in Slots \cup {None} /\ m \in Int /\ 0 \in Int
          BY <3>1, <3>3 DEF Pcs, SearchPc
        <5>2. dHit \in Thread
          BY <5>1, ThreadHit, Zenon
        <5>3. SameRead(c, dHit)
          BY DEF Thread, SameRead
        <5>4. QED
          BY <5>2, <5>3
      <4>3. /\ dHit.perm = c.perm /\ dHit.perm0 = c.perm0 /\ dHit.pc = "value" /\ dHit.p = s
            /\ dHit.i = m
        BY <1>1 DEF Thread
      <4>4. PlaceType(dHit)
        BY <3>2, <4>3 DEF PlaceType, FoundPlace, s
      <4>5. PlaceOK(dHit)
        <5>1. CmpAt(dHit, m) = 0
          BY <3>7, <4>2, <4>3, ReadKept DEF cmp
        <5>2. QED
          BY <4>3, <5>1 DEF PlaceOK
      <4> HIDE DEF dHit
      <4>6. QED
        BY <1>7, <4>1, <4>2, <4>3, <4>4, <4>5
    <3>8. CASE cmp = 1
      <4>1. t' = [t EXCEPT ![p] = dHigh]
        BY <1>60, <1>62, <2>2, <3>3, <3>8
      <4>2. dHigh \in Thread /\ SameRead(c, dHigh)
        <5>1. m + 1 \in Int
          BY <3>1
        <5>2. dHigh \in Thread
          BY <5>1, ThreadHigh, Zenon
        <5>3. SameRead(c, dHigh)
          BY DEF Thread, SameRead
        <5>4. QED
          BY <5>2, <5>3
      <4>3. dHigh.perm = c.perm /\ dHigh.perm0 = c.perm0 /\ dHigh.pc = "probe" /\ dHigh.r = c.r /\ dHigh.i = m + 1
        BY <1>1 DEF Thread
      <4>4. PlaceType(dHigh)
        BY <1>5, <3>1, <4>3 DEF PlaceType
      <4>5. ASSUME dHigh.held = "same" PROVE PlaceOK(dHigh)
        <5>1. c.held = "same"
          BY <4>2, <4>5 DEF SameRead
        <5>2. \A j \in Index(c.perm) : (j < m + 1 => CmpAt(c, j) = 1) /\ (j >= c.r => CmpAt(c, j) = -1)
          BY <3>1, <3>2, <3>3, <3>4, <3>5, <3>8, <5>1 DEF cmp
        <5>3. \A j \in Index(c.perm) : (j < m + 1 => CmpAt(dHigh, j) = 1) /\ (j >= c.r => CmpAt(dHigh, j) = -1)
          BY <4>2, <4>3, <5>2, ReadKept
        <5>4. QED
          BY <4>3, <5>3 DEF PlaceOK
      <4> HIDE DEF dHigh
      <4>6. QED
        BY <1>7, <4>1, <4>2, <4>3, <4>4, <4>5
    <3>9. QED
      BY <3>3, <3>6, <3>7, <3>8
  <2>3. QED
    BY <1>5, <2>1, <2>2
<1>8. d.pc \in SearchPc /\ d.pc \in ReadPc /\ d.pc # "reread" /\ d.pc \notin LockPc
  BY <1>7, PcFacts DEF SearchPc, ReadPc
<1>9. KeyOK(d) /\ RootOK(d) /\ SearchOK(d)
  BY <1>1, <1>2, <1>5, <1>7, <1>8, SearchKept DEF SearchPc
<1>10. d.held = "same" => ReadOK(d)
  BY <1>2, <1>7, ReadKept DEF SameRead
<1>11. ThreadOK(d)
  BY <1>2, <1>7, <1>8, <1>9, <1>10, PcFacts DEF ThreadOK, SameRead
<1>12. QED
  BY <1>1, <1>2, <1>3, <1>7, <1>8, <1>11, FreeStep DEF SameRead

LEMMA ReadValueStep ==
  ASSUME IInv, NEW p \in Procs, ReadValue(p)
  PROVE  IInv'
<1>1. PICK c \in Thread : c = t[p] /\ c.pc = "value"
  BY Mine DEF ReadValue
<1>2. /\ t \in [Procs -> Thread] /\ KeyOK(c) /\ RootOK(c) /\ SearchOK(c) /\ c.other = None
      /\ c.node \in Leaves /\ Alloc(c.node) /\ c.pc \notin LockPc
      /\ c.held = "same" => c.node \notin dirty
      /\ gcs \subseteq Nat /\ ops \in Nat
      /\ PlaceType(c) /\ (c.held = "same" => ReadOK(c) /\ PlaceOK(c))
  BY <1>1, SearchMine DEF SearchPc, ReadPc
<1>3. /\ UNCHANGED leafVars /\ db' = db /\ scene' = scene /\ gcs' = gcs /\ ops' = ops
  BY DEF ReadValue
<1>4. c.i \in Index(c.perm) /\ c.p = c.perm.slot[c.i] /\ c.p \in Slots /\ slot[c.node][c.p] \in Slot
      /\ c.bit = "live"
  <2>1. c.i \in Index(c.perm) /\ c.p = c.perm.slot[c.i] /\ c.bit = "live"
    BY <1>1, <1>2 DEF PlaceType, FoundPlace, SearchOK, ReadPc
  <2>2. QED
    BY <1>2, <2>1, ReadTypes
<1>5. PICK v \in Int \cup Layers : v = slot[c.node][c.p].lv /\ v = LvAt(c, c.i)
  BY <1>4, SlotType DEF LvAt
<1> DEFINE d == [c EXCEPT !.pc = "match", !.lv = v]
<1>6. t' = [t EXCEPT ![p] = d]
  BY <1>1, <1>5 DEF ReadValue
<1>7. d \in Thread
  BY DEF Thread, Pcs, SearchPc
<1>8. /\ SameRead(c, d) /\ d.pc = "match" /\ d.perm0 = c.perm0 /\ d.perm = c.perm /\ d.i = c.i
      /\ d.p = c.p /\ d.lv = v
  BY DEF Thread, SameRead
<1> HIDE DEF d
<1>9. KeyOK(d) /\ RootOK(d) /\ SearchOK(d)
  BY <1>1, <1>2, <1>4, <1>7, <1>8, SearchKept DEF SearchPc
<1>10. PlaceType(d)
  BY <1>4, <1>8 DEF PlaceType, FoundPlace
<1>11. ASSUME d.held = "same" PROVE ReadOK(d) /\ PlaceOK(d)
  <2>1. ReadOK(c) /\ PlaceOK(c)
    BY <1>2, <1>8, <1>11 DEF SameRead
  <2>2. CmpAt(c, c.i) = 0
    BY <1>1, <2>1 DEF PlaceOK
  <2>3. /\ MatchAt(c, c.i) = 1 /\ c.op = "get" => LvAt(c, c.i) \in c.may
    BY <1>4, <2>1, <2>2 DEF ReadOK
  <2>4. ReadOK(d)
    BY <1>7, <1>8, <2>1, ReadKept
  <2>5. CmpAt(d, d.i) = 0 /\ MatchAt(d, d.i) = MatchAt(c, c.i) /\ LvAt(d, d.i) = LvAt(c, c.i)
    BY <1>7, <1>8, <2>2, ReadKept
  <2>6. PlaceOK(d)
    BY <1>5, <1>8, <2>3, <2>5 DEF PlaceOK, SameRead
  <2>7. QED
    BY <2>4, <2>6
<1>12. ThreadOK(d)
  BY <1>2, <1>8, <1>9, <1>10, <1>11, PcFacts DEF ThreadOK, SameRead, SearchPc, ReadPc
<1>13. QED
  BY <1>1, <1>2, <1>3, <1>6, <1>7, <1>8, <1>12, PcFacts, FreeStep DEF SameRead, SearchPc

LEMMA ReadMatchStep ==
  ASSUME IInv, NEW p \in Procs, ReadMatch(p)
  PROVE  IInv'
<1>1. PICK c \in Thread : c = t[p] /\ c.pc = "match"
  BY Mine DEF ReadMatch
<1>2. /\ t \in [Procs -> Thread] /\ KeyOK(c) /\ RootOK(c) /\ SearchOK(c) /\ c.other = None
      /\ c.node \in Leaves /\ Alloc(c.node) /\ c.pc \notin LockPc
      /\ c.held = "same" => c.node \notin dirty
      /\ gcs \subseteq Nat /\ ops \in Nat
      /\ PlaceType(c) /\ (c.held = "same" => ReadOK(c) /\ PlaceOK(c))
  BY <1>1, SearchMine DEF SearchPc, ReadPc
<1>3. /\ UNCHANGED leafVars /\ db' = db /\ scene' = scene /\ gcs' = gcs /\ ops' = ops
  BY DEF ReadMatch
<1>4. c.i \in Index(c.perm) /\ c.p = c.perm.slot[c.i] /\ c.p \in Slots /\ slot[c.node][c.p] \in Slot
      /\ c.bit = "live" /\ c.p # None
  <2>1. c.i \in Index(c.perm) /\ c.p = c.perm.slot[c.i] /\ c.bit = "live"
    BY <1>1, <1>2 DEF PlaceType, FoundPlace, SearchOK, ReadPc
  <2>2. QED
    BY <1>2, <2>1, ReadTypes, ConstantFacts
<1>5. PICK v \in {-1, 0, 1} : v = KsufMatches(c, slot[c.node][c.p]) /\ v = MatchAt(c, c.i)
  BY <1>4, MatchFacts DEF MatchAt
<1> DEFINE d == [c EXCEPT !.pc = "check", !.state = v]
<1>6. t' = [t EXCEPT ![p] = d]
  BY <1>1, <1>5 DEF ReadMatch
<1>7. d \in Thread
  BY DEF Thread, Pcs, SearchPc
<1>8. /\ SameRead(c, d) /\ d.pc = "check" /\ d.perm0 = c.perm0 /\ d.perm = c.perm /\ d.i = c.i
      /\ d.p = c.p /\ d.lv = c.lv /\ d.state = v
  BY DEF Thread, SameRead
<1> HIDE DEF d
<1>9. KeyOK(d) /\ RootOK(d) /\ SearchOK(d)
  BY <1>1, <1>2, <1>4, <1>7, <1>8, SearchKept DEF SearchPc
<1>10. PlaceType(d)
  BY <1>4, <1>8 DEF PlaceType, FoundPlace
<1>11. ASSUME d.held = "same" PROVE ReadOK(d) /\ PlaceOK(d)
  <2>1. ReadOK(c) /\ PlaceOK(c)
    BY <1>2, <1>8, <1>11 DEF SameRead
  <2>2. /\ CmpAt(c, c.i) = 0
        /\ c.op = "get" /\ MatchAt(c, c.i) = 1 => c.lv \in c.may
        /\ MatchAt(c, c.i) = -1 => c.lv = LvAt(c, c.i)
    BY <1>1, <2>1 DEF PlaceOK
  <2>4. ReadOK(d)
    BY <1>7, <1>8, <2>1, ReadKept
  <2>5. CmpAt(d, d.i) = 0 /\ MatchAt(d, d.i) = MatchAt(c, c.i) /\ LvAt(d, d.i) = LvAt(c, c.i)
    BY <1>7, <1>8, <2>2, ReadKept
  <2>6. PlaceOK(d)
    BY <1>4, <1>5, <1>8, <2>2, <2>5 DEF PlaceOK, SameRead
  <2>7. QED
    BY <2>4, <2>6
<1>12. ThreadOK(d)
  BY <1>2, <1>8, <1>9, <1>10, <1>11, PcFacts DEF ThreadOK, SameRead, SearchPc, ReadPc
<1>13. QED
  BY <1>1, <1>2, <1>3, <1>6, <1>7, <1>8, <1>12, PcFacts, FreeStep DEF SameRead, SearchPc

(* What a search that has not been disturbed knows at its end.             *)
LEMMA CheckFacts ==
  ASSUME IInv, NEW c \in Thread, KeyOK(c), c.node \in Leaves, c.pc = "check",
         PlaceType(c), ReadOK(c), PlaceOK(c)
  PROVE  /\ c.state = -1 => LayerRef(c, c.lv) /\ c.depth = 1 /\ Len(c.key) = 2
         /\ c.op = "get" /\ c.state = 1 => c.lv \in c.may
         /\ c.op = "get" /\ c.state = 0 => 0 \in c.may
<1>1. CASE c.p = None
  <2>1. /\ c.state = 0
        /\ \A j \in Index(c.perm) : (j < c.i => CmpAt(c, j) = 1) /\ (j >= c.i => CmpAt(c, j) = -1)
    BY <1>1 DEF PlaceType, PlaceOK
  <2>2. c.i \in Int /\ Index(c.perm) \subseteq Int
    BY ThreadType, ReadTypes
  <2>3. \A j \in Index(c.perm) : CmpAt(c, j) # 0
    BY <2>1, <2>2
  <2>4. QED
    BY <2>1, <2>3 DEF ReadOK
<1>2. CASE c.p # None
  <2>1. /\ c.i \in Index(c.perm) /\ CmpAt(c, c.i) = 0 /\ MatchAt(c, c.i) = c.state
        /\ c.op = "get" /\ c.state = 1 => c.lv \in c.may
        /\ c.state = -1 => c.lv = LvAt(c, c.i)
    BY <1>2 DEF PlaceType, PlaceOK, FoundPlace
  <2>2. c.state = -1 => LayerRef(c, c.lv) /\ c.depth = 1 /\ Len(c.key) = 2
    BY <2>1 DEF ReadOK
  <2>3. ASSUME c.op = "get", c.state = 0 PROVE 0 \in c.may
    <3>1. \A j \in Index(c.perm) : CmpAt(c, j) # 0 \/ MatchAt(c, j) = 0
      <4>1. SUFFICES ASSUME NEW j \in Index(c.perm), j # c.i PROVE CmpAt(c, j) # 0
        BY <2>1, <2>3
      <4>2. j < c.i \/ c.i < j
        BY <2>1, <4>1, ReadTypes
      <4>3. SortedBy(c.node, c.perm)
        BY DEF ReadOK
      <4>4. QED
        BY <2>1, <4>1, <4>2, <4>3, ProbeSides
    <3>2. QED
      BY <2>3, <3>1 DEF ReadOK
  <2>4. QED
    BY <2>1, <2>2, <2>3
<1>3. QED
  BY <1>1, <1>2

LEMMA TwoDepth == ASSUME NEW m, m = 2 PROVE 2 \in 1..m
OBVIOUS

LEMMA ThreadDown ==
  ASSUME NEW c \in Thread, NEW u \in Pcs, NEW z \in 1..2, NEW l \in Layers
  PROVE  [c EXCEPT !.pc = u, !.depth = z, !.root = l] \in Thread
BY DEF Thread

(* The search goes down to the next layer.                                 *)
LEMMA DescendStep ==
  ASSUME IInv, NEW p \in Procs, t[p].pc = "check", t[p].held = "same", t[p].state = -1,
         t' = [t EXCEPT ![p] = Descend(t[p], t[p].lv)],
         UNCHANGED <<leafVars, gcs, scene, ops, db>>
  PROVE  IInv'
<1>1. PICK c \in Thread : c = t[p] /\ c.pc = "check" /\ c.held = "same" /\ c.state = -1
  BY Mine
<1>2. /\ t \in [Procs -> Thread] /\ KeyOK(c) /\ c.other = None
      /\ c.node \in Leaves /\ Alloc(c.node) /\ c.pc \notin LockPc /\ c.node \notin dirty
      /\ gcs \subseteq Nat /\ ops \in Nat /\ PlaceType(c) /\ ReadOK(c) /\ PlaceOK(c)
  BY <1>1, SearchMine DEF SearchPc, ReadPc
<1>3. LayerRef(c, c.lv) /\ c.depth = 1 /\ Len(c.key) = 2
  BY <1>1, <1>2, CheckFacts
<1>4. PICK l \in Layers : l = c.lv
  BY <1>3 DEF LayerRef, IInv, StoreInv, TypeOK, LeafTypeOK
<1> DEFINE d == [c EXCEPT !.pc = "reach", !.depth = 2, !.root = l]
<1>5. t' = [t EXCEPT ![p] = d]
  <2>1. Descend(c, l) = d
    BY <1>3 DEF Descend
  <2>2. QED
    BY <1>1, <1>4, <2>1
<1>6. d \in Thread
  <2>1. "reach" \in Pcs /\ 2 \in 1..2
    BY DEF Pcs
  <2>2. QED
    BY <2>1, ThreadDown, Zenon
<1>7. /\ d.pc = "reach" /\ d.depth = 2 /\ d.root = l /\ d.key = c.key /\ d.node = c.node
      /\ d.held = c.held /\ d.op = c.op /\ d.may = c.may /\ d.val = c.val /\ d.other = c.other
  BY DEF Thread
<1> HIDE DEF d
<1>8. KeyOK(d)
  <2>1. 2 \in 1..Len(c.key)
    BY <1>3, TwoDepth, Zenon
  <2>2. QED
    BY <1>2, <1>7, <2>1, PcFacts DEF KeyOK
<1>9. RootOK(d)
  BY <1>3, <1>4, <1>7 DEF RootOK, LayerRef
<1>10. ThreadOK(d)
  BY <1>2, <1>7, <1>8, <1>9, PcFacts DEF ThreadOK
<1>11. QED
  BY <1>1, <1>2, <1>5, <1>6, <1>7, <1>10, PcFacts, FreeStep

LEMMA LockedDescendStep ==
  ASSUME IInv, NEW p \in Procs, LockedDescend(p)
  PROVE  IInv'
<1>1. t[p].pc = "check" /\ t[p].held = "same" /\ t[p].state < 0
  BY DEF LockedDescend, Changed
<1>2. t[p].state = -1
  BY <1>1, Mine, ThreadType
<1>3. QED
  BY <1>1, <1>2, DescendStep DEF LockedDescend

(* A step back to the start of advance_to_key.                             *)
LEMMA BackStep ==
  ASSUME IInv, NEW p \in Procs, t[p].pc = "check",
         t' = [t EXCEPT ![p] = [t[p] EXCEPT !.pc = "advance"]],
         UNCHANGED <<leafVars, gcs, scene, ops, db>>
  PROVE  IInv'
<1>1. PICK c \in Thread : c = t[p] /\ c.pc = "check"
  BY Mine
<1>2. /\ t \in [Procs -> Thread] /\ KeyOK(c) /\ RootOK(c) /\ SearchOK(c) /\ c.other = None
      /\ c.node \in Leaves /\ Alloc(c.node) /\ c.pc \notin LockPc
      /\ gcs \subseteq Nat /\ ops \in Nat
  BY <1>1, SearchMine DEF SearchPc, ReadPc
<1> DEFINE d == [c EXCEPT !.pc = "advance"]
<1>3. t' = [t EXCEPT ![p] = d]
  BY <1>1
<1>4. d \in Thread
  BY DEF Thread, Pcs, SearchPc
<1>5. SameRead(c, d) /\ d.pc = "advance"
  BY DEF Thread, SameRead
<1> HIDE DEF d
<1>6. KeyOK(d) /\ RootOK(d) /\ SearchOK(d)
  <2>1. c.bit = "live"
    BY <1>1, <1>2 DEF SearchOK, ReadPc
  <2>2. QED
    BY <1>1, <1>2, <1>4, <1>5, <2>1, SearchKept DEF SearchPc
<1>7. ThreadOK(d)
  BY <1>2, <1>5, <1>6, PcFacts DEF ThreadOK, SameRead, SearchPc, ReadPc
<1>8. QED
  BY <1>1, <1>2, <1>3, <1>4, <1>5, <1>7, PcFacts, FreeStep DEF SameRead, SearchPc

LEMMA GetCheckStep ==
  ASSUME IInv, NEW p \in Procs, GetCheck(p)
  PROVE  IInv'
<1>1. PICK c \in Thread : c = t[p] /\ c.pc = "check" /\ c.op = "get"
  BY Mine DEF GetCheck
<1>2. /\ t \in [Procs -> Thread] /\ KeyOK(c) /\ RootOK(c) /\ c.other = None
      /\ c.node \in Leaves /\ Alloc(c.node) /\ c.pc \notin LockPc
      /\ gcs \subseteq Nat /\ ops \in Nat /\ PlaceType(c)
      /\ c.held = "same" => ReadOK(c) /\ PlaceOK(c) /\ c.node \notin dirty
  BY <1>1, SearchMine DEF SearchPc, ReadPc
<1>3. UNCHANGED <<leafVars, gcs, scene, ops, db>>
  BY DEF GetCheck
<1>4. c.state \in {-1, 0, 1} /\ c.lv \in Int \cup Layers
  BY ThreadType
<1> DEFINE dA == [c EXCEPT !.pc = "advance"]
           dD == Descend(c, c.lv)
           v == IF c.state = 1 THEN c.lv ELSE 0
           d == [c EXCEPT !.pc = "done", !.val = v]
<1>5. PICK x : /\ x = CASE c.held # "same" -> dA
                        [] ~(c.held # "same") /\ c.state < 0 -> dD
                        [] OTHER -> d
              /\ t' = [t EXCEPT ![p] = x]
  BY <1>1 DEF GetCheck, Changed
<1>6. /\ c.held # "same" => x = dA
      /\ c.held = "same" /\ c.state = -1 => x = dD
      /\ c.held = "same" /\ c.state # -1 => x = d
  <2> HIDE DEF dA, dD, d
  <2>1. QED
    BY <1>4, <1>5
<1>7. CASE c.held # "same"
  BY <1>1, <1>3, <1>5, <1>6, <1>7, BackStep
<1>8. CASE c.held = "same" /\ c.state = -1
  BY <1>1, <1>3, <1>5, <1>6, <1>8, DescendStep
<1>9. CASE c.held = "same" /\ c.state # -1
  <2>1. v \in c.may /\ v \in Int \cup Layers
    BY <1>1, <1>2, <1>4, <1>9, CheckFacts
  <2>2. PICK w \in Int \cup Layers : w = v
    BY <2>1
  <2>3. d = [c EXCEPT !.pc = "done", !.val = w]
    BY <2>2
  <2> HIDE DEF v
  <2>4. [c EXCEPT !.pc = "done", !.val = w] \in Thread
    BY DEF Thread, Pcs
  <2>5. d \in Thread
    BY <2>3, <2>4
  <2>6. /\ d.pc = "done" /\ d.val = v /\ d.op = c.op /\ d.key = c.key /\ d.depth = c.depth
        /\ d.node = c.node /\ d.held = c.held /\ d.may = c.may /\ d.other = c.other
    BY DEF Thread
  <2>7. t' = [t EXCEPT ![p] = d]
    BY <1>5, <1>6, <1>9
  <2> HIDE DEF d
  <2>8. KeyOK(d)
    BY <1>1, <1>2, <2>6, PcFacts DEF KeyOK
  <2>9. ThreadOK(d)
    BY <1>2, <2>1, <2>6, <2>8, PcFacts DEF ThreadOK
  <2>10. QED
    BY <1>1, <1>2, <1>3, <2>5, <2>6, <2>7, <2>9, PcFacts, FreeStep
<1>10. QED
  BY <1>7, <1>8, <1>9

LEMMA GetDoneStep ==
  ASSUME IInv, NEW p \in Procs, GetDone(p)
  PROVE  IInv'
<1>1. t[p].pc = "done" /\ t' = [t EXCEPT ![p] = Idle] /\ UNCHANGED <<leafVars, gcs, scene, ops, db>>
  BY DEF GetDone
<1>2. Idle.node \notin dirty /\ gcs \subseteq Nat /\ ops \in Nat
  BY IdleOK, ConstantFacts DEF IInv, StoreInv, TypeOK, LeafTypeOK
<1>3. QED
  BY <1>1, <1>2, IdleOK, PcFacts, FreeStep

LEMMA BelowDown ==
  ASSUME IInv, NEW l \in layers, NEW n \in Leaves, In(n, l), NEW x \in Nat, NEW y \in Nat,
         x <= y, Below(n, y)
  PROVE  Below(n, x)
<1>1. Hi(n) \in Leaves \cup {None}
  BY HiFacts
<1>2. CASE Hi(n) = None
  BY <1>2 DEF Below
<1>3. CASE Hi(n) # None
  <2>1. low[Hi(n)] \in Nat /\ y < low[Hi(n)]
    BY <1>1, <1>3, LeafType DEF IInv, StoreInv, Below
  <2>2. QED
    BY <2>1 DEF Below
<1>4. QED
  BY <1>2, <1>3

(* A leaf that is not deleted has its place in some layer.                 *)
LEMMA LiveIn ==
  ASSUME IInv, NEW n \in Leaves, NEW l \in Layers, Alloc(n), n \notin deleted, In(n, l) \/ Gone(n)
  PROVE  In(n, l)
<1>1. PICK m \in layers : In(n, m)
  BY DEF IInv, StoreInv, AllocInv
<1>2. m \in Layers
  BY DEF IInv, StoreInv, TypeOK, LeafTypeOK
<1>3. QED
  BY <1>1, <1>2 DEF Gone

(* The last key of a clean leaf, or the first slot of an empty one, lies   *)
(* left of the next leaf.                                                  *)
LEMMA LastBelow ==
  ASSUME IInv, NEW l \in layers, NEW n \in Leaves, In(n, l), n \notin dirty
  PROVE  slot[n][LastSlot(n)] \in Slot /\ Below(n, slot[n][LastSlot(n)].ikey)
<1>1. perm[n] \in Permuters /\ slot[n] \in [Slots -> Slot]
  BY LeafType DEF IInv, StoreInv
<1>2. perm[n].size \in Nat /\ perm[n].slot \in [Slots -> Slots] /\ 0 \in Slots
  BY <1>1, PermuterType, WidthFacts
<1>3. CASE perm[n].size = 0
  <2>1. LastSlot(n) = perm[n].slot[0]
    BY <1>3 DEF LastSlot
  <2>2. Below(n, At(n, 0).ikey)
    BY <1>3 DEF IInv, StoreInv, LeftInv
  <2>3. QED
    BY <1>1, <1>2, <2>1, <2>2 DEF At
<1>4. CASE perm[n].size # 0
  <2>1. PICK j : j = perm[n].size - 1
    OBVIOUS
  <2>2. j \in Index(perm[n]) /\ LastSlot(n) = perm[n].slot[j]
    BY <1>2, <1>4, <2>1 DEF Index, LastSlot
  <2>3. At(n, j) \in Slot /\ slot[n][LastSlot(n)] = At(n, j)
    BY <2>2, AtType DEF IInv, StoreInv, At
  <2>4. At(n, j) \in Entries(n)
    BY <2>2, CleanEnt, EntriesAt
  <2>5. Covers(n, At(n, j).ikey)
    BY <2>4 DEF IInv, StoreInv, LeafInv
  <2>6. QED
    BY <2>3, <2>5 DEF Covers
<1>5. QED
  BY <1>3, <1>4

LEMMA ThreadAdvance ==
  ASSUME NEW c \in Thread, NEW u \in Pcs, NEW b \in {"live", "deleted"}
  PROVE  [c EXCEPT !.pc = u, !.held = "same", !.bit = b] \in Thread
BY DEF Thread

LEMMA AdvanceStep ==
  ASSUME IInv, NEW p \in Procs, Advance(p)
  PROVE  IInv'
<1>1. PICK c \in Thread : c = t[p] /\ c.pc = "advance" /\ c.node \notin dirty
  BY Mine DEF Advance
<1>2. /\ t \in [Procs -> Thread] /\ KeyOK(c) /\ RootOK(c) /\ SearchOK(c) /\ c.other = None
      /\ c.node \in Leaves /\ Alloc(c.node) /\ c.pc \notin LockPc
      /\ gcs \subseteq Nat /\ ops \in Nat
  BY <1>1, SearchMine DEF SearchPc, ReadPc
<1>3. /\ UNCHANGED leafVars /\ db' = db /\ scene' = scene /\ gcs' = gcs /\ ops' = ops
  BY DEF Advance
<1>4. PICK n \in Leaves : n = c.node
  BY <1>2
<1>5. PICK u : u = IF c.held = "split" /\ Compare(c, slot[n][LastSlot(n)]) > 0 THEN "walk" ELSE "forward"
  OBVIOUS
<1>6. PICK b : b = DeletedBit(n)
  OBVIOUS
<1>7. u \in {"walk", "forward"} /\ u \in Pcs /\ u \in SearchPc /\ b \in {"live", "deleted"}
  BY <1>5, <1>6 DEF Pcs, SearchPc, DeletedBit
<1> DEFINE d == [c EXCEPT !.pc = u, !.held = "same", !.bit = b]
<1>8. t' = [t EXCEPT ![p] = d]
  BY <1>1, <1>4, <1>5, <1>6 DEF Advance
<1>9. d \in Thread
  BY <1>7, ThreadAdvance, Zenon
<1>10. /\ d.pc = u /\ d.held = "same" /\ d.bit = b /\ d.node = n /\ d.root = c.root /\ d.op = c.op
       /\ d.key = c.key /\ d.depth = c.depth /\ d.may = c.may /\ d.val = c.val /\ d.other = c.other
  BY <1>4 DEF Thread
<1> HIDE DEF d
<1>11. Ikey(d) = Ikey(c) /\ Ikey(c) \in Nat
  BY <1>2, <1>10, IkeyType DEF Ikey
<1>12. KeyOK(d) /\ RootOK(d)
  BY <1>1, <1>2, <1>7, <1>10, PcFacts DEF KeyOK, RootOK, LayerRef, SearchPc
<1>13. c.root \in layers /\ c.root \in Layers
  BY <1>2, RootFacts
<1>14. ASSUME b = "live"
       PROVE  /\ n \notin deleted /\ In(n, c.root)
              /\ u # "walk" => Covers(n, Ikey(c))
              /\ next[n] # None => In(next[n], c.root)
  <2>1. n \notin deleted
    BY <1>6, <1>14 DEF DeletedBit
  <2>2. In(n, c.root)
    BY <1>2, <1>4, <1>13, <2>1, LiveIn DEF SearchOK
  <2>3. next[n] # None => In(next[n], c.root)
    BY <1>13, <2>2 DEF IInv, StoreInv, ListInv
  <2>4. ASSUME u # "walk" PROVE Covers(n, Ikey(c))
    <3>1. CASE c.held # "split"
      <4>1. c.bit = "live"
        BY <1>1, <1>2 DEF SearchOK
      <4>2. QED
        BY <1>1, <1>2, <1>4, <3>1, <4>1 DEF SearchOK
    <3>2. CASE c.held = "split"
      <4>1. PICK s \in Slot : s = slot[n][LastSlot(n)] /\ Below(n, s.ikey)
        BY <1>1, <1>4, <1>13, <2>2, LastBelow
      <4>2. ~(Compare(c, s) > 0)
        BY <1>5, <2>4, <3>2, <4>1
      <4>3. Ikey(c) <= s.ikey /\ s.ikey \in Nat
        BY <1>2, <1>11, <4>2, CompareFacts, SlotType
      <4>4. Below(n, Ikey(c))
        BY <1>11, <1>13, <2>2, <4>1, <4>3, BelowDown
      <4>5. QED
        BY <1>2, <1>4, <4>4 DEF Covers, SearchOK
    <3>3. QED
      BY <3>1, <3>2
  <2>5. QED
    BY <2>1, <2>2, <2>3, <2>4
<1>15. SearchOK(d)
  <2>1. u \notin ReadPc \cup {"advance"} /\ n # None
    BY <1>7, ConstantFacts DEF ReadPc
  <2>2. QED
    BY <1>2, <1>4, <1>10, <1>11, <1>14, <2>1 DEF SearchOK
<1>16. ThreadOK(d)
  BY <1>2, <1>7, <1>10, <1>12, <1>15, PcFacts DEF ThreadOK, SearchPc, ReadPc
<1>17. QED
  BY <1>1, <1>2, <1>3, <1>4, <1>7, <1>8, <1>9, <1>10, <1>16, PcFacts, FreeStep

LEMMA WalkStep ==
  ASSUME IInv, NEW p \in Procs, Walk(p)
  PROVE  IInv'
<1>1. PICK c \in Thread : c = t[p] /\ c.pc = "walk"
  BY Mine DEF Walk
<1>2. /\ t \in [Procs -> Thread] /\ KeyOK(c) /\ RootOK(c) /\ SearchOK(c) /\ c.other = None
      /\ c.node \in Leaves /\ Alloc(c.node) /\ c.pc \notin LockPc
      /\ gcs \subseteq Nat /\ ops \in Nat
  BY <1>1, SearchMine DEF SearchPc, ReadPc
<1>3. /\ UNCHANGED leafVars /\ db' = db /\ scene' = scene /\ gcs' = gcs /\ ops' = ops
  BY DEF Walk
<1>4. c.root \in layers /\ c.root \in Layers /\ Ikey(c) \in Nat
  BY <1>2, RootFacts, IkeyType
<1>5. CASE GoesRight(c) /\ next[c.node] \notin dirty
           /\ t' = [t EXCEPT ![p].node = next[c.node], ![p].held = "same", ![p].bit = DeletedBit(next[c.node])]
  <2>1. PICK n \in Leaves : n = next[c.node]
    BY <1>2, <1>5, LeafType DEF GoesRight, IInv, StoreInv
  <2>2. PICK b \in {"live", "deleted"} : b = DeletedBit(n)
    BY DEF DeletedBit
  <2> DEFINE d == [c EXCEPT !.node = n, !.held = "same", !.bit = b]
  <2>3. t' = [t EXCEPT ![p] = d]
    BY <1>1, <1>5, <2>1, <2>2
  <2>4. d \in Thread
    BY DEF Thread
  <2>5. /\ d.pc = "walk" /\ d.held = "same" /\ d.bit = b /\ d.node = n /\ d.root = c.root /\ d.op = c.op
        /\ d.key = c.key /\ d.depth = c.depth /\ d.may = c.may /\ d.val = c.val /\ d.other = c.other
    BY <1>1 DEF Thread
  <2> HIDE DEF d
  <2>6. Ikey(d) = Ikey(c)
    BY <2>5 DEF Ikey
  <2>7. KeyOK(d) /\ RootOK(d)
    BY <1>2, <2>5, PcFacts DEF KeyOK, RootOK, LayerRef, SearchPc
  <2>8. c.bit = "live" /\ Ikey(c) >= slot[n][0].ikey /\ n # None
    BY <1>5, <2>1, ConstantFacts DEF GoesRight, IkeyBound
  <2>9. Alloc(n) /\ (In(n, c.root) \/ Gone(n))
    BY <1>2, <2>1, <2>8 DEF SearchOK, IInv, StoreInv, AllocInv
  <2>10. b = "live" => n \notin deleted /\ In(n, c.root) /\ (next[n] # None => In(next[n], c.root))
    <3>1. SUFFICES ASSUME b = "live" PROVE n \notin deleted /\ In(n, c.root) /\ (next[n] # None => In(next[n], c.root))
      OBVIOUS
    <3>2. n \notin deleted
      BY <2>2, <3>1 DEF DeletedBit
    <3>3. In(n, c.root)
      BY <1>4, <2>9, <3>2, LiveIn
    <3>4. QED
      BY <1>4, <3>2, <3>3 DEF IInv, StoreInv, ListInv
  <2>11. low[n] <= Ikey(c)
    <3>1. CASE prev[n] = None
      <4>1. n \notin deleted
        BY <3>1 DEF IInv, StoreInv, BoundInv
      <4>2. In(n, c.root)
        BY <1>4, <2>9, <4>1, LiveIn
      <4>3. low[n] = 0
        BY <1>4, <3>1, <4>2 DEF IInv, StoreInv, ListInv
      <4>4. QED
        BY <1>4, <4>3
    <3>2. CASE prev[n] # None
      BY <2>8, <3>2 DEF IInv, StoreInv, BoundInv
    <3>3. QED
      BY <3>1, <3>2
  <2>12. SearchOK(d)
    BY <2>5, <2>6, <2>8, <2>9, <2>10, <2>11 DEF SearchOK, ReadPc
  <2>13. ThreadOK(d)
    BY <1>2, <2>5, <2>7, <2>12, PcFacts DEF ThreadOK, SearchPc, ReadPc
  <2>14. d.node \notin dirty /\ Alloc(d.node) /\ d.other = None /\ d.pc \notin LockPc
    BY <1>2, <1>5, <2>1, <2>5, <2>9, PcFacts DEF SearchPc
  <2>15. QED
    BY <1>1, <1>2, <1>3, <2>3, <2>4, <2>13, <2>14, FreeStep
<1>6. CASE ~GoesRight(c) /\ t' = [t EXCEPT ![p].pc = "forward"]
  <2> DEFINE d == [c EXCEPT !.pc = "forward"]
  <2>1. t' = [t EXCEPT ![p] = d]
    BY <1>1, <1>6
  <2>2. d \in Thread
    BY DEF Thread, Pcs, SearchPc
  <2>3. SameRead(c, d) /\ d.pc = "forward"
    BY DEF Thread, SameRead
  <2> HIDE DEF d
  <2>4. Ikey(d) = Ikey(c)
    BY <2>3 DEF Ikey, SameRead
  <2>5. KeyOK(d) /\ RootOK(d)
    BY <1>2, <2>3, PcFacts DEF KeyOK, RootOK, LayerRef, SearchPc, SameRead
  <2>6. ASSUME c.held # "split", c.bit = "live" PROVE Covers(c.node, Ikey(c))
    <3>1. PICK n \in Leaves : n = c.node
      BY <1>2
    <3>2. In(n, c.root) /\ low[n] <= Ikey(c)
      BY <1>2, <2>6, <3>1 DEF SearchOK
    <3>3. ASSUME next[n] # None PROVE Ikey(c) < low[next[n]] /\ next[n] \in Leaves /\ In(next[n], c.root)
      <4>1. PICK m \in Leaves : m = next[n]
        BY <3>3, LeafType DEF IInv, StoreInv
      <4>2. prev[m] = n /\ In(m, c.root)
        BY <1>4, <3>2, <3>3, <4>1 DEF IInv, StoreInv, ListInv
      <4>3. slot[m][0].ikey = low[m]
        BY <3>1, <4>2, ConstantFacts DEF IInv, StoreInv, BoundInv
      <4>4. ~(Ikey(c) >= slot[m][0].ikey)
        BY <1>6, <2>6, <3>1, <3>3, <4>1 DEF GoesRight, IkeyBound
      <4>5. low[m] \in Nat
        BY LeafType DEF IInv, StoreInv
      <4>6. QED
        BY <1>4, <4>1, <4>2, <4>3, <4>4, <4>5
    <3>4. CASE Hi(n) = None
      BY <3>1, <3>2, <3>4 DEF Covers, Below
    <3>5. CASE Hi(n) # None
      <4>1. next[n] # None /\ low[next[n]] <= low[Hi(n)] /\ Hi(n) \in Leaves
        <5>1. Hi(n) \in Leaves /\ In(Hi(n), c.root) /\ low[n] < low[Hi(n)]
          BY <1>4, <3>2, <3>5, HiFacts
        <5>2. QED
          BY <1>4, <3>2, <5>1 DEF IInv, StoreInv, ListInv
      <4>2. low[Hi(n)] \in Nat /\ low[next[n]] \in Nat
        BY <3>3, <4>1, LeafType DEF IInv, StoreInv
      <4>3. Ikey(c) < low[Hi(n)]
        BY <1>4, <3>3, <4>1, <4>2
      <4>4. QED
        BY <3>1, <3>2, <4>3 DEF Covers, Below
    <3>6. QED
      BY <3>4, <3>5
  <2>7. SearchOK(d)
    BY <1>2, <2>3, <2>4, <2>6 DEF SearchOK, SameRead, ReadPc
  <2>8. ThreadOK(d)
    BY <1>2, <2>3, <2>5, <2>7, PcFacts DEF ThreadOK, SearchPc, ReadPc, SameRead
  <2>9. QED
    BY <1>1, <1>2, <1>3, <2>1, <2>2, <2>3, <2>8, PcFacts, FreeStep DEF SameRead, SearchPc
<1>7. QED
  BY <1>1, <1>5, <1>6 DEF Walk

-----------------------------------------------------------------------------
(* Steps under the lock that write nothing.                                *)

(* The parts of a cursor that the holder of a lock keeps.                  *)
SameLock(c, d) ==
  /\ d.key = c.key /\ d.depth = c.depth /\ d.root = c.root /\ d.node = c.node
  /\ d.op = c.op /\ d.may = c.may /\ d.val = c.val

LEMMA LockKey ==
  ASSUME NEW c \in Thread, NEW d \in Thread, SameLock(c, d), KeyOK(c), c.op # "get", d.pc # "done"
  PROVE  /\ KeyOK(d) /\ Ikey(d) = Ikey(c) /\ (HasSuffix(d) <=> HasSuffix(c))
         /\ \A s : Compare(d, s) = Compare(c, s) /\ KsufMatches(d, s) = KsufMatches(c, s)
         /\ HomeOK(c) => HomeOK(d)
<1>1. Ikey(d) = Ikey(c) /\ (HasSuffix(d) <=> HasSuffix(c))
  BY DEF SameLock, Ikey, HasSuffix
<1>2. KeyOK(d)
  BY DEF SameLock, KeyOK
<1>3. \A s : Compare(d, s) = Compare(c, s) /\ KsufMatches(d, s) = KsufMatches(c, s)
  BY <1>1 DEF SameLock, Compare, KsufMatches
<1>4. HomeOK(c) => HomeOK(d)
  BY <1>1 DEF SameLock, HomeOK, Level
<1>5. QED
  BY <1>1, <1>2, <1>3, <1>4

LEMMA FoundMine ==
  ASSUME IInv, NEW p \in Procs, t[p].pc = "found"
  PROVE  /\ t[p] \in Thread /\ t \in [Procs -> Thread] /\ KeyOK(t[p]) /\ HomeOK(t[p])
         /\ FoundOK(t[p]) /\ t[p].node \in Leaves /\ locked[t[p].node] = p /\ t[p].other = None
         /\ t[p].node \notin deleted /\ Alloc(t[p].node) /\ t[p].op # "get"
         /\ gcs \subseteq Nat /\ ops \in Nat
         /\ t[p].pc \notin MidPc \cup TurnPc \cup UnlinkPc /\ t[p].pc \in LockPc
<1>0. "found" \in LockPc /\ "found" \notin MidPc \cup TurnPc \cup UnlinkPc
      /\ "found" \notin DeletePc \cup {"unlock"}
  BY DEF LockPc, MidPc, TurnPc, UnlinkPc, DeletePc
<1>1. /\ t[p] \in Thread /\ t \in [Procs -> Thread] /\ ThreadOK(t[p])
      /\ t[p].node \in Leaves /\ locked[t[p].node] = p /\ Alloc(t[p].node)
  BY <1>0, Mine, ConstantFacts
<1>2. KeyOK(t[p]) /\ LockOK(t[p]) /\ HomeOK(t[p]) /\ t[p].node \notin deleted /\ FoundOK(t[p])
  BY <1>0, <1>1 DEF ThreadOK, LockOK
<1>3. t[p].other = None
  BY FoundSays
<1>4. t[p].op # "get"
  BY <1>0, <1>2 DEF KeyOK
<1>5. gcs \subseteq Nat /\ ops \in Nat
  BY DEF IInv, StoreInv, TypeOK
<1>6. QED
  BY <1>0, <1>1, <1>2, <1>3, <1>4, <1>5

LEMMA OwnsSame ==
  ASSUME NEW c \in Thread, NEW d \in Thread, c.pc \in LockPc, d.pc \in LockPc, d.node = c.node,
         c.other = None, d.other = None \/ d.pc = "gc_lock"
  PROVE  \A n \in Leaves : Owns(d, n) <=> Owns(c, n)
BY ConstantFacts DEF Owns

(* Nothing to remove: the lock is given back.                              *)
LEMMA GiveBackStep ==
  ASSUME IInv, NEW p \in Procs, t[p].pc = "found", t[p].node \notin dirty,
         t' = [t EXCEPT ![p] = [t[p] EXCEPT !.pc = "unlock"]],
         UNCHANGED <<leafVars, gcs, scene, ops, db>>
  PROVE  IInv'
<1>1. PICK c \in Thread : c = t[p] /\ c.pc = "found" /\ c.node \notin dirty
  BY FoundMine
<1>2. /\ t \in [Procs -> Thread] /\ KeyOK(c) /\ c.node \in Leaves /\ locked[c.node] = p /\ c.other = None
      /\ Alloc(c.node) /\ c.op # "get" /\ gcs \subseteq Nat /\ ops \in Nat
      /\ c.pc \notin MidPc \cup TurnPc \cup UnlinkPc /\ c.pc \in LockPc
  BY <1>1, FoundMine
<1> DEFINE d == [c EXCEPT !.pc = "unlock"]
<1>3. t' = [t EXCEPT ![p] = d]
  BY <1>1
<1>4. /\ "unlock" \in LockPc /\ "unlock" \notin MidPc \cup TurnPc \cup UnlinkPc
      /\ "unlock" \notin {"reach"} \cup SearchPc /\ "unlock" \notin ReadPc
      /\ "unlock" \notin AssignPc \cup StorePc /\ "unlock" \notin LayerPc /\ "unlock" \notin DeletePc
      /\ "unlock" \notin OtherPc /\ "unlock" \in Pcs
  BY DEF LockPc, MidPc, TurnPc, UnlinkPc, SearchPc, ReadPc, AssignPc, StorePc, LayerPc, DeletePc, OtherPc, Pcs
<1>5. d \in Thread
  BY <1>4 DEF Thread
<1>6. SameLock(c, d) /\ d.pc = "unlock" /\ d.other = c.other /\ d.held = c.held
  BY DEF Thread, SameLock
<1> HIDE DEF d
<1>7. KeyOK(d)
  BY <1>2, <1>5, <1>6, LockKey
<1>8. LockOK(d)
  BY <1>1, <1>4, <1>6 DEF LockOK, UnlockOK, SameLock
<1>9. ThreadOK(d)
  BY <1>2, <1>4, <1>6, <1>7, <1>8 DEF ThreadOK
<1>10. d.node = c.node /\ d.node # None
  BY <1>2, <1>6, ConstantFacts DEF SameLock
<1>11. \A n \in Leaves : Owns(d, n) <=> Owns(c, n)
  BY <1>2, <1>4, <1>5, <1>6, <1>10, OwnsSame
<1>12. QED
  BY <1>1, <1>2, <1>3, <1>4, <1>5, <1>6, <1>9, <1>10, <1>11, SearchStep

LEMMA RemoveMissingStep ==
  ASSUME IInv, NEW p \in Procs, RemoveMissing(p)
  PROVE  IInv'
<1>1. t[p].pc = "found" /\ t[p].op = "remove" /\ t' = [t EXCEPT ![p].pc = "unlock"]
      /\ UNCHANGED <<leafVars, gcs, scene, ops, db>>
  BY DEF RemoveMissing
<1>2. t[p].node \notin dirty
  BY <1>1, FoundMine DEF FoundOK
<1>3. QED
  BY <1>1, <1>2, GiveBackStep

LEMMA RemoveFoundStep ==
  ASSUME IInv, NEW p \in Procs, RemoveFound(p)
  PROVE  IInv'
<1>1. PICK c \in Thread : c = t[p] /\ c.pc = "found" /\ c.op = "remove" /\ c.state = 1
  BY FoundMine DEF RemoveFound
<1>2. /\ t \in [Procs -> Thread] /\ KeyOK(c) /\ c.node \in Leaves /\ locked[c.node] = p /\ c.other = None
      /\ Alloc(c.node) /\ c.op # "get" /\ gcs \subseteq Nat /\ ops \in Nat /\ HomeOK(c) /\ FoundOK(c)
      /\ c.node \notin deleted
      /\ c.pc \notin MidPc \cup TurnPc \cup UnlinkPc /\ c.pc \in LockPc
  BY <1>1, FoundMine
<1> DEFINE d == [c EXCEPT !.pc = "remove"]
<1>3. t' = [t EXCEPT ![p] = d] /\ UNCHANGED <<leafVars, gcs, scene, ops, db>>
  BY <1>1 DEF RemoveFound
<1>4. /\ "remove" \in LockPc /\ "remove" \notin MidPc \cup TurnPc \cup UnlinkPc
      /\ "remove" \notin {"reach"} \cup SearchPc /\ "remove" \notin ReadPc
      /\ "remove" \notin AssignPc \cup StorePc /\ "remove" \notin LayerPc /\ "remove" \notin DeletePc
      /\ "remove" \notin OtherPc /\ "remove" \in Pcs
  BY DEF LockPc, MidPc, TurnPc, UnlinkPc, SearchPc, ReadPc, AssignPc, StorePc, LayerPc, DeletePc, OtherPc, Pcs
<1>5. d \in Thread
  BY <1>4 DEF Thread
<1>6. SameLock(c, d) /\ d.pc = "remove" /\ d.other = c.other /\ d.held = c.held /\ d.i = c.i /\ d.p = c.p
      /\ d.state = c.state
  BY DEF Thread, SameLock
<1> HIDE DEF d
<1>7. KeyOK(d) /\ HomeOK(d) /\ \A s : Compare(d, s) = Compare(c, s) /\ KsufMatches(d, s) = KsufMatches(c, s)
  BY <1>2, <1>5, <1>6, LockKey
<1>8. FoundAt(c) /\ c.node \notin dirty
  BY <1>1, <1>2 DEF FoundOK
<1>9. FoundAt(d)
  BY <1>6, <1>7, <1>8 DEF FoundAt, SameLock
<1>10. RemoveOK(d)
  BY <1>1, <1>6, <1>8, <1>9 DEF RemoveOK, SameLock
<1>11. LockOK(d)
  BY <1>2, <1>4, <1>6, <1>7, <1>10 DEF LockOK, SameLock
<1>12. ThreadOK(d)
  BY <1>2, <1>4, <1>6, <1>7, <1>11 DEF ThreadOK
<1>13. d.node = c.node /\ d.node # None
  BY <1>2, <1>6, ConstantFacts DEF SameLock
<1>14. \A n \in Leaves : Owns(d, n) <=> Owns(c, n)
  BY <1>2, <1>4, <1>5, <1>6, <1>13, OwnsSame
<1>15. QED
  BY <1>1, <1>2, <1>3, <1>4, <1>5, <1>6, <1>12, <1>13, <1>14, SearchStep

(* The first leaf of a layer that a slot of the root layer holds.          *)
FirstOf(l) == CHOOSE x \in Tree(l) : prev[x] = None

LEMMA FirstLeaf ==
  ASSUME IInv, NEW l \in layers
  PROVE  LET lf == FirstOf(l) IN
         lf \in Leaves /\ layer[lf] = l /\ prev[lf] = None /\ In(lf, l)
<1>1. PICK n \in Leaves : In(n, l) /\ prev[n] = None
  BY DEF IInv, StoreInv, ListInv
<1>2. n \in Tree(l)
  BY <1>1 DEF In, Tree
<1>3. PICK lf : lf = FirstOf(l)
  OBVIOUS
<1>4. lf \in Tree(l) /\ prev[lf] = None
  BY <1>1, <1>2, <1>3 DEF FirstOf
<1>5. lf \in Leaves /\ layer[lf] = l /\ In(lf, l)
  BY <1>4 DEF Tree, In, Linked
<1>6. QED
  BY <1>3, <1>4, <1>5

LEMMA ThreadGc ==
  ASSUME NEW c \in Thread, NEW u \in Pcs, NEW i \in Int, NEW x \in Leaves
  PROVE  [c EXCEPT !.pc = u, !.i = i, !.other = x] \in Thread
BY DEF Thread

LEMMA GcLayerStep ==
  ASSUME IInv, NEW p \in Procs, GcLayer(p)
  PROVE  IInv'
<1>1. PICK c \in Thread : c = t[p] /\ c.pc = "found" /\ c.op = "gc"
  BY FoundMine DEF GcLayer
<1>2. /\ t \in [Procs -> Thread] /\ KeyOK(c) /\ c.node \in Leaves /\ locked[c.node] = p /\ c.other = None
      /\ Alloc(c.node) /\ c.op # "get" /\ gcs \subseteq Nat /\ ops \in Nat /\ HomeOK(c) /\ FoundOK(c)
      /\ c.node \notin deleted
      /\ c.pc \notin MidPc \cup TurnPc \cup UnlinkPc /\ c.pc \in LockPc
  BY <1>1, FoundMine
<1>3. UNCHANGED <<leafVars, gcs, scene, ops, db>>
  BY DEF GcLayer
<1>4. c.node \notin dirty
  BY <1>1, <1>2 DEF FoundOK
<1>50. PICK n \in Leaves : n = c.node
  BY <1>2
<1>5. PICK j : n = c.node /\ j = GcSlot(c)
  BY <1>50
<1> DEFINE lf == FirstOf(At(n, j).lv)
           good == /\ j < perm[n].size
                   /\ At(n, j).ikey = Ikey(c) /\ At(n, j).kind = "layer"
                   /\ next[lf] = None /\ perm[lf].size = 0
           d == [c EXCEPT !.pc = "gc_lock", !.i = j, !.other = lf]
<1>60. PICK x : x = IF good THEN d ELSE [c EXCEPT !.pc = "unlock"]
  OBVIOUS
<1>6. x = (IF good THEN d ELSE [c EXCEPT !.pc = "unlock"]) /\ t' = [t EXCEPT ![p] = x]
  <2>1. t' = [t EXCEPT ![p] =
               IF /\ GcSlot(t[p]) < perm[t[p].node].size
                  /\ /\ At(t[p].node, GcSlot(t[p])).ikey = Ikey(t[p])
                     /\ At(t[p].node, GcSlot(t[p])).kind = "layer"
                  /\ /\ next[FirstOf(At(t[p].node, GcSlot(t[p])).lv)] = None
                     /\ perm[FirstOf(At(t[p].node, GcSlot(t[p])).lv)].size = 0
               THEN [t[p] EXCEPT !.pc = "gc_lock", !.i = GcSlot(t[p]),
                                 !.other = FirstOf(At(t[p].node, GcSlot(t[p])).lv)]
               ELSE [t[p] EXCEPT !.pc = "unlock"]]
    BY Zenon DEF GcLayer, At, FirstOf
  <2>2. QED
    BY <1>1, <1>5, <1>60, <2>1
<1>7. CASE ~good
  <2>1. x = [c EXCEPT !.pc = "unlock"]
    BY <1>6, <1>7
  <2>2. t' = [t EXCEPT ![p] = [t[p] EXCEPT !.pc = "unlock"]]
    BY <1>1, <1>6, <2>1
  <2>3. QED
    BY <1>1, <1>3, <1>4, <2>2, GiveBackStep
<1>8. CASE good
  <2>1. j \in Int /\ j >= 0 /\ perm[n] \in Permuters /\ perm[n].size \in Nat
    <3>1. perm[n] \in Permuters /\ perm[n].size \in Nat
      BY LeafType, PermuterType, WidthFacts DEF IInv, StoreInv
    <3>2. c.i \in Int /\ c.i >= 0
      BY <1>2, <1>5, <3>1, ThreadType DEF FoundOK, Position, FoundAt, Index
    <3>3. QED
      BY <1>5, <3>1, <3>2 DEF GcSlot
  <2>2. j \in Index(perm[n])
    BY <1>8, <2>1 DEF Index
  <2>3. c.depth = 1 /\ Len(c.key) = 1 /\ Ikey(c) = c.key[1]
    BY <1>1, <1>2, IkeyType DEF KeyOK
  <2>4. layer[n] = RootLayer /\ In(n, RootLayer) /\ RootLayer \in layers
    BY <1>2, <1>5, <2>3 DEF HomeOK, Level
  <2>5. PICK l \in layers : l # RootLayer /\ l = At(n, j).lv
    <3>1. At(n, j) \in Entries(n)
      BY <1>4, <1>5, <2>2, CleanEnt, EntriesAt
    <3>2. QED
      BY <1>8, <2>4, <3>1 DEF IInv, StoreInv, LeafInv
  <2>6. lf \in Leaves /\ layer[lf] = l /\ prev[lf] = None
    BY <2>5, FirstLeaf
  <2>7. PICK y \in Leaves : y = lf
    BY <2>6
  <2>8. d = [c EXCEPT !.pc = "gc_lock", !.i = j, !.other = y]
    BY <2>7
  <2>9. x = d /\ At(n, j).kind = "layer" /\ At(n, j).ikey = c.key[1] /\ layer[y] = l /\ prev[y] = None
    BY <1>6, <1>8, <2>3, <2>6, <2>7
  <2> HIDE DEF lf, good, d
  <2>10. /\ "gc_lock" \in LockPc /\ "gc_lock" \notin MidPc \cup TurnPc \cup UnlinkPc
         /\ "gc_lock" \notin {"reach"} \cup SearchPc /\ "gc_lock" \notin ReadPc
         /\ "gc_lock" \notin AssignPc \cup StorePc /\ "gc_lock" \notin LayerPc /\ "gc_lock" \notin DeletePc
         /\ "gc_lock" \in OtherPc /\ "gc_lock" \in Pcs
    BY DEF LockPc, MidPc, TurnPc, UnlinkPc, SearchPc, ReadPc, AssignPc, StorePc, LayerPc, DeletePc, OtherPc, Pcs
  <2>11. d \in Thread
    <3>1. [c EXCEPT !.pc = "gc_lock", !.i = j, !.other = y] \in Thread
      BY <2>1, <2>10, ThreadGc, Zenon
    <3>2. QED
      BY <2>8, <3>1
  <2>12. SameLock(c, d) /\ d.pc = "gc_lock" /\ d.other = y /\ d.held = c.held /\ d.i = j
    BY <2>8 DEF Thread, SameLock
  <2>13. KeyOK(d) /\ HomeOK(d)
    BY <1>2, <2>11, <2>12, LockKey
  <2>14. GcOK(d)
    BY <1>1, <1>4, <1>5, <2>2, <2>5, <2>9, <2>12, ConstantFacts DEF GcOK, GcAt, SameLock
  <2>15. LockOK(d)
    BY <1>2, <2>10, <2>12, <2>13, <2>14 DEF LockOK, SameLock
  <2>16. ThreadOK(d)
    BY <2>10, <2>12, <2>13, <2>15 DEF ThreadOK
  <2>17. d.node = c.node /\ d.node # None /\ d.other # None /\ Alloc(d.other) /\ d.other # d.node
    <3>1. Alloc(y)
      BY <2>5, <2>9, ConstantFacts DEF Alloc, IInv, StoreInv, TypeOK, LeafTypeOK
    <3>2. y # n
      BY <2>4, <2>5, <2>9
    <3>3. QED
      BY <1>2, <1>5, <2>12, <3>1, <3>2, ConstantFacts DEF SameLock
  <2>18. \A m \in Leaves : Owns(d, m) <=> Owns(c, m)
    BY <1>2, <2>10, <2>11, <2>12, <2>17, OwnsSame
  <2>19. t' = [t EXCEPT ![p] = d]
    BY <1>6, <2>9
  <2>20. QED
    BY <1>1, <1>2, <1>3, <2>10, <2>11, <2>12, <2>16, <2>17, <2>18, <2>19, SearchStep
<1>9. QED
  BY <1>7, <1>8

-----------------------------------------------------------------------------
(* Steps that keep each leaf's place in the list and its entries.          *)

(* A thread changes no leaf that another one has locked.                   *)
Confined(p) ==
  \A n \in Leaves : locked[n] \in Procs \ {p} =>
    /\ slot'[n] = slot[n] /\ perm'[n] = perm[n] /\ modstate'[n] = modstate[n]
    /\ locked'[n] = locked[n] /\ layer'[n] = layer[n]
    /\ n \in dirty' <=> n \in dirty
    /\ n \in deleted' <=> n \in deleted

NodeKept(p) ==
  t'[p].node # None =>
    \/ locked[t'[p].node] = p \/ locked[t'[p].node] = None
    \/ t'[p].node = t[p].node /\ (t[p].held = "split" => t'[p].held = "split")

PermSame(a, b) == a.size = b.size /\ \A j \in Index(b) : a.slot[j] = b.slot[j]

(* What the searches of others have read and can still use has not changed. *)
ReadsKept(p) ==
  \A q \in Procs \ {p} : t[q].pc \in ReadPc /\ t'[q].held = "same" /\ Regime(t[q]) =>
    /\ modstate'[t[q].node] = modstate[t[q].node]
    /\ PermSame(perm'[t[q].node], perm[t[q].node])
    /\ \A j \in Index(t[q].perm) :
         slot'[t[q].node][t[q].perm.slot[j]] = slot[t[q].node][t[q].perm.slot[j]]

LEMMA PermSameLe ==
  ASSUME NEW a, NEW b, PermSame(a, b), NEW c
  PROVE  (PermLe(c, b) <=> PermLe(c, a)) /\ (PermLe(b, c) <=> PermLe(a, c))
<1>1. a.size = b.size /\ Index(a) = Index(b) /\ \A j \in Index(b) : a.slot[j] = b.slot[j]
  BY DEF PermSame, Index
<1>2. (PermLe(c, b) => PermLe(c, a)) /\ (PermLe(b, c) => PermLe(a, c))
  <2>1. PermLe(b, c) => PermLe(a, c)
    BY <1>1 DEF PermLe
  <2>2. ASSUME PermLe(c, b) PROVE PermLe(c, a)
    <3>1. c.size <= a.size /\ \A i \in Index(c) : \E j \in Index(a) : c.slot[i] = a.slot[j]
      BY <1>1, <2>2 DEF PermLe
    <3>2. ASSUME c.size = a.size PROVE \A i \in Index(c) : c.slot[i] = a.slot[i]
      <4>1. Index(c) = Index(b)
        BY <1>1, <3>2 DEF Index
      <4>2. QED
        BY <1>1, <2>2, <3>2, <4>1 DEF PermLe
    <3>3. QED
      BY <3>1, <3>2 DEF PermLe
  <2>3. QED
    BY <2>1, <2>2
<1>3. (PermLe(c, a) => PermLe(c, b)) /\ (PermLe(a, c) => PermLe(b, c))
  <2>1. PermLe(a, c) => PermLe(b, c)
    BY <1>1 DEF PermLe
  <2>2. ASSUME PermLe(c, a) PROVE PermLe(c, b)
    <3>1. c.size <= b.size /\ \A i \in Index(c) : \E j \in Index(b) : c.slot[i] = b.slot[j]
      BY <1>1, <2>2 DEF PermLe
    <3>2. ASSUME c.size = b.size PROVE \A i \in Index(c) : c.slot[i] = b.slot[i]
      <4>1. Index(c) = Index(b)
        BY <3>2 DEF Index
      <4>2. QED
        BY <1>1, <2>2, <3>2, <4>1 DEF PermLe
    <3>3. QED
      BY <3>1, <3>2 DEF PermLe
  <2>3. QED
    BY <2>1, <2>2
<1>4. QED
  BY <1>2, <1>3

LEMMA ReadsFrame ==
  ASSUME TypeOK, TypeOK', NEW p \in Procs, ThreadFrame(p), ReadsKept(p)
  PROVE  ReadFrame(p)
<1>1. SUFFICES ASSUME NEW q \in Procs \ {p}, t[q].pc \in ReadPc, t'[q].held = "same", Regime(t[q])
               PROVE  /\ Regime(t[q])'
                      /\ \A j \in Index(t[q].perm) :
                           slot'[t[q].node][t[q].perm.slot[j]] = slot[t[q].node][t[q].perm.slot[j]]
  BY DEF ReadFrame
<1>2. PICK c, d \in Thread : c = t[q] /\ d = t'[q] /\ Later(c, d)
  BY FrameThread
<1>3. d.node = c.node /\ d.perm0 = c.perm0 /\ d.perm = c.perm
  BY <1>2 DEF Later
<1>4. /\ modstate'[c.node] = modstate[c.node]
      /\ PermSame(perm'[c.node], perm[c.node])
  BY <1>1, <1>2 DEF ReadsKept
<1>5. /\ PermLe(c.perm, perm[c.node]) <=> PermLe(c.perm, perm'[c.node])
      /\ PermLe(perm[c.node], c.perm) <=> PermLe(perm'[c.node], c.perm)
  BY <1>4, PermSameLe
<1>6. Regime(c)
  BY <1>1, <1>2
<1>7. Regime(d)'
  BY <1>3, <1>4, <1>5, <1>6 DEF Regime
<1>8. QED
  BY <1>1, <1>2, <1>7 DEF ReadsKept

LEMMA ConfinedFrame ==
  ASSUME TypeOK, NEW p \in Procs, Confined(p), NodeKept(p), next' = next
  PROVE  LockedFrame(p)
<1>1. SUFFICES ASSUME NEW n \in Leaves, locked[n] \in Procs \ {p}, n \in dirty, t'[p].node = n
               PROVE  t[p].node = n /\ (t[p].held = "split" => t'[p].held = "split")
  BY DEF LockedFrame, Confined
<1>2. n # None /\ locked[n] # None
  BY <1>1, ConstantFacts
<1>3. QED
  BY <1>1, <1>2 DEF NodeKept

LEMMA SameAlloc ==
  ASSUME IInv, TypeOK', NEW p \in Procs, ThreadFrame(p), LocksFrame(p), Quiet,
         layer' = layer, deleted' = deleted,
         t[p].pc \notin UnlinkPc \cup {"split_tree"},
         \A n \in Leaves : \/ locked'[n] = locked[n] \/ locked'[n] = None
                           \/ layer[n] # None /\ locked[n] = None,
         \A n \in Leaves : ~Alloc(n) => modstate'[n] = modstate[n] /\ perm'[n] = perm[n],
         t'[p].node # None => Alloc(t'[p].node),
         t'[p].other # None => Alloc(t'[p].other)
  PROVE  AllocInv' /\ \A n \in Leaves : Alloc(n)' <=> Alloc(n)
<1>1. AllocInv
  BY DEF IInv, StoreInv
<1>2. \A n \in Leaves : locked[n] = p /\ layer[n] = None => n \in deleted
  BY <1>1, ConstantFacts DEF AllocInv
<1>3. \A n \in Leaves : Alloc(n)' <=> Alloc(n)
  <2>1. SUFFICES ASSUME NEW n \in Leaves, locked'[n] # locked[n] PROVE layer[n] # None \/ n \in deleted
    BY DEF Alloc
  <2>2. CASE locked'[n] = None
    BY <1>2, <2>1, <2>2 DEF LocksFrame
  <2>3. CASE locked'[n] # None
    BY <2>1, <2>3
  <2>4. QED
    BY <2>2, <2>3
<1>4. \A n \in Leaves : locked'[n] # None /\ layer'[n] = None /\ n \notin deleted' =>
         layer[n] = None /\ locked[n] = locked'[n] /\ (locked[n] = p => t'[p].pc = t[p].pc /\ t'[p].other = t[p].other)
  BY <1>2
<1>5. \A n \in Leaves : layer'[n] # None /\ (~Linked(n) \/ n \in deleted') =>
         /\ layer[n] # None /\ (~Linked(n) \/ n \in deleted)
         /\ locked'[n] = locked[n] /\ locked[n] # p
  BY <1>1 DEF AllocInv, LocksFrame
<1>6. \A n \in Leaves : layer'[n] # None => layer'[n] \in layers
  BY <1>1 DEF AllocInv
<1>7. AllocInv'
  BY <1>3, <1>4, <1>5, <1>6, AllocStep
<1>8. QED
  BY <1>3, <1>7

(* A step that changes no leaf's place and no entry.                       *)
LEMMA StayStep ==
  ASSUME IInv, NEW p \in Procs, TypeOK', db' = db,
         low' = low, next' = next, prev' = prev, layers' = layers, layer' = layer, deleted' = deleted,
         ThreadFrame(p), LocksFrame(p), Confined(p), NodeKept(p), ReadFrame(p),
         t[p].pc \notin UnlinkPc \cup {"split_tree"},
         \A n \in Leaves : \/ locked'[n] = locked[n] \/ locked'[n] = None
                           \/ layer[n] # None /\ locked[n] = None,
         \A n \in Leaves : ~Alloc(n) => modstate'[n] = modstate[n] /\ perm'[n] = perm[n],
         \A n \in Leaves : modstate[n] = "deleted_layer" => modstate'[n] = "deleted_layer",
         \A n \in Leaves : Splitting(n)' <=> Splitting(n),
         \A n \in Leaves : Entries(n)' = Entries(n),
         LockInv', DeadInv', BoundInv', SortInv', Quiet => LeftInv',
         t'[p].node # None => Alloc(t'[p].node),
         t'[p].other # None => Alloc(t'[p].other),
         Quiet => ThreadOK(t[p])'
  PROVE  IInv'
<1>1. Quiet
  <2>1. \A n \in Leaves : \A l \in Layers : In(n, l)' <=> In(n, l)
    BY DEF In, Linked
  <2>2. QED
    BY <2>1 DEF Quiet
<1>2. ListInv' /\ LeafInv' /\ DbInv' /\ AttachInv'
  BY <1>1, QuietStore
<1>3. TypeOK
  BY DEF IInv, StoreInv
<1>4. AllocInv' /\ \A n \in Leaves : Alloc(n)' <=> Alloc(n)
  BY <1>1, SameAlloc
<1>5. LeafFrame(p) /\ ListFrame(p) /\ LayerFrame(p)
  BY <1>1, <1>4, QuietFrame
<1>6. LockedFrame(p)
  BY <1>3, ConfinedFrame
<1>7. Frame(p)
  BY <1>5, <1>6 DEF Frame
<1>8. ThreadInv'
  BY <1>1, <1>2, <1>4, <1>7, ThreadInvStep
<1>9. QED
  BY <1>1, <1>2, <1>4, <1>8 DEF IInv, StoreInv

LEMMA OneFrame ==
  ASSUME TypeOK, NEW p \in Procs, NEW d, t' = [t EXCEPT ![p] = d], db' = db
  PROVE  ThreadFrame(p) /\ t'[p] = d /\ \A q \in Procs \ {p} : t'[q] = t[q]
<1>1. t \in [Procs -> Thread]
  BY DEF TypeOK
<1>2. \A q \in Procs \ {p} : t'[q] = t[q] /\ t[q] \in Thread
  BY <1>1
<1>3. \A q \in Procs \ {p} : t[q] = [t[q] EXCEPT !.held = t[q].held, !.may = t[q].may]
  BY <1>2 DEF Thread
<1>4. QED
  BY <1>1, <1>2, <1>3 DEF ThreadFrame

LEMMA SeenFrame ==
  ASSUME TypeOK, NEW p \in Procs, NEW n, NEW how \in {"insert", "split"}, db' = db,
         \A q \in Procs \ {p} : t'[q] = Seen(n, how)[q]
  PROVE  /\ ThreadFrame(p)
         /\ \A q \in Procs \ {p} : t[q].node = n => t'[q].held # "same"
         /\ how = "split" => \A q \in Procs \ {p} : t[q].node = n => t'[q].held = "split"
<1>1. SUFFICES ASSUME NEW q \in Procs \ {p}
               PROVE  /\ t'[q] = [t[q] EXCEPT !.held = t'[q].held, !.may = t'[q].may]
                      /\ t'[q].may = t[q].may
                      /\ t'[q].held = t[q].held \/ (t[q].held # "split" /\ t'[q].held # "same")
                      /\ t[q].node = n => t'[q].held # "same"
                      /\ how = "split" /\ t[q].node = n => t'[q].held = "split"
  BY DEF ThreadFrame
<1>2. PICK c \in Thread : c = t[q]
  BY DEF TypeOK
<1>3. t'[q] = IF c.node = n /\ c.held # "split" THEN [c EXCEPT !.held = how] ELSE c
  BY <1>2 DEF Seen
<1>4. c = [c EXCEPT !.held = c.held, !.may = c.may]
  BY DEF Thread
<1>5. CASE c.node = n /\ c.held # "split"
  <2>1. PICK d : d = [c EXCEPT !.held = how]
    OBVIOUS
  <2>2. d.held = how /\ d.may = c.may /\ d = [c EXCEPT !.held = d.held, !.may = d.may]
    BY <2>1 DEF Thread
  <2>3. QED
    BY <1>2, <1>3, <1>5, <2>1, <2>2
<1>6. CASE ~(c.node = n /\ c.held # "split")
  BY <1>2, <1>3, <1>4, <1>6
<1>7. QED
  BY <1>5, <1>6

(* The locks stay, and at most the thread's leaf becomes dirty.            *)
LEMMA KeepLocks ==
  ASSUME IInv, TypeOK', NEW p \in Procs, ThreadFrame(p), locked' = locked,
         t[p].pc \in LockPc, t'[p].pc \in LockPc, t[p].pc # "gc_lock", t'[p].pc # "gc_lock",
         t'[p].node = t[p].node, t'[p].other = t[p].other,
         dirty' = dirty \/ (dirty' = dirty \cup {t[p].node}
                            /\ \A q \in Procs : t[q].node = t[p].node => t'[q].held # "same"),
         t'[p].held = t[p].held \/ t'[p].held # "same"
  PROVE  LockInv' /\ LocksFrame(p)
<1>1. LockInv /\ TypeOK
  BY DEF IInv, StoreInv
<1>2. LocksFrame(p)
  BY DEF LocksFrame
<1>3. \A n \in Leaves : locked'[n] = p <=> Owns(t'[p], n)
  BY <1>1 DEF LockInv, Owns
<1>4. t[p].node \in Leaves /\ t[p].other # t[p].node /\ locked[t[p].node] = p
  BY <1>1 DEF LockInv, Owns
<1>5. \A n \in dirty' : locked'[n] # None
  BY <1>1, <1>4, ConstantFacts DEF LockInv
<1>6. \A n \in dirty' : n \in dirty \/ \A q \in Procs \ {p} : t[q].node = n => t'[q].held # "same"
  OBVIOUS
<1>7. t'[p].node \in dirty' => t'[p].held # "same"
  BY <1>1 DEF LockInv
<1>8. LockInv'
  BY <1>1, <1>2, <1>3, <1>4, <1>5, <1>6, <1>7, LockStep
<1>9. QED
  BY <1>2, <1>8

LEMMA QuietHome ==
  ASSUME TypeOK, Quiet, layer' = layer, NEW c \in Thread, c.node \in Leaves, HomeOK(c)
  PROVE  HomeOK(c)'
BY QuietViews DEF Quiet, HomeOK, Level, Ikey, TypeOK, LeafTypeOK

LEMMA PlainSame ==
  ASSUME IInv, slot' = slot, perm' = perm, low' = low, prev' = prev, deleted' = deleted
  PROVE  BoundInv' /\ SortInv'
BY DEF IInv, StoreInv, BoundInv, SortInv, SortedBy

LEMMA DeadSame ==
  ASSUME IInv, next' = next, prev' = prev, layer' = layer, deleted' = deleted,
         \A n \in Leaves : modstate'[n] = "deleted_layer" =>
           modstate[n] = "deleted_layer" /\ locked'[n] = locked[n] /\ perm'[n].size = perm[n].size
  PROVE  DeadInv'
BY DEF IInv, StoreInv, DeadInv

LEMMA LeftSame ==
  ASSUME IInv, Quiet,
         \A n \in Leaves : perm'[n].size = 0 =>
           /\ perm[n].size = 0 /\ At(n, 0)'.ikey = At(n, 0).ikey
           /\ n \in dirty /\ modstate[n] = "insert" => n \in dirty' /\ modstate'[n] = "insert"
  PROVE  LeftInv'
<1>1. LeftInv /\ (\A n \in Leaves : \A x : Below(n, x)' <=> Below(n, x)) /\ layers' = layers
      /\ (\A n \in Leaves : \A l \in layers : In(n, l)' <=> In(n, l))
  BY QuietViews DEF IInv, StoreInv, Quiet
<1>2. SUFFICES ASSUME NEW l \in layers, NEW n \in Leaves, In(n, l)', perm'[n].size = 0,
                      ~(n \in dirty' /\ modstate'[n] = "insert")
               PROVE  Below(n, At(n, 0).ikey)'
  BY <1>1 DEF LeftInv
<1>3. perm[n].size = 0 /\ At(n, 0)'.ikey = At(n, 0).ikey /\ ~(n \in dirty /\ modstate[n] = "insert") /\ In(n, l)
  BY <1>1, <1>2
<1>4. Below(n, At(n, 0).ikey)
  BY <1>1, <1>3 DEF LeftInv
<1>5. PICK x : x = At(n, 0).ikey
  OBVIOUS
<1>6. Below(n, x)'
  BY <1>1, <1>4, <1>5
<1>7. QED
  BY <1>3, <1>5, <1>6

(* A step that changes locks, dirty bits and modification states only.     *)
LEMMA MarkStep ==
  ASSUME IInv, NEW p \in Procs, TypeOK', db' = db, slot' = slot, perm' = perm,
         low' = low, next' = next, prev' = prev, layers' = layers, layer' = layer, deleted' = deleted,
         ThreadFrame(p), LocksFrame(p), Confined(p), NodeKept(p),
         t[p].pc \notin UnlinkPc \cup {"split_tree"} \cup TurnPc, t'[p].pc \notin TurnPc,
         \A n \in Leaves : \/ locked'[n] = locked[n] \/ locked'[n] = None
                           \/ layer[n] # None /\ locked[n] = None,
         \A n \in Leaves : modstate'[n] # modstate[n] =>
           /\ locked[n] = p /\ modstate[n] # "deleted_layer" /\ modstate'[n] # "deleted_layer"
           /\ \A q \in Procs \ {p} : t[q].node = n => t'[q].held # "same",
         \A n \in Leaves : modstate[n] = "deleted_layer" => locked'[n] = locked[n],
         \A n \in Leaves : Splitting(n)' <=> Splitting(n),
         LockInv',
         \A n \in Leaves : perm[n].size = 0 /\ n \in dirty /\ modstate[n] = "insert" =>
           n \in dirty' /\ modstate'[n] = "insert",
         t'[p].node # None => Alloc(t'[p].node),
         t'[p].other # None => Alloc(t'[p].other),
         Quiet => ThreadOK(t[p])'
  PROVE  IInv'
<1>1. TypeOK /\ BoundInv' /\ SortInv'
  BY PlainSame DEF IInv, StoreInv
<1>2. DeadInv'
  BY DeadSame
<1>3. \A n \in Leaves : Entries(n)' = Entries(n)
  BY <1>1, EntriesSame
<1>4. ReadFrame(p)
  <2>1. \A q \in Procs \ {p} : t[q].pc \in ReadPc => t[q].node \in Leaves
    BY SearchMine, PcFacts
  <2>2. ReadsKept(p)
    BY <2>1 DEF ReadsKept, PermSame
  <2>3. QED
    BY <1>1, <2>2, ReadsFrame
<1>5. \A n : At(n, 0)' = At(n, 0)
  BY DEF At
<1>6. Quiet => LeftInv'
  BY <1>5, LeftSame
<1>7. \A n \in Leaves : ~Alloc(n) => modstate'[n] = modstate[n]
  BY ConstantFacts DEF Alloc
<1>8. QED
  BY <1>1, <1>2, <1>3, <1>4, <1>6, <1>7, StayStep

-----------------------------------------------------------------------------
(* Locks.                                                                  *)

LEMMA PermLeAntisymmetric ==
  ASSUME NEW a \in Permuters, NEW b \in Permuters, PermLe(a, b), PermLe(b, a)
  PROVE  a.size = b.size /\ \A j \in Index(a) : a.slot[j] = b.slot[j]
<1>1. a.size \in Int /\ b.size \in Int
  BY PermuterType, WidthFacts
<1>2. a.size = b.size
  BY <1>1 DEF PermLe
<1>3. QED
  BY <1>2 DEF PermLe

(* The search that is still valid under the lock.                          *)
LEMMA LockFound ==
  ASSUME IInv, NEW c \in Thread, KeyOK(c), RootOK(c), SearchOK(c), c.node \in Leaves, Alloc(c.node),
         c.pc = "check", c.held = "same", c.state # -1, c.op # "get", c.node \notin dirty,
         PlaceType(c), ReadOK(c), PlaceOK(c), locked[c.node] = None, c.perm0 = perm[c.node],
         modstate[c.node] # "deleted_layer"
  PROVE  /\ HomeOK(c) /\ FoundOK(c) /\ c.node \notin deleted /\ layer[c.node] # None
<1>1. PICK n \in Leaves : n = c.node
  OBVIOUS
<1>2. In(n, c.root) /\ n \notin deleted /\ Covers(n, Ikey(c)) /\ c.root \in layers
  BY <1>1, RootFacts DEF SearchOK, ReadPc
<1>3. layer[n] # None
  BY <1>1, <1>2 DEF Alloc
<1>4. layer[n] = c.root /\ c.root # None
  BY <1>2, <1>3, ConstantFacts DEF In, IInv, StoreInv, TypeOK, LeafTypeOK
<1>5. HomeOK(c)
  <2>1. Level(c)
    <3>1. CASE c.depth = 1
      BY <1>1, <1>4, <3>1 DEF Level, RootOK
    <3>2. CASE c.depth # 1
      <4>1. ~Dead(c.root)
        BY <1>1, <1>2 DEF Dead
      <4>2. QED
        BY <1>1, <1>4, <3>2, <4>1 DEF Level, RootOK, LayerRef
    <3>3. QED
      BY <3>1, <3>2
  <2>2. QED
    BY <1>1, <1>2, <1>4, <2>1 DEF HomeOK
<1>6. c.perm.size = perm[n].size /\ \A j \in Index(c.perm) : c.perm.slot[j] = perm[n].slot[j]
  <2>1. c.perm \in Permuters /\ perm[n] \in Permuters
    BY ThreadType, LeafType DEF IInv, StoreInv
  <2>2. PermLe(c.perm, perm[n]) /\ PermLe(perm[n], c.perm)
    BY <1>1 DEF ReadOK, Regime
  <2>3. QED
    BY <2>1, <2>2, PermLeAntisymmetric
<1>7. Index(c.perm) = Index(perm[n])
  BY <1>6 DEF Index
<1>8. \A j \in Index(perm[n]) : CmpAt(c, j) = Compare(c, At(n, j)) /\ MatchAt(c, j) = KsufMatches(c, At(n, j))
  BY <1>1, <1>6, <1>7 DEF CmpAt, MatchAt, At
<1>9. c.state \in {0, 1}
  BY ThreadType
<1>10. c.p = None => c.state = 0 /\ Position(c)
  BY <1>1, <1>6, <1>7, <1>8 DEF PlaceType, PlaceOK, Position
<1>11. c.p # None => FoundAt(c)
  BY <1>1, <1>6, <1>7, <1>8 DEF PlaceType, PlaceOK, FoundPlace, FoundAt
<1>12. FoundOK(c)
  BY <1>9, <1>10, <1>11 DEF FoundOK
<1>13. QED
  BY <1>1, <1>2, <1>3, <1>5, <1>12

LEMMA FoundPc ==
  /\ "found" \in LockPc /\ "found" \notin MidPc \cup TurnPc \cup UnlinkPc
  /\ "found" \notin {"reach"} \cup SearchPc /\ "found" \notin ReadPc
  /\ "found" \notin AssignPc \cup StorePc /\ "found" \notin LayerPc /\ "found" \notin DeletePc
  /\ "found" \notin OtherPc /\ "found" \in Pcs
BY DEF LockPc, MidPc, TurnPc, UnlinkPc, SearchPc, ReadPc, AssignPc, StorePc, LayerPc, DeletePc, OtherPc, Pcs

LEMMA ThreadPc == ASSUME NEW c \in Thread, NEW u \in Pcs PROVE [c EXCEPT !.pc = u] \in Thread
BY DEF Thread

LEMMA LockTaken ==
  ASSUME IInv, NEW p \in Procs, NEW c \in Thread, c = t[p], c.pc = "check", c.op # "get",
         ~(c.state < 0 /\ ~Changed(c)), locked[c.node] = None,
         ~StaleSearch(c), ~DeletedLayer(c.node),
         locked' = [locked EXCEPT ![c.node] = p], t' = [t EXCEPT ![p].pc = "found"],
         UNCHANGED <<slot, perm, modstate, dirty, deleted, layer, low, next, prev, layers,
                     gcs, scene, ops, db>>
  PROVE  IInv'
<1>1. /\ t \in [Procs -> Thread] /\ KeyOK(c) /\ RootOK(c) /\ SearchOK(c) /\ c.other = None
      /\ c.node \in Leaves /\ Alloc(c.node) /\ c.pc \notin LockPc
      /\ gcs \subseteq Nat /\ ops \in Nat
      /\ c.held = "same" /\ c.perm0 = perm[c.node] /\ c.node \notin dirty
      /\ PlaceType(c) /\ ReadOK(c) /\ PlaceOK(c) /\ modstate[c.node] # "deleted_layer"
  BY SearchMine DEF SearchPc, ReadPc, StaleSearch, Changed, DeletedLayer
<1>2. c.state # -1 /\ TypeOK
  BY <1>1, ThreadType DEF Changed, IInv, StoreInv
<1>3. HomeOK(c) /\ FoundOK(c) /\ c.node \notin deleted /\ layer[c.node] # None
  BY <1>1, <1>2, LockFound
<1> DEFINE d == [c EXCEPT !.pc = "found"]
<1>4. t' = [t EXCEPT ![p] = d]
  OBVIOUS
<1>5. d \in Thread
  BY FoundPc, ThreadPc
<1>6. SameRead(c, d) /\ SameLock(c, d) /\ d.pc = "found" /\ d.i = c.i /\ d.p = c.p /\ d.state = c.state
  BY DEF Thread, SameRead, SameLock
<1> HIDE DEF d
<1>7. ThreadFrame(p) /\ t'[p] = d /\ \A q \in Procs \ {p} : t'[q] = t[q]
  BY <1>2, <1>4, OneFrame
<1>8. TypeOK' /\ \A n \in Leaves : locked'[n] = IF n = c.node THEN p ELSE locked[n]
  BY <1>1, <1>2, <1>4, <1>5 DEF TypeOK, LeafTypeOK
<1>9. LocksFrame(p) /\ Confined(p) /\ NodeKept(p)
  <2>1. None \notin Procs
    BY ConstantFacts
  <2>2. QED
    BY <1>6, <1>7, <1>8, <2>1 DEF LocksFrame, Confined, NodeKept, SameRead
<1>10. /\ t[p].pc \notin UnlinkPc \cup {"split_tree"} \cup TurnPc /\ t'[p].pc \notin TurnPc
       /\ t[p].pc \notin MidPc /\ t'[p].pc \notin MidPc
  BY <1>1, <1>6, <1>7, FoundPc, PcFacts
<1>11. \A n \in Leaves : Splitting(n)' <=> Splitting(n)
  BY <1>2, <1>7, <1>8, <1>9, <1>10, SplittingSame
<1>12. LockInv'
  <2>1. LockInv
    BY DEF IInv, StoreInv
  <2>2. \A n \in Leaves : locked[n] # p
    BY <1>1, <2>1 DEF LockInv, Owns
  <2>3. \A n \in Leaves : locked'[n] = p <=> Owns(t'[p], n)
    BY <1>1, <1>6, <1>7, <1>8, <2>2, FoundPc, ConstantFacts DEF Owns, SameRead
  <2>4. \A n \in dirty' : locked'[n] # None
    BY <1>2, <1>8, <2>1, ConstantFacts DEF LockInv, TypeOK, LeafTypeOK
  <2>5. t'[p].node \in Leaves /\ t'[p].other # t'[p].node /\ t'[p].node \notin dirty'
    BY <1>1, <1>6, <1>7, ConstantFacts DEF SameRead
  <2>6. QED
    BY <1>2, <1>7, <1>8, <1>9, <2>1, <2>3, <2>4, <2>5, LockStep
<1>13. ASSUME Quiet PROVE ThreadOK(t[p])'
  <2>1. KeyOK(d) /\ HomeOK(d) /\ \A s : Compare(d, s) = Compare(c, s) /\ KsufMatches(d, s) = KsufMatches(c, s)
    BY <1>1, <1>3, <1>5, <1>6, LockKey
  <2>2. KeyOK(d)'
    BY <2>1 DEF KeyOK
  <2>3. HomeOK(d)'
    BY <1>1, <1>2, <1>5, <1>6, <1>13, <2>1, QuietHome DEF SameRead
  <2>4. FoundOK(d)
    BY <1>3, <1>6, <2>1 DEF FoundOK, Position, FoundAt, SameRead
  <2>5. FoundOK(d)'
    BY <2>4 DEF FoundOK, Position, FoundAt, At
  <2>6. LockOK(d)'
    BY <1>3, <1>6, <2>3, <2>5, FoundPc DEF LockOK, SameRead
  <2>7. ThreadOK(d)'
    BY <1>1, <1>6, <2>2, <2>6, FoundPc DEF ThreadOK, SameRead
  <2>8. QED
    BY <1>7, <2>7
<1>14. /\ t'[p].node # None => Alloc(t'[p].node)
       /\ t'[p].other # None => Alloc(t'[p].other)
  BY <1>1, <1>6, <1>7 DEF SameRead
<1>15. \A n \in Leaves : \/ locked'[n] = locked[n] \/ locked'[n] = None
                         \/ layer[n] # None /\ locked[n] = None
  BY <1>3, <1>8
<1>16. \A n \in Leaves : modstate[n] = "deleted_layer" => locked'[n] = locked[n]
  BY <1>1, <1>8
<1>17. QED
  BY <1>7, <1>8, <1>9, <1>10, <1>11, <1>12, <1>13, <1>14, <1>15, <1>16, MarkStep

LEMMA LockStepAll ==
  ASSUME IInv, NEW p \in Procs, Lock(p)
  PROVE  IInv'
<1>1. PICK c \in Thread : c = t[p] /\ c.pc = "check" /\ c.op # "get" /\ ~(c.state < 0 /\ ~Changed(c))
                          /\ locked[c.node] = None
  BY Mine DEF Lock
<1>2. UNCHANGED <<slot, perm, modstate, dirty, deleted, layer, low, next, prev, layers, gcs, scene, ops, db>>
  BY DEF Lock
<1>3. CASE StaleSearch(c) /\ t' = [t EXCEPT ![p].pc = "advance"] /\ UNCHANGED locked
  <2>1. t' = [t EXCEPT ![p] = [t[p] EXCEPT !.pc = "advance"]]
    BY <1>3
  <2>2. UNCHANGED <<leafVars, gcs, scene, ops, db>>
    BY <1>2, <1>3 DEF leafVars
  <2>3. QED
    BY <1>1, <2>1, <2>2, BackStep
<1>4. CASE /\ ~StaleSearch(c) /\ DeletedLayer(c.node) /\ UNCHANGED locked
           /\ t' = [t EXCEPT ![p].pc = "reach", ![p].depth = 1, ![p].root = RootLayer]
  <2> DEFINE d == [c EXCEPT !.pc = "reach", !.depth = 1, !.root = RootLayer]
  <2>1. /\ t \in [Procs -> Thread] /\ KeyOK(c) /\ c.other = None
        /\ c.node \in Leaves /\ Alloc(c.node) /\ c.pc \notin LockPc
        /\ gcs \subseteq Nat /\ ops \in Nat
    BY <1>1, SearchMine DEF SearchPc
  <2>2. t' = [t EXCEPT ![p] = d]
    BY <1>1, <1>4
  <2>3. d \in Thread
    <3>1. "reach" \in Pcs /\ 1 \in 1..2 /\ RootLayer \in Layers
      BY ConstantFacts DEF Pcs
    <3>2. QED
      BY <3>1, ThreadDown, Zenon
  <2>4. /\ d.pc = "reach" /\ d.depth = 1 /\ d.root = RootLayer /\ d.key = c.key /\ d.node = c.node
        /\ d.held = c.held /\ d.op = c.op /\ d.may = c.may /\ d.val = c.val /\ d.other = c.other
    BY DEF Thread
  <2> HIDE DEF d
  <2>5. KeyOK(d)
    <3>1. 1 \in 1..Len(c.key)
      BY <2>1, OneFirst, Zenon DEF KeyOK
    <3>2. QED
      BY <2>1, <2>4, <3>1, PcFacts DEF KeyOK
  <2>6. RootOK(d)
    BY <2>4 DEF RootOK
  <2>7. ThreadOK(d)
    BY <2>1, <2>4, <2>5, <2>6, PcFacts DEF ThreadOK
  <2>8. UNCHANGED leafVars
    BY <1>2, <1>4 DEF leafVars
  <2>9. d.pc \notin LockPc
    BY <2>4, PcFacts
  <2>10. QED
    BY <1>1, <1>2, <2>1, <2>2, <2>3, <2>4, <2>7, <2>8, <2>9, FreeStep
<1>5. CASE /\ ~StaleSearch(c) /\ ~DeletedLayer(c.node)
           /\ locked' = [locked EXCEPT ![c.node] = p] /\ t' = [t EXCEPT ![p].pc = "found"]
  BY <1>1, <1>2, <1>5, LockTaken
<1>6. QED
  BY <1>1, <1>3, <1>4, <1>5 DEF Lock

LEMMA LockMine ==
  ASSUME IInv, NEW p \in Procs, t[p].pc \in LockPc
  PROVE  /\ TypeOK /\ t[p] \in Thread /\ t \in [Procs -> Thread] /\ KeyOK(t[p]) /\ LockOK(t[p])
         /\ t[p].op # "get" /\ t[p].node \in Leaves /\ locked[t[p].node] = p /\ Alloc(t[p].node)
         /\ t[p].other # t[p].node /\ (t[p].pc \notin OtherPc => t[p].other = None)
         /\ t[p].other # None => t[p].other \in Leaves /\ Alloc(t[p].other)
         /\ t[p].other # None /\ t[p].pc # "gc_lock" => locked[t[p].other] = p
         /\ \A n \in Leaves : locked[n] = p <=> Owns(t[p], n)
         /\ modstate[t[p].node] # "deleted_layer"
         /\ t[p].pc \notin {"idle", "reach", "done"} \cup SearchPc
<1>1. /\ TypeOK /\ LockInv /\ DeadInv
  BY DEF IInv, StoreInv
<1>2. /\ t[p] \in Thread /\ t \in [Procs -> Thread] /\ ThreadOK(t[p])
      /\ t[p].node \in Leaves /\ locked[t[p].node] = p /\ Alloc(t[p].node)
      /\ t[p].other # t[p].node /\ (t[p].other # None => t[p].other \in Leaves /\ Alloc(t[p].other))
  BY Mine, ConstantFacts
<1>3. t[p].pc \notin {"idle", "reach", "done"} \cup SearchPc
  BY PcFacts
<1>4. KeyOK(t[p]) /\ LockOK(t[p]) /\ (t[p].pc \notin OtherPc => t[p].other = None)
  BY <1>2, <1>3 DEF ThreadOK
<1>5. t[p].op # "get"
  BY <1>4 DEF KeyOK
<1>6. \A n \in Leaves : locked[n] = p <=> Owns(t[p], n)
  BY <1>1 DEF LockInv
<1>7. t[p].other # None /\ t[p].pc # "gc_lock" => locked[t[p].other] = p
  BY <1>2, <1>6 DEF Owns
<1>8. modstate[t[p].node] # "deleted_layer"
  BY <1>1, <1>2, ConstantFacts DEF DeadInv
<1>9. QED
  BY <1>1, <1>2, <1>3, <1>4, <1>5, <1>6, <1>7, <1>8

(* A thread that holds locks: what ThreadOK asks of it.                    *)
LEMMA HolderOK ==
  ASSUME NEW d \in Thread, d.pc \in LockPc, KeyOK(d)', LockOK(d)', d.pc \notin OtherPc => d.other = None
  PROVE  ThreadOK(d)'
BY PcFacts DEF ThreadOK

LEMMA UnlockPcs ==
  /\ "unlock" \in LockPc /\ "unlock" \notin MidPc \cup TurnPc \cup UnlinkPc /\ "unlock" \notin OtherPc
  /\ "unlock" \notin AssignPc \cup StorePc /\ "unlock" \notin LayerPc /\ "unlock" \notin DeletePc
BY DEF LockPc, MidPc, TurnPc, UnlinkPc, AssignPc, StorePc, LayerPc, DeletePc, OtherPc

LEMMA UnlockStep ==
  ASSUME IInv, NEW p \in Procs, Unlock(p)
  PROVE  IInv'
<1>1. PICK c \in Thread : c = t[p] /\ c.pc = "unlock"
  BY Mine DEF Unlock
<1>2. /\ TypeOK /\ t \in [Procs -> Thread] /\ LockOK(c) /\ c.node \in Leaves /\ locked[c.node] = p
      /\ c.other = None /\ Alloc(c.node)
      /\ \A n \in Leaves : locked[n] = p <=> Owns(t[p], n)
      /\ modstate[c.node] # "deleted_layer"
  BY <1>1, LockMine, UnlockPcs
<1>3. /\ locked' = [locked EXCEPT ![c.node] = None] /\ dirty' = dirty \ {c.node} /\ t' = [t EXCEPT ![p] = Idle]
      /\ UNCHANGED <<slot, perm, modstate, deleted, layer, low, next, prev, layers, gcs, scene, ops, db>>
  BY <1>1 DEF Unlock
<1>4. ThreadFrame(p) /\ t'[p] = Idle /\ \A q \in Procs \ {p} : t'[q] = t[q]
  BY <1>2, <1>3, OneFrame
<1>5. TypeOK' /\ \A n \in Leaves : locked'[n] = IF n = c.node THEN None ELSE locked[n]
  <2>1. /\ locked' \in [Leaves -> Procs \cup {None}] /\ dirty' \subseteq Leaves /\ t' \in [Procs -> Thread]
    BY <1>2, <1>3, IdleOK DEF TypeOK, LeafTypeOK
  <2>2. \A n \in Leaves : locked'[n] = IF n = c.node THEN None ELSE locked[n]
    BY <1>2, <1>3 DEF TypeOK, LeafTypeOK
  <2>3. QED
    BY <1>2, <1>3, <2>1, <2>2 DEF TypeOK, LeafTypeOK
<1>6. LocksFrame(p) /\ Confined(p) /\ NodeKept(p)
  BY <1>2, <1>3, <1>4, <1>5, IdleOK DEF LocksFrame, Confined, NodeKept
<1>7. /\ t[p].pc \notin UnlinkPc \cup {"split_tree"} \cup TurnPc /\ t'[p].pc \notin TurnPc
      /\ t[p].pc \notin MidPc /\ t'[p].pc \notin MidPc /\ t'[p].pc \notin LockPc
  BY <1>1, <1>4, UnlockPcs, IdleOK, PcFacts
<1>8. \A n \in Leaves : Splitting(n)' <=> Splitting(n)
  BY <1>2, <1>4, <1>5, <1>6, <1>7, SplittingSame
<1>9. LockInv'
  <2>1. LockInv
    BY DEF IInv, StoreInv
  <2>2. \A n \in Leaves : locked'[n] = p <=> Owns(t'[p], n)
    <3>1. \A n \in Leaves : locked[n] = p => n = c.node
      BY <1>1, <1>2, ConstantFacts DEF Owns
    <3>2. QED
      BY <1>4, <1>5, <1>7, <3>1, ConstantFacts DEF Owns
  <2>3. \A n \in dirty' : locked'[n] # None /\ n \in dirty
    BY <1>2, <1>3, <1>5, <2>1 DEF LockInv, TypeOK, LeafTypeOK
  <2>4. t'[p].node \notin dirty'
    BY <1>4, <1>5, IdleOK, ConstantFacts DEF TypeOK, LeafTypeOK
  <2>5. QED
    BY <1>2, <1>4, <1>5, <1>6, <1>7, <2>1, <2>2, <2>3, <2>4, LockStep
<1>10. \A n \in Leaves : perm[n].size = 0 /\ n \in dirty /\ modstate[n] = "insert" => n \in dirty'
  <2>1. perm[c.node].size > 0 \/ modstate[c.node] # "insert" \/ c.node \notin dirty
    BY <1>1, <1>2 DEF LockOK, UnlockOK
  <2>2. QED
    BY <1>3, <2>1
<1>11. Quiet => ThreadOK(t[p])'
  <2>1. ThreadOK(Idle)'
    BY IdleOK, PcFacts DEF ThreadOK
  <2>2. QED
    BY <1>4, <2>1
<1>12. t'[p].node = None /\ t'[p].other = None
  BY <1>4, IdleOK
<1>13. \A n \in Leaves : modstate[n] = "deleted_layer" => locked'[n] = locked[n]
  BY <1>2, <1>5
<1>14. QED
  BY <1>3, <1>4, <1>5, <1>6, <1>7, <1>8, <1>9, <1>10, <1>11, <1>12, <1>13, MarkStep

LEMMA StorePcs ==
  /\ "store" \in LockPc /\ "store" \notin MidPc \cup TurnPc \cup UnlinkPc /\ "store" \notin OtherPc
  /\ "store" \in StorePc /\ "store" \notin LayerPc /\ "store" \notin DeletePc \cup {"unlock"}
  /\ "store" \in Pcs /\ "store" \notin AssignPc
  /\ "release" \in LockPc /\ "release" \in StorePc /\ "release" \notin MidPc \cup TurnPc \cup UnlinkPc
  /\ "release" \notin DeletePc \cup {"unlock"} /\ "release" \notin LayerPc
  /\ "layer_unlock" \in LockPc /\ "layer_unlock" \in LayerPc /\ "layer_unlock" \notin MidPc \cup TurnPc \cup UnlinkPc
  /\ "layer_unlock" \notin DeletePc \cup {"unlock"}
BY DEF LockPc, MidPc, TurnPc, UnlinkPc, AssignPc, StorePc, LayerPc, DeletePc, OtherPc, Pcs

LEMMA SplitReleaseStep ==
  ASSUME IInv, NEW p \in Procs, SplitRelease(p)
  PROVE  IInv'
<1>1. PICK c \in Thread : c = t[p] /\ c.pc = "release"
  BY Mine DEF SplitRelease
<1>2. /\ TypeOK /\ t \in [Procs -> Thread] /\ KeyOK(c) /\ LockOK(c) /\ c.node \in Leaves /\ locked[c.node] = p
      /\ Alloc(c.node) /\ c.op # "get" /\ c.other # c.node
      /\ c.other # None => c.other \in Leaves /\ locked[c.other] = p
      /\ \A n \in Leaves : locked[n] = p <=> Owns(t[p], n)
  BY <1>1, LockMine, StorePcs
<1>3. NewOK(c) /\ HomeOK(c) /\ c.node \notin deleted /\ c.other # None
  BY <1>1, <1>2, StorePcs DEF LockOK, NewOK
<1>4. PICK m \in Leaves : m = c.other
  BY <1>2, <1>3
<1>5. locked[m] = p /\ m # c.node /\ perm[m].size > 0 /\ modstate[m] # "deleted_layer"
  <2>1. locked[m] = p /\ m # c.node /\ perm[m].size > 0
    BY <1>2, <1>3, <1>4 DEF NewOK
  <2>2. QED
    BY <2>1, ConstantFacts DEF IInv, StoreInv, DeadInv
<1> DEFINE d == [c EXCEPT !.pc = "store", !.other = None]
<1>6. /\ locked' = [locked EXCEPT ![m] = None] /\ dirty' = dirty \ {m} /\ t' = [t EXCEPT ![p] = d]
      /\ UNCHANGED <<slot, perm, modstate, deleted, layer, low, next, prev, layers, gcs, scene, ops, db>>
  BY <1>1, <1>4 DEF SplitRelease
<1>7. d \in Thread
  BY StorePcs DEF Thread
<1>8. SameLock(c, d) /\ d.pc = "store" /\ d.other = None /\ d.i = c.i /\ d.p = c.p /\ d.held = c.held
  BY DEF Thread, SameLock
<1> HIDE DEF d
<1>9. ThreadFrame(p) /\ t'[p] = d /\ \A q \in Procs \ {p} : t'[q] = t[q]
  BY <1>2, <1>6, OneFrame
<1>10. TypeOK' /\ \A n \in Leaves : locked'[n] = IF n = m THEN None ELSE locked[n]
  <2>1. /\ locked' \in [Leaves -> Procs \cup {None}] /\ dirty' \subseteq Leaves /\ t' \in [Procs -> Thread]
    BY <1>2, <1>6, <1>7 DEF TypeOK, LeafTypeOK
  <2>2. \A n \in Leaves : locked'[n] = IF n = m THEN None ELSE locked[n]
    BY <1>2, <1>6 DEF TypeOK, LeafTypeOK
  <2>3. QED
    BY <1>2, <1>6, <2>1, <2>2 DEF TypeOK, LeafTypeOK
<1>11. d.node = c.node /\ d.node # None
  BY <1>2, <1>8, ConstantFacts DEF SameLock
<1>12. LocksFrame(p) /\ Confined(p) /\ NodeKept(p)
  BY <1>2, <1>5, <1>6, <1>9, <1>10, <1>11 DEF LocksFrame, Confined, NodeKept
<1>13. /\ t[p].pc \notin UnlinkPc \cup {"split_tree"} \cup TurnPc /\ t'[p].pc \notin TurnPc
       /\ t[p].pc \notin MidPc /\ t'[p].pc \notin MidPc
  BY <1>1, <1>8, <1>9, StorePcs
<1>14. \A n \in Leaves : Splitting(n)' <=> Splitting(n)
  BY <1>2, <1>9, <1>10, <1>12, <1>13, SplittingSame
<1>15. LockInv'
  <2>1. LockInv
    BY DEF IInv, StoreInv
  <2>2. \A n \in Leaves : locked'[n] = p <=> Owns(t'[p], n)
    <3>1. \A n \in Leaves : locked[n] = p <=> n = c.node \/ n = m
      BY <1>1, <1>2, <1>4, StorePcs DEF Owns
    <3>2. QED
      BY <1>5, <1>8, <1>9, <1>10, <1>11, <3>1, StorePcs, ConstantFacts DEF Owns
  <2>3. \A n \in dirty' : locked'[n] # None /\ n \in dirty
    BY <1>2, <1>6, <1>10, <2>1 DEF LockInv, TypeOK, LeafTypeOK
  <2>4. t'[p].node \in dirty' => t'[p].held # "same"
    BY <1>1, <1>6, <1>8, <1>9, <1>11, <2>1 DEF LockInv
  <2>5. t'[p].node \in Leaves /\ t'[p].other # t'[p].node
    BY <1>2, <1>8, <1>9, <1>11
  <2>6. QED
    BY <1>2, <1>9, <1>10, <1>12, <2>1, <2>2, <2>3, <2>4, <2>5, LockStep
<1>16. \A n \in Leaves : perm[n].size = 0 /\ n \in dirty /\ modstate[n] = "insert" => n \in dirty'
  BY <1>5, <1>6
<1>17. ASSUME Quiet PROVE ThreadOK(t[p])'
  <2>1. KeyOK(d) /\ HomeOK(d) /\ Ikey(d) = Ikey(c) /\ (HasSuffix(d) <=> HasSuffix(c))
        /\ \A s : Compare(d, s) = Compare(c, s)
    BY <1>2, <1>3, <1>7, <1>8, LockKey
  <2>2. KeyOK(d)'
    BY <1>6, <2>1 DEF KeyOK
  <2>3. HomeOK(d)'
    BY <1>2, <1>6, <1>7, <1>11, <1>17, <2>1, QuietHome
  <2>4. NewOK(d)
    BY <1>1, <1>3, <1>8, <2>1, StorePcs DEF NewOK, Position, SlotIs, SameLock
  <2>5. NewOK(d)'
    BY <1>6, <2>4 DEF NewOK, Position, SlotIs, At, Ikey, HasSuffix
  <2>6. LockOK(d)'
    BY <1>3, <1>6, <1>8, <1>11, <2>3, <2>5, StorePcs DEF LockOK
  <2>7. ThreadOK(d)'
    BY <1>7, <1>8, <2>2, <2>6, StorePcs, HolderOK
  <2>8. QED
    BY <1>9, <2>7
<1>18. \A n \in Leaves : modstate[n] = "deleted_layer" => locked'[n] = locked[n]
  BY <1>5, <1>10
<1>19. /\ t'[p].node # None => Alloc(t'[p].node)
       /\ t'[p].other # None => Alloc(t'[p].other)
       /\ \A n \in Leaves : locked'[n] = locked[n] \/ locked'[n] = None
  BY <1>2, <1>8, <1>9, <1>10, <1>11
<1>20. QED
  BY <1>6, <1>9, <1>10, <1>12, <1>13, <1>14, <1>15, <1>16, <1>17, <1>18, <1>19, MarkStep

LEMMA ThreadNewLeaf ==
  ASSUME NEW c \in Thread, NEW u \in Pcs, NEW n \in Leaves, NEW s \in Slots, NEW z \in 1..2
  PROVE  [c EXCEPT !.pc = u, !.node = n, !.other = None, !.p = s, !.depth = z] \in Thread
BY DEF Thread

LEMMA PositionIs ==
  ASSUME NEW d, d.i \in 0..perm[d.node].size,
         \A j \in Index(perm[d.node]) : /\ j < d.i => Compare(d, At(d.node, j)) = 1
                                        /\ j >= d.i => Compare(d, At(d.node, j)) = -1
  PROVE  Position(d)
BY DEF Position

LEMMA PositionOne ==
  ASSUME NEW d, NEW m \in Leaves, NEW x \in {0, 1}, d.i = x, d.node = m, perm[m].size = 1,
         x = 1 => Compare(d, At(m, 0)) = 1, x = 0 => Compare(d, At(m, 0)) = -1
  PROVE  Position(d)
<1>1. x \in 0..1 /\ \A j \in 0..(1 - 1) : j = 0
  OBVIOUS
<1>2. \A j \in Index(perm[m]) : /\ j < x => Compare(d, At(m, j)) = 1
                                /\ j >= x => Compare(d, At(m, j)) = -1
  <2>1. \A j \in Index(perm[m]) : j = 0
    BY <1>1, Zenon DEF Index
  <2>2. QED
    BY <2>1
<1>3. d.i \in 0..perm[d.node].size
  BY <1>1
<1>4. \A j \in Index(perm[d.node]) : /\ j < d.i => Compare(d, At(d.node, j)) = 1
                                     /\ j >= d.i => Compare(d, At(d.node, j)) = -1
  BY <1>2
<1>5. QED
  BY <1>3, <1>4, PositionIs, Zenon

LEMMA LayerUnlockStep ==
  ASSUME IInv, NEW p \in Procs, LayerUnlock(p)
  PROVE  IInv'
<1>1. PICK c \in Thread : c = t[p] /\ c.pc = "layer_unlock"
  BY Mine DEF LayerUnlock
<1>2. /\ TypeOK /\ t \in [Procs -> Thread] /\ KeyOK(c) /\ LockOK(c) /\ c.node \in Leaves /\ locked[c.node] = p
      /\ Alloc(c.node) /\ c.op # "get" /\ c.other # c.node
      /\ c.other # None => c.other \in Leaves /\ locked[c.other] = p /\ Alloc(c.other)
      /\ \A n \in Leaves : locked[n] = p <=> Owns(t[p], n)
      /\ modstate[c.node] # "deleted_layer"
  BY <1>1, LockMine, StorePcs
<1>3. TurnOK(c) /\ HomeOK(c) /\ c.node \notin deleted /\ c.other # None
  BY <1>1, <1>2, StorePcs DEF LockOK, TurnOK
<1>4. PICK n, m \in Leaves : n = c.node /\ m = c.other
  BY <1>2, <1>3
<1>5. PICK ix \in Slots : ix = c.i /\ ix \in {0, 1} /\ ix = Back(perm[m])
  BY <1>3, <1>4, LeafType, PermuterType DEF IInv, StoreInv, TurnOK
<1>6. c.depth = 1 /\ Len(c.key) = 2 /\ c.key[2] \in Nat /\ c.key[1] \in Nat
  BY <1>2, <1>3, IkeyType DEF TurnOK
<1> DEFINE d == [c EXCEPT !.pc = "store", !.node = m, !.other = None, !.p = ix, !.depth = 2]
<1>7. /\ locked' = [locked EXCEPT ![n] = None] /\ dirty' = dirty \ {n}
      /\ t' = [t EXCEPT ![p] = [c EXCEPT !.pc = "store", !.node = c.other, !.other = None, !.p = c.i, !.depth = @ + 1]]
      /\ UNCHANGED <<slot, perm, modstate, deleted, layer, low, next, prev, layers, gcs, scene, ops, db>>
  BY <1>1, <1>4 DEF LayerUnlock
<1>8. t' = [t EXCEPT ![p] = d]
  <2>1. c.depth + 1 = 2
    BY <1>6
  <2>2. [c EXCEPT !.pc = "store", !.node = c.other, !.other = None, !.p = c.i, !.depth = @ + 1] = d
    BY <1>4, <1>5, <2>1, Zenon
  <2>3. QED
    BY <1>7, <2>2, Zenon
<1>9. d \in Thread
  <2>1. "store" \in Pcs /\ 2 \in 1..2
    BY StorePcs
  <2>2. QED
    BY <2>1, ThreadNewLeaf, Zenon
<1>10. /\ d.pc = "store" /\ d.node = m /\ d.other = None /\ d.p = ix /\ d.depth = 2 /\ d.key = c.key
       /\ d.op = c.op /\ d.may = c.may /\ d.val = c.val /\ d.held = c.held /\ d.i = c.i
  BY DEF Thread
<1> HIDE DEF d
<1>11. ThreadFrame(p) /\ t'[p] = d /\ \A q \in Procs \ {p} : t'[q] = t[q]
  BY <1>2, <1>7, <1>8, OneFrame
<1>12. TypeOK' /\ \A x \in Leaves : locked'[x] = IF x = n THEN None ELSE locked[x]
  <2>1. /\ locked' \in [Leaves -> Procs \cup {None}] /\ dirty' \subseteq Leaves /\ t' \in [Procs -> Thread]
    BY <1>2, <1>7, <1>8, <1>9 DEF TypeOK, LeafTypeOK
  <2>2. \A x \in Leaves : locked'[x] = IF x = n THEN None ELSE locked[x]
    BY <1>2, <1>7 DEF TypeOK, LeafTypeOK
  <2>3. QED
    BY <1>2, <1>7, <2>1, <2>2 DEF TypeOK, LeafTypeOK
<1>13. locked[n] = p /\ locked[m] = p /\ n # m /\ n # None /\ m # None /\ Alloc(m)
  BY <1>2, <1>3, <1>4, ConstantFacts
<1>14. LocksFrame(p) /\ Confined(p) /\ NodeKept(p)
  BY <1>7, <1>10, <1>11, <1>12, <1>13 DEF LocksFrame, Confined, NodeKept
<1>15. /\ t[p].pc \notin UnlinkPc \cup {"split_tree"} \cup TurnPc /\ t'[p].pc \notin TurnPc
       /\ t[p].pc \notin MidPc /\ t'[p].pc \notin MidPc
  BY <1>1, <1>10, <1>11, StorePcs
<1>16. \A x \in Leaves : Splitting(x)' <=> Splitting(x)
  BY <1>2, <1>11, <1>12, <1>14, <1>15, SplittingSame
<1>17. LockInv'
  <2>1. LockInv
    BY DEF IInv, StoreInv
  <2>2. \A x \in Leaves : locked'[x] = p <=> Owns(t'[p], x)
    <3>1. \A x \in Leaves : locked[x] = p <=> x = n \/ x = m
      BY <1>1, <1>2, <1>4, StorePcs DEF Owns
    <3>2. QED
      BY <1>10, <1>11, <1>12, <1>13, <3>1, StorePcs, ConstantFacts DEF Owns
  <2>3. \A x \in dirty' : locked'[x] # None /\ x \in dirty
    BY <1>2, <1>7, <1>12, <2>1 DEF LockInv, TypeOK, LeafTypeOK
  <2>4. t'[p].held # "same"
    BY <1>1, <1>3, <1>10, <1>11, <2>1 DEF LockInv, TurnOK
  <2>5. t'[p].node \in Leaves /\ t'[p].other # t'[p].node
    BY <1>10, <1>11, <1>13
  <2>6. QED
    BY <1>2, <1>11, <1>12, <1>14, <2>1, <2>2, <2>3, <2>4, <2>5, LockStep
<1>18. PICK j \in Index(perm[n]) : perm[n].slot[j] = c.p
  BY <1>3, <1>4 DEF TurnOK
<1>19. \A x \in Leaves : perm[x].size = 0 /\ x \in dirty /\ modstate[x] = "insert" => x \in dirty'
  <2>1. perm[n].size \in Int
    BY <1>2, LeafType, PermuterType
  <2>2. perm[n].size # 0
    BY <1>18, <2>1 DEF Index
  <2>3. QED
    BY <1>7, <2>2
<1>20. ASSUME Quiet PROVE ThreadOK(t[p])'
  <2>2. KeyOK(d)
    <3>1. 2 \in 1..Len(c.key)
      BY <1>6, TwoDepth, Zenon
    <3>2. QED
      BY <1>2, <1>10, <3>1, StorePcs, PcFacts DEF KeyOK
  <2>1. Ikey(d) = c.key[2] /\ ~HasSuffix(d)
    BY <1>9, <1>10, <2>2, IkeyType
  <2>3. PICK l \in layers : l = layer[m] /\ l # RootLayer /\ l \in Layers
    BY <1>2, <1>3, <1>4 DEF TurnOK, TypeOK, LeafTypeOK
  <2>4. In(m, l) /\ prev[m] = None /\ next[m] = None /\ m \notin deleted
    BY <1>3, <1>4, <2>3 DEF TurnOK, In, Linked, IInv, StoreInv, BoundInv
  <2>5. Attached(l, c.key[1])
    <3>1. \A s : Ent(n, s) = slot[n][s]
      BY <1>1, <1>4, <1>13, StorePcs, EntSlot
    <3>2. slot[n][c.p] \in Entries(n)
      BY <1>18, <3>1 DEF Entries
    <3>3. IsLayer(slot[n][c.p], l, c.key[1])
      BY <1>1, <1>3, <1>4, <2>3 DEF TurnOK, IsLayer
    <3>4. In(n, RootLayer)
      BY <1>3, <1>4, <1>6 DEF HomeOK, Level
    <3>5. QED
      BY <3>2, <3>3, <3>4 DEF Attached
  <2>6. Covers(m, c.key[2])
    <3>1. low[m] = 0
      BY <2>4 DEF IInv, StoreInv, ListInv
    <3>2. Hi(m) = None
      BY <1>1, <1>4, <1>13, <2>4 DEF Hi, Splitting
    <3>3. QED
      BY <1>6, <3>1, <3>2 DEF Covers, Below
  <2>7. HomeOK(d)
    BY <1>10, <2>1, <2>3, <2>4, <2>5, <2>6 DEF HomeOK, Level
  <2>8. Position(d)
    <3>1. perm[m].size = 1 /\ Index(perm[m]) = {0}
      BY <1>3, <1>4 DEF TurnOK, Index
    <3>2. At(m, 0) \in Slot
      BY <1>2, <3>1, AtType
    <3>3. /\ ix = 1 => At(m, 0).ikey < c.key[2]
          /\ ix = 0 => At(m, 0).ikey > c.key[2]
      BY <1>3, <1>4, <1>5 DEF TurnOK
    <3>4. At(m, 0).ikey \in Nat
      BY <3>2, SlotType
    <3>5. /\ ix = 1 => Compare(d, At(m, 0)) = 1
          /\ ix = 0 => Compare(d, At(m, 0)) = -1
      BY <1>6, <1>9, <2>1, <2>2, <3>2, <3>3, <3>4, CompareFacts
    <3>6. d.i = ix /\ d.node = m
      BY <1>5, <1>10, Zenon
    <3>7. QED
      BY <1>5, <3>1, <3>5, <3>6, PositionOne, Zenon
  <2>9. NewOK(d)
    <3>1. /\ c.op = "put" /\ modstate[m] = "insert" /\ perm[m].size = 1
          /\ slot[m][ix].ikey = c.key[2] /\ slot[m][ix].kind = "plain"
      BY <1>3, <1>4, <1>5 DEF TurnOK
    <3>2. SlotIs(d, slot[m][ix])
      BY <2>1, <3>1 DEF SlotIs
    <3>3. 1 < Width
      BY WidthFacts
    <3>4. QED
      BY <1>5, <1>10, <2>4, <2>8, <3>1, <3>2, <3>3, StorePcs DEF NewOK
  <2>10. KeyOK(d)'
    BY <1>7, <2>2 DEF KeyOK
  <2>11. HomeOK(d)'
    BY <1>2, <1>7, <1>9, <1>10, <1>20, <2>7, QuietHome
  <2>12. NewOK(d)'
    BY <1>7, <2>9 DEF NewOK, Position, SlotIs, At, Ikey, HasSuffix
  <2>13. LockOK(d)'
    BY <1>7, <1>10, <2>4, <2>11, <2>12, StorePcs DEF LockOK
  <2>14. ThreadOK(d)'
    BY <1>9, <1>10, <2>10, <2>13, StorePcs, HolderOK
  <2>15. QED
    BY <1>11, <2>14
<1>21. \A x \in Leaves : modstate[x] = "deleted_layer" => locked'[x] = locked[x]
  BY <1>2, <1>4, <1>12
<1>22. /\ t'[p].node # None => Alloc(t'[p].node)
       /\ t'[p].other # None => Alloc(t'[p].other)
       /\ \A x \in Leaves : locked'[x] = locked[x] \/ locked'[x] = None
  BY <1>10, <1>11, <1>12, <1>13
<1>23. QED
  BY <1>7, <1>11, <1>12, <1>14, <1>15, <1>16, <1>17, <1>19, <1>20, <1>21, <1>22, MarkStep

-----------------------------------------------------------------------------
(* Marks: the version changes before the leaf does.                        *)

(* A thread that marks its locked leaf.                                    *)
LEMMA HeldStep ==
  ASSUME IInv, NEW p \in Procs, NEW c \in Thread, c = t[p], c.pc \in LockPc,
         c.pc \notin {"gc_lock", "split_tree"} \cup TurnPc \cup UnlinkPc,
         NEW d \in Thread, t'[p] = d, d.pc \in LockPc, d.pc \notin {"gc_lock"} \cup TurnPc,
         c.pc \in MidPc <=> d.pc \in MidPc,
         d.node = c.node, d.other = c.other, d.p = c.p, d.held # "same",
         c.held = "split" => d.held = "split",
         NEW how \in {"insert", "split"}, t' \in [Procs -> Thread],
         \A q \in Procs \ {p} : t'[q] = Seen(c.node, how)[q],
         dirty' = dirty \cup {c.node},
         UNCHANGED <<slot, perm, locked, deleted, layer, low, next, prev, layers, gcs, scene, ops, db>>,
         modstate' \in [Leaves -> {"insert", "remove", "deleted_layer"}],
         \A n \in Leaves : n # c.node => modstate'[n] = modstate[n],
         modstate'[c.node] # "deleted_layer",
         perm[c.node].size = 0 /\ modstate[c.node] = "insert" => modstate'[c.node] = "insert",
         Quiet => ThreadOK(t[p])'
  PROVE  IInv'
<1>1. /\ TypeOK /\ c.node \in Leaves /\ locked[c.node] = p
      /\ Alloc(c.node) /\ c.other # c.node
      /\ c.other # None => c.other \in Leaves /\ Alloc(c.other)
      /\ modstate[c.node] # "deleted_layer"
  BY LockMine
<1>2. /\ ThreadFrame(p)
      /\ \A q \in Procs \ {p} : t[q].node = c.node => t'[q].held # "same"
  BY <1>1, SeenFrame
<1>3. TypeOK'
  BY <1>1 DEF TypeOK, LeafTypeOK
<1>4. LockInv' /\ LocksFrame(p)
  BY <1>2, <1>3, KeepLocks
<1>5. Confined(p) /\ NodeKept(p)
  <2>1. \A n \in Leaves : locked[n] \in Procs \ {p} => n # c.node
    BY <1>1
  <2>2. QED
    BY <1>1, <2>1 DEF Confined, NodeKept
<1>6. \A n \in Leaves : Splitting(n)' <=> Splitting(n)
  <2>1. \/ t[p].pc \notin MidPc /\ t'[p].pc \notin MidPc
        \/ /\ t[p].pc \in MidPc /\ t'[p].pc \in MidPc /\ t'[p].node = t[p].node /\ t'[p].p = t[p].p
           /\ \A n \in Leaves : n = t[p].node => locked'[n] = locked[n]
    OBVIOUS
  <2>2. QED
    BY <1>1, <1>2, <1>3, <1>4, <2>1, SplittingSame
<1>7. \A n \in Leaves : modstate'[n] # modstate[n] =>
           /\ locked[n] = p /\ modstate[n] # "deleted_layer" /\ modstate'[n] # "deleted_layer"
           /\ \A q \in Procs \ {p} : t[q].node = n => t'[q].held # "same"
  BY <1>1, <1>2
<1>8. \A n \in Leaves : perm[n].size = 0 /\ n \in dirty /\ modstate[n] = "insert" =>
           n \in dirty' /\ modstate'[n] = "insert"
  BY <1>1
<1>9. QED
  BY <1>1, <1>2, <1>3, <1>4, <1>5, <1>6, <1>7, <1>8, MarkStep

LEMMA ThreadHeld ==
  ASSUME NEW c \in Thread, NEW u \in Pcs, NEW x \in {"same", "insert", "split"}
  PROVE  [c EXCEPT !.held = x, !.pc = u] \in Thread
BY DEF Thread

LEMMA ThreadSeen ==
  ASSUME NEW c \in Thread, NEW x \in {"same", "insert", "split"}
  PROVE  [c EXCEPT !.held = x] \in Thread
BY DEF Thread

(* The thread itself sees the mark too.                                    *)
LEMMA SeenSelf ==
  ASSUME NEW p \in Procs, NEW c \in Thread, c = t[p], NEW how \in {"insert", "split"}, t \in [Procs -> Thread]
  PROVE  /\ Seen(c.node, how) \in [Procs -> Thread]
         /\ \E x \in {"insert", "split"} : /\ Seen(c.node, how)[p] = [c EXCEPT !.held = x]
                                           /\ c.held = "split" \/ how = "split" => x = "split"
<1>1. \A q \in Procs : [t[q] EXCEPT !.held = how] \in Thread
  BY ThreadSeen
<1>2. Seen(c.node, how) \in [Procs -> Thread]
  BY <1>1 DEF Seen
<1>3. Seen(c.node, how)[p] = IF c.held # "split" THEN [c EXCEPT !.held = how] ELSE c
  BY DEF Seen
<1>4. CASE c.held # "split"
  BY <1>2, <1>3, <1>4
<1>5. CASE c.held = "split"
  <2>1. c = [c EXCEPT !.held = "split"]
    BY <1>5 DEF Thread
  <2>2. QED
    BY <1>2, <1>3, <1>5, <2>1
<1>6. QED
  BY <1>4, <1>5

LEMMA InsertMarkStep ==
  ASSUME IInv, NEW p \in Procs, InsertMark(p)
  PROVE  IInv'
<1>1. PICK c \in Thread : c = t[p] /\ c.pc = "found" /\ c.op = "put" /\ c.state = 0 /\ c.p = None
                          /\ modstate[c.node] = "remove"
  BY Mine DEF InsertMark
<1>2. /\ TypeOK /\ t \in [Procs -> Thread] /\ KeyOK(c) /\ HomeOK(c) /\ FoundOK(c) /\ c.node \in Leaves
      /\ c.node \notin deleted /\ c.other = None /\ c.op # "get"
  BY <1>1, FoundMine DEF IInv, StoreInv
<1>3. /\ dirty' = dirty \cup {c.node} /\ t' = Seen(c.node, "insert")
      /\ modstate' = [modstate EXCEPT ![c.node] = "insert"]
      /\ UNCHANGED <<slot, perm, locked, deleted, layer, low, next, prev, layers, gcs, scene, ops, db>>
  BY <1>1 DEF InsertMark, Mark
<1>4. PICK x \in {"insert", "split"} : /\ Seen(c.node, "insert")[p] = [c EXCEPT !.held = x]
                                       /\ c.held = "split" => x = "split"
  BY <1>1, <1>2, SeenSelf
<1>5. PICK d \in Thread : d = [c EXCEPT !.held = x]
  BY ThreadSeen
<1>6. SameLock(c, d) /\ d.pc = c.pc /\ d.other = c.other /\ d.i = c.i /\ d.p = c.p /\ d.held = x /\ d.state = c.state
  BY <1>5 DEF Thread, SameLock
<1>7. t'[p] = d /\ t' \in [Procs -> Thread]
  BY <1>1, <1>2, <1>3, <1>4, <1>5, SeenSelf
<1>8. modstate' \in [Leaves -> {"insert", "remove", "deleted_layer"}] /\ modstate'[c.node] = "insert"
      /\ \A n \in Leaves : n # c.node => modstate'[n] = modstate[n]
  BY <1>2, <1>3 DEF TypeOK, LeafTypeOK
<1>9. ASSUME Quiet PROVE ThreadOK(t[p])'
  <2>1. KeyOK(d) /\ HomeOK(d) /\ Ikey(d) = Ikey(c) /\ \A s : Compare(d, s) = Compare(c, s)
    BY <1>1, <1>2, <1>6, LockKey
  <2>2. KeyOK(d)'
    BY <1>3, <2>1 DEF KeyOK
  <2>3. HomeOK(d)'
    BY <1>2, <1>3, <1>6, <1>9, <2>1, QuietHome DEF SameLock
  <2>4. Position(d)
    BY <1>1, <1>2, <1>6, <2>1 DEF FoundOK, Position, SameLock
  <2>5. Position(d)'
    BY <1>3, <2>4 DEF Position, At
  <2>6. FoundOK(d)'
    BY <1>1, <1>6, <1>8, <2>5 DEF FoundOK, SameLock
  <2>7. LockOK(d)'
    BY <1>1, <1>2, <1>3, <1>6, <2>3, <2>6, FoundPc DEF LockOK, SameLock
  <2>8. ThreadOK(d)'
    BY <1>1, <1>2, <1>6, <2>2, <2>7, FoundPc, HolderOK
  <2>9. QED
    BY <1>7, <2>8
<1>10. d.node = c.node
  BY <1>6 DEF SameLock
<1>11. \A q \in Procs \ {p} : t'[q] = Seen(c.node, "insert")[q]
  BY <1>3
<1>12. /\ c.pc \in LockPc /\ c.pc \notin {"gc_lock", "split_tree"} \cup TurnPc \cup UnlinkPc /\ c.pc \notin MidPc
  BY <1>1, FoundPc
<1>13. QED
  BY <1>1, <1>2, <1>3, <1>4, <1>6, <1>7, <1>8, <1>9, <1>10, <1>11, <1>12, HeldStep

LEMMA RemovePcs ==
  /\ "remove" \in LockPc /\ "remove" \notin MidPc \cup TurnPc \cup UnlinkPc /\ "remove" \notin OtherPc
  /\ "remove" \notin AssignPc \cup StorePc /\ "remove" \notin LayerPc /\ "remove" \notin DeletePc
  /\ "remove" \notin DeletePc \cup {"unlock"} /\ "remove" \in Pcs
BY DEF LockPc, MidPc, TurnPc, UnlinkPc, AssignPc, StorePc, LayerPc, DeletePc, OtherPc, Pcs

LEMMA RemoveMarkStep ==
  ASSUME IInv, NEW p \in Procs, RemoveMark(p)
  PROVE  IInv'
<1>1. PICK c \in Thread : c = t[p] /\ c.pc = "remove" /\ modstate[c.node] = "insert"
  BY Mine DEF RemoveMark
<1>2. /\ TypeOK /\ t \in [Procs -> Thread] /\ KeyOK(c) /\ LockOK(c) /\ c.node \in Leaves
      /\ c.other = None /\ c.op # "get"
  BY <1>1, LockMine, RemovePcs
<1>3. HomeOK(c) /\ RemoveOK(c) /\ c.node \notin deleted
  BY <1>1, <1>2, RemovePcs DEF LockOK
<1>4. perm[c.node].size # 0
  <2>1. c.i \in Index(perm[c.node])
    BY <1>3 DEF RemoveOK, FoundAt, GcAt
  <2>2. QED
    BY <1>2, <2>1, LeafType, PermuterType DEF Index
<1>5. /\ dirty' = dirty \cup {c.node} /\ t' = Seen(c.node, "insert")
      /\ modstate' = [modstate EXCEPT ![c.node] = "remove"]
      /\ UNCHANGED <<slot, perm, locked, deleted, layer, low, next, prev, layers, gcs, scene, ops, db>>
  BY <1>1 DEF RemoveMark
<1>6. PICK x \in {"insert", "split"} : /\ Seen(c.node, "insert")[p] = [c EXCEPT !.held = x]
                                       /\ c.held = "split" => x = "split"
  BY <1>1, <1>2, SeenSelf
<1>7. PICK d \in Thread : d = [c EXCEPT !.held = x]
  BY ThreadSeen
<1>8. SameLock(c, d) /\ d.pc = c.pc /\ d.other = c.other /\ d.i = c.i /\ d.p = c.p /\ d.held = x /\ d.state = c.state
  BY <1>7 DEF Thread, SameLock
<1>9. t'[p] = d /\ t' \in [Procs -> Thread]
  BY <1>1, <1>2, <1>5, <1>6, <1>7, SeenSelf
<1>10. modstate' \in [Leaves -> {"insert", "remove", "deleted_layer"}] /\ modstate'[c.node] = "remove"
       /\ \A n \in Leaves : n # c.node => modstate'[n] = modstate[n]
  BY <1>2, <1>5 DEF TypeOK, LeafTypeOK
<1>11. d.node = c.node /\ d.op = c.op /\ d.key = c.key
  BY <1>8 DEF SameLock
<1>12. ASSUME Quiet PROVE ThreadOK(t[p])'
  <2>1. KeyOK(d) /\ HomeOK(d) /\ Ikey(d) = Ikey(c)
        /\ \A s : Compare(d, s) = Compare(c, s) /\ KsufMatches(d, s) = KsufMatches(c, s)
    BY <1>1, <1>2, <1>3, <1>8, LockKey
  <2>2. KeyOK(d)'
    BY <1>5, <2>1 DEF KeyOK
  <2>3. HomeOK(d)'
    BY <1>2, <1>5, <1>11, <1>12, <2>1, QuietHome
  <2>4. (FoundAt(c) => FoundAt(d)') /\ (GcAt(c) => GcAt(d)')
    <3>1. (FoundAt(c) => FoundAt(d)) /\ (GcAt(c) => GcAt(d))
      BY <1>8, <1>11, <2>1 DEF FoundAt, GcAt
    <3>2. (FoundAt(d) => FoundAt(d)') /\ (GcAt(d) => GcAt(d)')
      BY <1>5 DEF FoundAt, GcAt, At
    <3>3. QED
      BY <3>1, <3>2
  <2>5. \A l \in Layers : Dead(l) => Dead(l)'
    <3>1. ASSUME NEW l \in Layers, Dead(l), NEW n \in Leaves, In(n, l)' PROVE modstate'[n] = "deleted_layer"
      <4>1. In(n, l)
        BY <1>12, <3>1 DEF Quiet
      <4>2. modstate[n] = "deleted_layer"
        BY <3>1, <4>1 DEF Dead
      <4>3. QED
        BY <1>1, <1>10, <4>2
    <3>2. QED
      BY <3>1 DEF Dead
  <2>6. ASSUME c.op = "gc" PROVE At(c.node, c.i).lv \in Layers
    <3>1. c.i \in Index(perm[c.node]) /\ At(c.node, c.i).kind = "layer" /\ c.depth = 1 /\ layer[c.node] \in layers
          /\ In(c.node, layer[c.node])
      BY <1>2, <1>3, <2>6, IkeyType DEF RemoveOK, GcAt, HomeOK, KeyOK
    <3>2. \A s : Ent(c.node, s) = slot[c.node][s]
      BY <1>1, <1>2, EntSlot, LockMine, RemovePcs
    <3>3. At(c.node, c.i) \in Entries(c.node)
      BY <1>2, <3>1, <3>2, EntriesAt
    <3>4. QED
      BY <1>2, <3>1, <3>3 DEF IInv, StoreInv, LeafInv, TypeOK, LeafTypeOK
  <2>7. c.op = "gc" => Dead(At(c.node, c.i).lv)'
    <3>1. SUFFICES ASSUME c.op = "gc" PROVE Dead(At(c.node, c.i).lv)'
      OBVIOUS
    <3>2. PICK l \in Layers : l = At(c.node, c.i).lv
      BY <2>6, <3>1
    <3>3. Dead(l)'
      BY <1>3, <2>5, <3>1, <3>2 DEF RemoveOK
    <3>4. At(c.node, c.i)'.lv = l
      BY <1>5, <3>2 DEF At
    <3>5. QED
      BY <3>3, <3>4
  <2>8. RemoveOK(d)'
    BY <1>3, <1>5, <1>8, <1>10, <1>11, <2>4, <2>7 DEF RemoveOK
  <2>9. LockOK(d)'
    BY <1>1, <1>3, <1>5, <1>8, <1>11, <2>3, <2>8, RemovePcs DEF LockOK
  <2>10. ThreadOK(d)'
    BY <1>1, <1>2, <1>8, <2>2, <2>9, RemovePcs, HolderOK
  <2>11. QED
    BY <1>9, <2>10
<1>13. \A q \in Procs \ {p} : t'[q] = Seen(c.node, "insert")[q]
  BY <1>5
<1>14. /\ c.pc \in LockPc /\ c.pc \notin {"gc_lock", "split_tree"} \cup TurnPc \cup UnlinkPc /\ c.pc \notin MidPc
  BY <1>1, RemovePcs
<1>15. QED
  BY <1>1, <1>2, <1>4, <1>5, <1>6, <1>8, <1>9, <1>10, <1>11, <1>12, <1>13, <1>14, HeldStep

LEMMA MidPcs ==
  /\ MidPc \subseteq LockPc /\ MidPc \subseteq Pcs /\ MidPc \subseteq OtherPc
  /\ \A u \in MidPc : /\ u \notin TurnPc \cup UnlinkPc /\ u \notin AssignPc \cup StorePc /\ u \notin LayerPc
                     /\ u \notin DeletePc \cup {"unlock"} /\ u \notin DeletePc /\ u \notin {"found", "remove", "gc_lock", "unlock"}
  /\ "split_tree" \in MidPc /\ "split_mark" \in MidPc /\ "split_strip" \in MidPc
BY DEF LockPc, MidPc, TurnPc, UnlinkPc, AssignPc, StorePc, LayerPc, DeletePc, OtherPc, Pcs

LEMMA SplitMarkStep ==
  ASSUME IInv, NEW p \in Procs, SplitMark(p)
  PROVE  IInv'
<1>1. PICK c \in Thread : c = t[p] /\ c.pc = "split_mark"
  BY Mine DEF SplitMark
<1>2. /\ TypeOK /\ t \in [Procs -> Thread] /\ KeyOK(c) /\ LockOK(c) /\ c.node \in Leaves
      /\ c.op # "get" /\ modstate[c.node] # "deleted_layer"
  BY <1>1, LockMine, MidPcs
<1>3. HomeOK(c) /\ MidOK(c) /\ c.node \notin deleted
  BY <1>1, <1>2, MidPcs DEF LockOK
<1>4. /\ dirty' = dirty \cup {c.node} /\ t' = [Seen(c.node, "split") EXCEPT ![p].pc = "split_strip"]
      /\ UNCHANGED <<slot, perm, modstate, locked, deleted, layer, low, next, prev, layers, gcs, scene, ops, db>>
  BY <1>1 DEF SplitMark
<1>5. PICK T : T = Seen(c.node, "split") /\ T \in [Procs -> Thread] /\ T[p] = [c EXCEPT !.held = "split"]
  <2>1. PICK how \in {"insert", "split"} : how = "split"
    OBVIOUS
  <2>2. PICK x \in {"insert", "split"} :
          /\ Seen(c.node, how)[p] = [c EXCEPT !.held = x]
          /\ c.held = "split" \/ how = "split" => x = "split"
    BY <1>1, <1>2, SeenSelf
  <2>3. x = "split"
    BY <2>1, <2>2
  <2>4. Seen(c.node, how) \in [Procs -> Thread]
    BY <1>1, <1>2, SeenSelf
  <2>5. QED
    BY <2>1, <2>2, <2>3, <2>4
<1>6. PICK d \in Thread : d = [c EXCEPT !.held = "split", !.pc = "split_strip"]
  <2>1. "split_strip" \in Pcs
    BY MidPcs
  <2>2. QED
    BY <2>1, ThreadHeld
<1>7. SameLock(c, d) /\ d.pc = "split_strip" /\ d.other = c.other /\ d.i = c.i /\ d.p = c.p /\ d.held = "split" /\ d.state = c.state
  BY <1>6 DEF Thread, SameLock
<1>8. t'[p] = d /\ t' \in [Procs -> Thread] /\ \A q \in Procs \ {p} : t'[q] = Seen(c.node, "split")[q]
  <2>1. t' = [T EXCEPT ![p] = d]
    BY <1>4, <1>5, <1>6
  <2>2. QED
    BY <1>5, <2>1
<1>9. d.node = c.node /\ d.op = c.op /\ d.key = c.key
  BY <1>7 DEF SameLock
<1>10. \A q \in Procs : t'[q].node = c.node => t'[q].held = "split"
  <2>1. ThreadFrame(p) /\ \A q \in Procs \ {p} : t[q].node = c.node => t'[q].held = "split"
    BY <1>2, <1>4, <1>8, SeenFrame
  <2>2. \A q \in Procs \ {p} : t'[q].node = t[q].node
    <3>1. TypeOK'
      BY <1>2, <1>4, <1>8 DEF TypeOK, LeafTypeOK
    <3>2. QED
      BY <1>2, <2>1, <3>1, FrameThread DEF Later
  <2>3. QED
    BY <1>7, <1>8, <2>1, <2>2
<1>11. ASSUME Quiet PROVE ThreadOK(t[p])'
  <2>1. KeyOK(d) /\ HomeOK(d) /\ Ikey(d) = Ikey(c) /\ (HasSuffix(d) <=> HasSuffix(c))
        /\ \A s : Compare(d, s) = Compare(c, s)
    BY <1>1, <1>2, <1>3, <1>7, LockKey
  <2>2. KeyOK(d)'
    BY <1>4, <2>1 DEF KeyOK
  <2>3. HomeOK(d)'
    BY <1>2, <1>4, <1>9, <1>11, <2>1, QuietHome
  <2>4. Position(d)
    BY <1>3, <1>7, <1>9, <2>1 DEF MidOK, Position
  <2>5. Position(d)'
    BY <1>4, <2>4 DEF Position, At
  <2>6. \A s : SlotIs(c, s) => SlotIs(d, s)
    BY <1>7, <2>1 DEF SlotIs, SameLock
  <2>7. \A s : SlotIs(d, s) => SlotIs(d, s)'
    BY DEF SlotIs, Ikey, HasSuffix
  <2>8. MidOK(d)'
    <3>1. c.node \in dirty'
      BY <1>4
    <3>2. \A n, j : At(n, j)' = At(n, j)
      BY <1>4 DEF At
    <3>3. Ikey(d)' = Ikey(c)
      BY <2>1 DEF Ikey
    <3>4. QED
      BY <1>1, <1>3, <1>4, <1>7, <1>9, <1>10, <2>5, <2>6, <2>7, <3>1, <3>2, <3>3 DEF MidOK
  <2>9. LockOK(d)'
    BY <1>1, <1>3, <1>4, <1>7, <1>9, <2>3, <2>8, MidPcs DEF LockOK
  <2>10. ThreadOK(d)'
    BY <1>1, <1>2, <1>7, <2>2, <2>9, MidPcs, HolderOK
  <2>11. QED
    BY <1>8, <2>10
<1>12. c.pc \in LockPc /\ c.pc \notin {"gc_lock", "split_tree"} \cup TurnPc \cup UnlinkPc /\ c.pc \in MidPc
       /\ d.pc \in LockPc /\ d.pc \notin {"gc_lock"} \cup TurnPc /\ d.pc \in MidPc
  BY <1>1, <1>7, MidPcs
<1>13. modstate' \in [Leaves -> {"insert", "remove", "deleted_layer"}]
  BY <1>2, <1>4 DEF TypeOK, LeafTypeOK
<1>14. QED
  BY <1>1, <1>2, <1>4, <1>7, <1>8, <1>9, <1>11, <1>12, <1>13, HeldStep

-----------------------------------------------------------------------------
(* The free slot at the back is filled before it is published.             *)

FillPc == AssignPc \cup StorePc

LEMMA FillPcs ==
  /\ FillPc \subseteq LockPc /\ FillPc \subseteq Pcs /\ AssignPc \subseteq FillPc /\ StorePc \subseteq FillPc
  /\ \A u \in FillPc : /\ u \notin MidPc \cup TurnPc \cup UnlinkPc \cup {"split_tree"} /\ u # "gc_lock" /\ u # "found"
                       /\ u \notin DeletePc \cup {"unlock"} /\ u \notin LayerPc /\ u # "remove"
                       /\ u \notin MidPc /\ u \notin TurnPc
  /\ AssignPc \subseteq OtherPc
  /\ "assign_lv" \in AssignPc /\ "assign_ikey" \in AssignPc /\ "assign_keylenx" \in AssignPc /\ "assign_ksuf" \in AssignPc
  /\ "store" \in StorePc /\ "release" \in StorePc /\ "publish" \in StorePc
  /\ "store" \notin AssignPc /\ "release" \notin AssignPc /\ "publish" \notin AssignPc
  /\ "store" \notin OtherPc /\ "publish" \notin OtherPc /\ "release" \in OtherPc
BY DEF FillPc, LockPc, MidPc, TurnPc, UnlinkPc, AssignPc, StorePc, LayerPc, DeletePc, OtherPc, Pcs

(* A free slot is in no search's permutation while the leaf takes inserts. *)
LEMMA ReadsLive ==
  ASSUME NEW c, NEW pm, PermLe(c, pm), NEW j \in Index(c)
  PROVE  \E i \in Index(pm) : pm.slot[i] = c.slot[j]
BY DEF PermLe

(* The thread fills the free slot at the back of its leaf's permutation.   *)
Filling(p, c, d) ==
  /\ c = t[p]
  /\ c.pc \in FillPc
  /\ d.pc \in FillPc
  /\ SameLock(c, d)
  /\ d.i = c.i
  /\ d.p = c.p
  /\ d.other = c.other
  /\ d.held = c.held
  /\ t' = [t EXCEPT ![p] = d]
  /\ slot' \in [Leaves -> [Slots -> Slot]]
  /\ \A n \in Leaves : n # c.node => slot'[n] = slot[n]
  /\ \A j \in Index(perm[c.node]) :
         slot'[c.node][perm[c.node].slot[j]] = slot[c.node][perm[c.node].slot[j]]
  /\ \A s \in Slots : s # c.p => slot'[c.node][s].ikey = slot[c.node][s].ikey
  /\ slot'[c.node][c.p].ikey \in {slot[c.node][c.p].ikey, Ikey(c)}
  /\ UNCHANGED <<perm, modstate, locked, dirty, deleted, layer, low, next, prev, layers, gcs, scene, ops, db>>
  /\ d.pc \in {"assign_keylenx", "assign_ksuf"} => slot'[c.node][c.p].ikey = Ikey(c)
  /\ d.pc = "assign_ksuf" => HasSuffix(c) /\ slot'[c.node][c.p].kind = "ksuf"
  /\ d.pc \in StorePc => SlotIs(c, slot'[c.node][c.p])
  /\ d.pc = "publish" => slot'[c.node][c.p].lv = c.val
  /\ d.pc = "release" => c.other # None
  /\ d.pc \notin OtherPc => c.other = None

LEMMA FillStep ==
  ASSUME IInv, NEW p \in Procs, NEW c \in Thread, NEW d \in Thread,
         Filling(p, c, d)
  PROVE  IInv'
<1>a. /\ c = t[p]
      /\ c.pc \in FillPc
      /\ d.pc \in FillPc
      /\ SameLock(c, d)
  BY DEF Filling
<1>e. /\ d.i = c.i
      /\ d.p = c.p
      /\ d.other = c.other
      /\ d.held = c.held
      /\ t' = [t EXCEPT ![p] = d]
  BY DEF Filling
<1>b. /\ slot' \in [Leaves -> [Slots -> Slot]]
      /\ (\A n \in Leaves : n # c.node => slot'[n] = slot[n])
      /\ (\A j \in Index(perm[c.node]) :
             slot'[c.node][perm[c.node].slot[j]] = slot[c.node][perm[c.node].slot[j]])
      /\ (\A s \in Slots : s # c.p => slot'[c.node][s].ikey = slot[c.node][s].ikey)
      /\ slot'[c.node][c.p].ikey \in {slot[c.node][c.p].ikey, Ikey(c)}
  BY DEF Filling
<1>u. UNCHANGED <<perm, modstate, locked, dirty, deleted, layer, low, next, prev, layers, gcs, scene, ops, db>>
  BY DEF Filling
<1>d. /\ (d.pc \in {"assign_keylenx", "assign_ksuf"} => slot'[c.node][c.p].ikey = Ikey(c))
      /\ (d.pc = "assign_ksuf" => HasSuffix(c) /\ slot'[c.node][c.p].kind = "ksuf")
      /\ (d.pc \in StorePc => SlotIs(c, slot'[c.node][c.p]))
      /\ (d.pc = "publish" => slot'[c.node][c.p].lv = c.val)
      /\ (d.pc = "release" => c.other # None)
      /\ (d.pc \notin OtherPc => c.other = None)
  BY DEF Filling
<1>1. /\ TypeOK /\ t \in [Procs -> Thread] /\ KeyOK(c) /\ LockOK(c) /\ c.op # "get"
      /\ c.node \in Leaves /\ locked[c.node] = p
      /\ Alloc(c.node) /\ c.other # c.node
      /\ c.other # None => c.other \in Leaves /\ Alloc(c.other)
      /\ modstate[c.node] # "deleted_layer"
  BY <1>a, LockMine, FillPcs
<1>2. HomeOK(c) /\ NewOK(c) /\ c.node \notin deleted
  BY <1>a, <1>1, FillPcs DEF LockOK, FillPc
<1>3. PICK n \in Leaves : n = c.node
  BY <1>1
<1>4. d.node = n /\ d.key = c.key /\ d.op = c.op /\ d.depth = c.depth /\ d.val = c.val
  BY <1>a, <1>3 DEF SameLock
<1>5. ThreadFrame(p) /\ t'[p] = d /\ \A q \in Procs \ {p} : t'[q] = t[q]
  BY <1>a, <1>e, <1>u, <1>1, OneFrame
<1>6. TypeOK'
  <2>1. t' \in [Procs -> Thread]
    BY <1>a, <1>e, <1>1
  <2>2. QED
    BY <1>b, <1>u, <1>1, <2>1 DEF TypeOK, LeafTypeOK
<1>7. LockInv' /\ LocksFrame(p)
  <2>1. /\ t[p].pc \in LockPc /\ t'[p].pc \in LockPc /\ t[p].pc # "gc_lock" /\ t'[p].pc # "gc_lock"
        /\ t'[p].node = t[p].node /\ t'[p].other = t[p].other /\ t'[p].held = t[p].held
    BY <1>a, <1>e, <1>3, <1>4, <1>5, FillPcs
  <2>2. QED
    BY <1>u, <1>5, <1>6, <2>1, KeepLocks
<1>8. Confined(p) /\ NodeKept(p)
  <2>1. \A m \in Leaves : locked[m] \in Procs \ {p} => m # c.node
    BY <1>1
  <2>2. QED
    BY <1>b, <1>u, <1>1, <1>3, <1>4, <1>5, <2>1 DEF Confined, NodeKept
<1>9. /\ t[p].pc \notin MidPc /\ t'[p].pc \notin MidPc /\ t[p].pc \notin TurnPc /\ t'[p].pc \notin TurnPc
      /\ t[p].pc \notin UnlinkPc \cup {"split_tree"}
  BY <1>a, <1>5, FillPcs
<1>10. \A m \in Leaves : Splitting(m)' <=> Splitting(m)
  BY <1>1, <1>5, <1>6, <1>7, <1>9, SplittingSame
<1>11. perm[n] \in Permuters /\ Injective(perm[n]) /\ perm[n].size < Width /\ c.p = Back(perm[n]) /\ c.p \in Slots
       /\ modstate[n] = "insert"
  BY <1>1, <1>2, <1>3, LeafType, PermuterType DEF NewOK, IInv, StoreInv, SortInv
<1>12. \A m \in Leaves : Entries(m)' = Entries(m)
  <2>1. SUFFICES ASSUME NEW m \in Leaves PROVE Entries(m)' = Entries(m)
    OBVIOUS
  <2>2. \A i \in Index(perm[m]) : slot'[m][perm[m].slot[i]] = slot[m][perm[m].slot[i]]
    BY <1>b
  <2>3. QED
    BY <1>u, <1>5, <1>6, <1>7, <1>9, <2>2, EntriesSame
<1>13. ReadFrame(p)
  <2>1. \A q \in Procs \ {p} : t[q].pc \in ReadPc => t[q].node \in Leaves
    BY SearchMine, PcFacts
  <2>2. SUFFICES ASSUME NEW q \in Procs \ {p}, t[q].pc \in ReadPc, Regime(t[q])
                 PROVE  \A j \in Index(t[q].perm) :
                          slot'[t[q].node][t[q].perm.slot[j]] = slot[t[q].node][t[q].perm.slot[j]]
    BY <1>u, <1>1, <1>5, <1>6, <2>1, ReadsFrame DEF ReadsKept, PermSame
  <2>3. CASE t[q].node # n
    BY <1>b, <1>3, <2>1, <2>2, <2>3
  <2>4. CASE t[q].node = n
    <3>1. PermLe(t[q].perm, perm[n])
      BY <1>11, <2>2, <2>4 DEF Regime
    <3>2. \A j \in Index(t[q].perm) : \E i \in Index(perm[n]) : perm[n].slot[i] = t[q].perm.slot[j]
      BY <3>1, ReadsLive
    <3>3. QED
      BY <1>b, <1>3, <2>4, <3>2
  <2>5. QED
    BY <2>3, <2>4
<1>14. DeadInv'
  BY <1>u, DeadSame
<1>15. BoundInv'
  <2>1. BoundInv
    BY DEF IInv, StoreInv
  <2>2. ASSUME NEW m \in Leaves, prev[m] # None PROVE slot'[m][0].ikey = low[m]
    <3>1. slot[m][0].ikey = low[m] /\ 0 \in Slots
      BY <2>1, <2>2, WidthFacts DEF BoundInv
    <3>2. CASE m # n
      BY <1>b, <1>3, <3>1, <3>2
    <3>3. CASE m = n /\ c.p # 0
      BY <1>b, <1>3, <3>1, <3>3
    <3>4. CASE m = n /\ c.p = 0
      <4>1. low[m] = Ikey(c)
        BY <1>2, <1>3, <2>2, <3>4 DEF NewOK
      <4>2. QED
        BY <1>b, <1>3, <3>1, <3>4, <4>1
    <3>5. QED
      BY <3>2, <3>3, <3>4
  <2>3. QED
    BY <1>u, <2>1, <2>2 DEF BoundInv
<1>16. SortInv'
  <2>1. ASSUME NEW m \in Leaves PROVE Injective(perm[m]) /\ SortedBy(m, perm[m])'
    <3>1. Injective(perm[m]) /\ SortedBy(m, perm[m])
      BY DEF IInv, StoreInv, SortInv
    <3>2. \A i \in Index(perm[m]) : slot'[m][perm[m].slot[i]] = slot[m][perm[m].slot[i]]
      BY <1>b
    <3>3. QED
      BY <1>u, <3>1, <3>2 DEF SortedBy
  <2>2. QED
    BY <1>u, <2>1 DEF SortInv, Injective
<1>17. Quiet => LeftInv'
  <2>1. \A m \in Leaves : perm[m].size = 0 => At(m, 0)'.ikey = At(m, 0).ikey
    <3>1. SUFFICES ASSUME perm[n].size = 0 PROVE At(n, 0)'.ikey = At(n, 0).ikey
      BY <1>b, <1>u, <1>3 DEF At
    <3>2. perm[n].slot[0] \in Slots /\ perm[n].slot[0] # perm[n].slot[Width - 1]
      BY <1>11, WidthFacts, PermuterType DEF Injective
    <3>3. perm[n].slot[0] # c.p
      BY <1>11, <3>2 DEF Back
    <3>4. QED
      BY <1>b, <1>u, <1>3, <3>2, <3>3 DEF At
  <2>2. QED
    BY <1>u, <2>1, LeftSame
<1>18. ASSUME Quiet PROVE ThreadOK(t[p])'
  <2>1. KeyOK(d) /\ HomeOK(d) /\ Ikey(d) = Ikey(c) /\ (HasSuffix(d) <=> HasSuffix(c))
        /\ \A s : Compare(d, s) = Compare(c, s)
    BY <1>a, <1>1, <1>2, FillPcs, PcFacts, LockKey
  <2>2. KeyOK(d)'
    BY <1>u, <2>1 DEF KeyOK
  <2>3. HomeOK(d)'
    BY <1>u, <1>1, <1>4, <1>18, <2>1, QuietHome
  <2>4. Position(d)'
    <3>1. Position(c)
      BY <1>2 DEF NewOK
    <3>2. \A j \in Index(perm[n]) : At(n, j)' = At(n, j)
      BY <1>b, <1>u, <1>3 DEF At
    <3>3. \A s : Compare(d, s)' = Compare(d, s)
      BY DEF Compare, Ikey, HasSuffix
    <3>4. QED
      BY <1>a, <1>e, <1>u, <1>3, <1>4, <2>1, <3>1, <3>2, <3>3 DEF Position
  <2>5. d.pc \in StorePc => SlotIs(d, slot[d.node][d.p])'
    BY <1>a, <1>b, <1>e, <1>u, <1>d, <1>3, <1>4, <2>1 DEF SlotIs, Ikey, HasSuffix
  <2>6. NewOK(d)'
    <3>1. Ikey(d)' = Ikey(c) /\ (HasSuffix(d)' <=> HasSuffix(c))
      BY <2>1 DEF Ikey, HasSuffix
    <3>2. /\ d.op = "put" /\ modstate'[d.node] = "insert" /\ (perm[d.node].size < Width)'
          /\ (d.p = Back(perm[d.node]))' /\ (d.other # None => perm[d.other].size > 0)'
      BY <1>a, <1>e, <1>u, <1>2 DEF NewOK, SameLock
    <3>3. (d.p = 0 => prev[d.node] = None \/ low[d.node] = Ikey(d))'
      BY <1>a, <1>e, <1>u, <1>2, <3>1 DEF NewOK, SameLock
    <3>4. /\ (d.pc \in {"assign_keylenx", "assign_ksuf"} => slot[d.node][d.p].ikey = Ikey(d))'
          /\ (d.pc = "assign_ksuf" => HasSuffix(d) /\ slot[d.node][d.p].kind = "ksuf")'
          /\ (d.pc = "publish" => slot[d.node][d.p].lv = d.val)' /\ (d.pc = "release" => d.other # None)
      BY <1>a, <1>e, <1>d, <3>1 DEF SameLock
    <3>5. QED
      BY <2>4, <2>5, <3>2, <3>3, <3>4 DEF NewOK
  <2>7. LockOK(d)'
    <3>1. d.pc \notin DeletePc \cup {"unlock"} /\ d.pc # "found" /\ d.pc \notin LayerPc /\ d.pc \notin MidPc /\ d.pc # "remove"
          /\ d.pc # "gc_lock" /\ d.pc \notin DeletePc /\ d.pc # "unlock"
      BY <1>a, FillPcs
    <3>2. QED
      BY <1>u, <1>2, <1>3, <1>4, <2>3, <2>6, <3>1 DEF LockOK
  <2>8. ThreadOK(d)'
    BY <1>a, <1>b, <1>e, <1>u, <1>d, <2>2, <2>7, FillPcs, HolderOK
  <2>9. QED
    BY <1>5, <2>8
<1>19. /\ t'[p].node # None => Alloc(t'[p].node)
       /\ t'[p].other # None => Alloc(t'[p].other)
  BY <1>a, <1>e, <1>1, <1>3, <1>4, <1>5
<1>20. QED
  BY <1>u, <1>5, <1>6, <1>7, <1>8, <1>9, <1>10, <1>12, <1>13, <1>14, <1>15, <1>16, <1>17, <1>18, <1>19, StayStep

LEMMA FillMine ==
  ASSUME IInv, NEW p \in Procs, t[p].pc \in FillPc
  PROVE  /\ TypeOK /\ t[p] \in Thread /\ t \in [Procs -> Thread] /\ KeyOK(t[p]) /\ NewOK(t[p])
         /\ t[p].node \in Leaves /\ t[p].p \in Slots /\ slot[t[p].node][t[p].p] \in Slot
         /\ slot \in [Leaves -> [Slots -> Slot]]
         /\ \A j \in Index(perm[t[p].node]) :
              perm[t[p].node].slot[j] \in Slots /\ perm[t[p].node].slot[j] # t[p].p
         /\ t[p].pc \notin OtherPc => t[p].other = None
         /\ HomeOK(t[p]) /\ locked[t[p].node] = p
         /\ perm[t[p].node] \in Permuters /\ Injective(perm[t[p].node])
<1>1. PICK c \in Thread : c = t[p] /\ c.pc \in FillPc
  BY Mine
<1>2. /\ TypeOK /\ t \in [Procs -> Thread] /\ KeyOK(c) /\ LockOK(c) /\ c.node \in Leaves
      /\ (c.pc \notin OtherPc => c.other = None) /\ locked[c.node] = p
  BY <1>1, LockMine, FillPcs
<1>3. NewOK(c) /\ HomeOK(c)
  BY <1>1, <1>2, FillPcs DEF LockOK, FillPc
<1>4. perm[c.node] \in Permuters /\ Injective(perm[c.node]) /\ perm[c.node].size < Width /\ c.p = Back(perm[c.node])
  BY <1>2, <1>3, LeafType DEF NewOK, IInv, StoreInv, SortInv
<1>5. c.p \in Slots /\ \A j \in Index(perm[c.node]) : perm[c.node].slot[j] \in Slots /\ perm[c.node].slot[j] # c.p
  BY <1>4, PermuterType, BackFree
<1>6. slot \in [Leaves -> [Slots -> Slot]] /\ slot[c.node][c.p] \in Slot
  BY <1>2, <1>5 DEF TypeOK, LeafTypeOK
<1>7. QED
  BY <1>1, <1>2, <1>3, <1>4, <1>5, <1>6

LEMMA OneSlot ==
  ASSUME slot \in [Leaves -> [Slots -> Slot]], NEW n \in Leaves, NEW s \in Slots, NEW x \in Slot,
         slot' = [slot EXCEPT ![n] = [slot[n] EXCEPT ![s] = x]]
  PROVE  /\ slot' \in [Leaves -> [Slots -> Slot]] /\ slot'[n][s] = x
         /\ \A m \in Leaves : m # n => slot'[m] = slot[m]
         /\ \A r \in Slots : r # s => slot'[n][r] = slot[n][r]
<1>1. [slot[n] EXCEPT ![s] = x] \in [Slots -> Slot]
  OBVIOUS
<1>2. PICK f \in [Slots -> Slot] : f = [slot[n] EXCEPT ![s] = x]
  BY <1>1
<1>3. slot' = [slot EXCEPT ![n] = f]
  BY <1>2
<1>4. f[s] = x /\ \A r \in Slots : r # s => f[r] = slot[n][r]
  BY <1>2
<1>5. QED
  BY <1>3, <1>4

(* One slot is written, in its free slot.                                  *)
LEMMA FillSlot ==
  ASSUME IInv, NEW p \in Procs, NEW c \in Thread, c = t[p], c.pc \in FillPc,
         NEW u \in FillPc, t' = [t EXCEPT ![p].pc = u],
         NEW x \in Slot, slot' = [slot EXCEPT ![c.node] = [slot[c.node] EXCEPT ![c.p] = x]],
         x.ikey \in {slot[c.node][c.p].ikey, Ikey(c)},
         UNCHANGED <<perm, modstate, locked, dirty, deleted, layer, low, next, prev, layers, gcs, scene, ops, db>>,
         u \in {"assign_keylenx", "assign_ksuf"} => x.ikey = Ikey(c),
         u = "assign_ksuf" => HasSuffix(c) /\ x.kind = "ksuf",
         u \in StorePc => SlotIs(c, x),
         u = "publish" => x.lv = c.val,
         u = "release" => c.other # None,
         u \notin OtherPc => c.other = None
  PROVE  IInv'
<1>1. /\ TypeOK /\ t \in [Procs -> Thread] /\ KeyOK(c) /\ NewOK(c) /\ c.node \in Leaves /\ c.p \in Slots
      /\ slot \in [Leaves -> [Slots -> Slot]]
      /\ \A j \in Index(perm[c.node]) : perm[c.node].slot[j] \in Slots /\ perm[c.node].slot[j] # c.p
  BY FillMine
<1>2. /\ slot' \in [Leaves -> [Slots -> Slot]] /\ slot'[c.node][c.p] = x
      /\ \A m \in Leaves : m # c.node => slot'[m] = slot[m]
      /\ \A r \in Slots : r # c.p => slot'[c.node][r] = slot[c.node][r]
  BY <1>1, OneSlot
<1>3. PICK d \in Thread : d = [c EXCEPT !.pc = u]
  BY ThreadPc, FillPcs
<1>4. SameLock(c, d) /\ d.pc = u /\ d.i = c.i /\ d.p = c.p /\ d.other = c.other /\ d.held = c.held
  BY <1>3 DEF Thread, SameLock
<1>5. t' = [t EXCEPT ![p] = d]
  BY <1>3
<1>6. \A j \in Index(perm[c.node]) : slot'[c.node][perm[c.node].slot[j]] = slot[c.node][perm[c.node].slot[j]]
  BY <1>1, <1>2
<1>7. \A s \in Slots : s # c.p => slot'[c.node][s].ikey = slot[c.node][s].ikey
  BY <1>2
<1>8. /\ slot'[c.node][c.p].ikey \in {slot[c.node][c.p].ikey, Ikey(c)}
      /\ d.pc \in {"assign_keylenx", "assign_ksuf"} => slot'[c.node][c.p].ikey = Ikey(c)
      /\ d.pc = "assign_ksuf" => HasSuffix(c) /\ slot'[c.node][c.p].kind = "ksuf"
      /\ d.pc \in StorePc => SlotIs(c, slot'[c.node][c.p])
      /\ d.pc = "publish" => slot'[c.node][c.p].lv = c.val
      /\ d.pc = "release" => c.other # None
      /\ d.pc \notin OtherPc => c.other = None
      /\ d.pc \in FillPc
  BY <1>2, <1>4
<1>9. Filling(p, c, d)
  BY <1>2, <1>4, <1>5, <1>6, <1>7, <1>8 DEF Filling
<1>10. QED
  BY <1>9, FillStep

LEMMA SlotLv ==
  ASSUME NEW s \in Slot, NEW v \in Int \cup Layers
  PROVE  [s EXCEPT !.lv = v] \in Slot
BY DEF Slot

LEMMA AssignLvStep ==
  ASSUME IInv, NEW p \in Procs, AssignLv(p)
  PROVE  IInv'
<1>1. PICK c \in Thread : c = t[p] /\ c.pc = "assign_lv"
  BY Mine DEF AssignLv
<1>2. /\ c.node \in Leaves /\ c.p \in Slots /\ slot[c.node][c.p] \in Slot
  BY <1>1, FillMine, FillPcs
<1>3. PICK x \in Slot : x = [slot[c.node][c.p] EXCEPT !.lv = Empty]
  <2>1. Empty \in Int \cup Layers
    BY DEF Empty
  <2>2. QED
    BY <1>2, <2>1, SlotLv
<1>4. x.ikey = slot[c.node][c.p].ikey
  BY <1>2, <1>3 DEF Slot
<1>5. slot' = [slot EXCEPT ![c.node] = [slot[c.node] EXCEPT ![c.p] = x]]
  BY <1>1, <1>3 DEF AssignLv
<1>6. t' = [t EXCEPT ![p].pc = "assign_ikey"] /\ "assign_ikey" \in FillPc /\ c.pc \in FillPc
      /\ UNCHANGED <<perm, modstate, locked, dirty, deleted, layer, low, next, prev, layers, gcs, scene, ops, db>>
      /\ "assign_ikey" \notin StorePc /\ "assign_ikey" \in OtherPc
  BY <1>1, FillPcs DEF AssignLv, StorePc
<1>7. QED
  BY <1>1, <1>4, <1>5, <1>6, FillSlot

LEMMA AssignIkeyStep ==
  ASSUME IInv, NEW p \in Procs, AssignIkey(p)
  PROVE  IInv'
<1>1. PICK c \in Thread : c = t[p] /\ c.pc = "assign_ikey"
  BY Mine DEF AssignIkey
<1>2. /\ c.node \in Leaves /\ c.p \in Slots /\ slot[c.node][c.p] \in Slot /\ KeyOK(c) /\ Ikey(c) \in Nat
  BY <1>1, FillMine, FillPcs, IkeyType
<1>3. PICK x \in Slot : x = [slot[c.node][c.p] EXCEPT !.ikey = Ikey(c)]
  BY <1>2 DEF Slot
<1>4. x.ikey = Ikey(c)
  BY <1>2, <1>3 DEF Slot
<1>5. slot' = [slot EXCEPT ![c.node] = [slot[c.node] EXCEPT ![c.p] = x]]
  BY <1>1, <1>3 DEF AssignIkey
<1>6. t' = [t EXCEPT ![p].pc = "assign_keylenx"] /\ "assign_keylenx" \in FillPc /\ c.pc \in FillPc
      /\ UNCHANGED <<perm, modstate, locked, dirty, deleted, layer, low, next, prev, layers, gcs, scene, ops, db>>
      /\ "assign_keylenx" \notin StorePc /\ "assign_keylenx" \in OtherPc
  BY <1>1, FillPcs DEF AssignIkey, StorePc
<1>7. QED
  BY <1>1, <1>4, <1>5, <1>6, FillSlot

LEMMA AssignKeylenxStep ==
  ASSUME IInv, NEW p \in Procs, AssignKeylenx(p)
  PROVE  IInv'
<1>1. PICK c \in Thread : c = t[p] /\ c.pc = "assign_keylenx"
  BY Mine DEF AssignKeylenx
<1>2. /\ c.node \in Leaves /\ c.p \in Slots /\ slot[c.node][c.p] \in Slot /\ KeyOK(c) /\ NewOK(c)
      /\ slot[c.node][c.p].ikey = Ikey(c) /\ c.pc \in FillPc
  BY <1>1, FillMine, FillPcs DEF NewOK
<1>3. PICK k \in {"plain", "ksuf", "layer"} : k = IF HasSuffix(c) THEN "ksuf" ELSE "plain"
  OBVIOUS
<1>4. PICK x \in Slot : x = [slot[c.node][c.p] EXCEPT !.kind = k]
  BY <1>2 DEF Slot
<1>5. x.ikey = Ikey(c) /\ x.kind = k
  BY <1>2, <1>4 DEF Slot
<1>6. slot' = [slot EXCEPT ![c.node] = [slot[c.node] EXCEPT ![c.p] = x]]
  BY <1>1, <1>3, <1>4 DEF AssignKeylenx
<1>7. UNCHANGED <<perm, modstate, locked, dirty, deleted, layer, low, next, prev, layers, gcs, scene, ops, db>>
  BY DEF AssignKeylenx
<1>8. CASE HasSuffix(c)
  <2>1. t' = [t EXCEPT ![p].pc = "assign_ksuf"]
    BY <1>1, <1>8 DEF AssignKeylenx
  <2>2. "assign_ksuf" \in FillPc /\ "assign_ksuf" \notin StorePc /\ "assign_ksuf" \in OtherPc
    BY FillPcs DEF StorePc
  <2>3. QED
    BY <1>1, <1>2, <1>3, <1>5, <1>6, <1>7, <1>8, <2>1, <2>2, FillSlot
<1>9. CASE ~HasSuffix(c)
  <2>1. PICK u \in {"store", "release"} : u = IF c.other = None THEN "store" ELSE "release"
    OBVIOUS
  <2>2. t' = [t EXCEPT ![p].pc = u]
    BY <1>1, <1>9, <2>1 DEF AssignKeylenx, Assigned
  <2>3. u \in FillPc /\ u \in StorePc /\ (u \notin OtherPc => u = "store") /\ u # "publish"
    BY FillPcs
  <2>4. SlotIs(c, x)
    BY <1>3, <1>5, <1>9 DEF SlotIs
  <2>5. QED
    BY <1>1, <1>2, <1>5, <1>6, <1>7, <2>1, <2>2, <2>3, <2>4, FillSlot
<1>10. QED
  BY <1>8, <1>9

LEMMA StoreNewStep ==
  ASSUME IInv, NEW p \in Procs, StoreNew(p)
  PROVE  IInv'
<1>1. PICK c \in Thread : c = t[p] /\ c.pc = "store"
  BY Mine DEF StoreNew
<1>2. /\ c.node \in Leaves /\ c.p \in Slots /\ slot[c.node][c.p] \in Slot /\ KeyOK(c) /\ NewOK(c)
      /\ SlotIs(c, slot[c.node][c.p]) /\ c.pc \in FillPc /\ c.other = None
  BY <1>1, FillMine, FillPcs DEF NewOK
<1>3. c.val \in Int \cup Layers
  BY ThreadType
<1>4. PICK x \in Slot : x = [slot[c.node][c.p] EXCEPT !.lv = c.val]
  BY <1>2, <1>3 DEF Slot
<1>5. x.ikey = slot[c.node][c.p].ikey /\ x.kind = slot[c.node][c.p].kind /\ x.suf = slot[c.node][c.p].suf /\ x.lv = c.val
  BY <1>2, <1>4 DEF Slot
<1>6. SlotIs(c, x)
  BY <1>2, <1>5 DEF SlotIs
<1>7. slot' = [slot EXCEPT ![c.node] = [slot[c.node] EXCEPT ![c.p] = x]]
  BY <1>1, <1>4 DEF StoreNew
<1>8. t' = [t EXCEPT ![p].pc = "publish"] /\ "publish" \in FillPc
      /\ UNCHANGED <<perm, modstate, locked, dirty, deleted, layer, low, next, prev, layers, gcs, scene, ops, db>>
      /\ "publish" \in StorePc /\ "publish" \notin OtherPc
  BY <1>1, FillPcs DEF StoreNew
<1>9. x.ikey = Ikey(c)
  BY <1>6 DEF SlotIs
<1>10. QED
  BY <1>1, <1>2, <1>5, <1>6, <1>7, <1>8, <1>9, FillSlot

LEMMA SufSlot ==
  ASSUME NEW s \in Slot, NEW v \in Nat
  PROVE  /\ [s EXCEPT !.suf = v] \in Slot /\ [s EXCEPT !.suf = v].suf = v
         /\ [s EXCEPT !.suf = v].ikey = s.ikey /\ [s EXCEPT !.suf = v].kind = s.kind
BY DEF Slot

LEMMA AssignKsufStep ==
  ASSUME IInv, NEW p \in Procs, AssignKsuf(p)
  PROVE  IInv'
<1>1. PICK c \in Thread : c = t[p] /\ c.pc = "assign_ksuf"
  BY Mine DEF AssignKsuf
<1>2. /\ TypeOK /\ t \in [Procs -> Thread] /\ KeyOK(c) /\ NewOK(c) /\ c.node \in Leaves /\ c.p \in Slots
      /\ slot \in [Leaves -> [Slots -> Slot]] /\ c.pc \in FillPc
      /\ \A j \in Index(perm[c.node]) : perm[c.node].slot[j] \in Slots /\ perm[c.node].slot[j] # c.p
  BY <1>1, FillMine, FillPcs
<1>3. /\ slot[c.node][c.p].ikey = Ikey(c) /\ HasSuffix(c) /\ slot[c.node][c.p].kind = "ksuf"
  BY <1>1, <1>2 DEF NewOK
<1>4. PICK v \in Nat : v = c.key[c.depth + 1]
  <2>1. c.depth = 1 /\ Len(c.key) = 2 /\ c.key[2] \in Nat
    BY <1>2, <1>3, IkeyType
  <2>2. c.depth + 1 = 2
    BY <2>1
  <2>3. QED
    BY <2>1, <2>2, Zenon
<1>5. PICK n \in Leaves, s \in Slots : n = c.node /\ s = c.p
  BY <1>2
<1>6. PICK x \in Slot : x = [slot[n][s] EXCEPT !.suf = v] /\ x.ikey = Ikey(c) /\ x.kind = "ksuf" /\ x.suf = v
  <2>1. slot[n][s] \in Slot /\ slot[n][s].ikey = Ikey(c) /\ slot[n][s].kind = "ksuf"
    BY <1>2, <1>3, <1>5
  <2>2. PICK old \in Slot : old = slot[n][s]
    BY <2>1
  <2>3. /\ [old EXCEPT !.suf = v] \in Slot /\ [old EXCEPT !.suf = v].suf = v
        /\ [old EXCEPT !.suf = v].ikey = old.ikey /\ [old EXCEPT !.suf = v].kind = old.kind
    BY SufSlot, Zenon
  <2>4. QED
    BY <2>1, <2>2, <2>3, Zenon
<1>7. PICK stored \in [Slots -> Slot] : stored = [slot[n] EXCEPT ![s] = x]
  BY <1>2
<1>8. PICK copied \in [Slots -> Slot] :
        copied = [r \in Slots |-> IF r = s \/ r \in Live(perm[n]) THEN stored[r]
                                  ELSE [stored[r] EXCEPT !.suf = 0]]
  <2>1. \A r \in Slots : [stored[r] EXCEPT !.suf = 0] \in Slot
    BY SufSlot
  <2>2. QED
    BY <2>1
<1>9. PICK bag \in {stored, copied} : slot' = [slot EXCEPT ![n] = bag]
  <2>1. stored = [slot[n] EXCEPT ![s].suf = v]
    BY <1>6, <1>7
  <2>2. PICK A : A = [slot[t[p].node] EXCEPT ![t[p].p].suf = t[p].key[t[p].depth + 1]]
    OBVIOUS
  <2>3. PICK B : B = [r \in Slots |-> IF r = t[p].p \/ r \in Live(perm[t[p].node]) THEN [slot[t[p].node] EXCEPT ![t[p].p].suf = t[p].key[t[p].depth + 1]][r]
                                     ELSE [[slot[t[p].node] EXCEPT ![t[p].p].suf = t[p].key[t[p].depth + 1]][r] EXCEPT !.suf = 0]]
    OBVIOUS
  <2>4. \E bag \in {A, B} : slot' = [slot EXCEPT ![t[p].node] = bag]
    <3>1. \E bag \in {[slot[t[p].node] EXCEPT ![t[p].p].suf = t[p].key[t[p].depth + 1]],
                     [r \in Slots |-> IF r = t[p].p \/ r \in Live(perm[t[p].node]) THEN [slot[t[p].node] EXCEPT ![t[p].p].suf = t[p].key[t[p].depth + 1]][r]
                                      ELSE [[slot[t[p].node] EXCEPT ![t[p].p].suf = t[p].key[t[p].depth + 1]][r] EXCEPT !.suf = 0]]} :
            slot' = [slot EXCEPT ![t[p].node] = bag]
      BY Zenon DEF AssignKsuf
    <3>2. QED
      BY <2>2, <2>3, <3>1, Zenon
  <2>5. t[p].node = n /\ t[p].p = s /\ t[p].key[t[p].depth + 1] = v
    BY <1>1, <1>4, <1>5, Zenon
  <2>6. A = stored
    BY <2>1, <2>2, <2>5, Zenon
  <2>7. B = copied
    BY <1>8, <2>2, <2>3, <2>5, <2>6
  <2>8. QED
    BY <2>4, <2>5, <2>6, <2>7
<1>10. stored[s] = x /\ \A r \in Slots : r # s => stored[r] = slot[n][r]
  BY <1>2, <1>7
<1>11. \A r \in Slots : copied[r].ikey = stored[r].ikey
  BY <1>8, SufSlot
<1>12. copied[s] = x
  BY <1>8, <1>10
<1>13. \A j \in Index(perm[n]) : copied[perm[n].slot[j]] = stored[perm[n].slot[j]]
  <2>1. \A j \in Index(perm[n]) : perm[n].slot[j] \in Live(perm[n]) /\ perm[n].slot[j] \in Slots
    BY <1>2, <1>5 DEF Live, Index
  <2>2. QED
    BY <1>8, <2>1
<1>14. /\ bag \in [Slots -> Slot] /\ bag[s] = x
       /\ \A r \in Slots : r # s => bag[r].ikey = slot[n][r].ikey
       /\ \A j \in Index(perm[n]) : bag[perm[n].slot[j]] = slot[n][perm[n].slot[j]]
  <2>1. \A j \in Index(perm[n]) : perm[n].slot[j] \in Slots /\ perm[n].slot[j] # s
    BY <1>2, <1>5
  <2>2. QED
    BY <1>9, <1>10, <1>11, <1>12, <1>13, <2>1
<1>15. /\ slot' \in [Leaves -> [Slots -> Slot]] /\ slot'[n] = bag
       /\ \A m \in Leaves : m # n => slot'[m] = slot[m]
  BY <1>2, <1>9, <1>14
<1>16. PICK u \in {"store", "release"} : u = IF c.other = None THEN "store" ELSE "release"
  OBVIOUS
<1>17. PICK d \in Thread : d = [c EXCEPT !.pc = u]
  <2>1. u \in Pcs
    BY FillPcs
  <2>2. QED
    BY <2>1, ThreadPc
<1>18. SameLock(c, d) /\ d.pc = u /\ d.i = c.i /\ d.p = c.p /\ d.other = c.other /\ d.held = c.held
  BY <1>17 DEF Thread, SameLock
<1>19. t' = [t EXCEPT ![p] = d] /\ UNCHANGED <<perm, modstate, locked, dirty, deleted, layer, low, next, prev, layers, gcs, scene, ops, db>>
  BY <1>1, <1>16, <1>17 DEF AssignKsuf, Assigned
<1>20. SlotIs(c, x)
  BY <1>3, <1>4, <1>6 DEF SlotIs
<1>21. u \in FillPc /\ (u \notin OtherPc => u = "store") /\ u # "publish" /\ u \notin {"assign_keylenx", "assign_ksuf"}
  BY FillPcs
<1>22. /\ slot'[c.node][c.p] = x
       /\ \A m \in Leaves : m # c.node => slot'[m] = slot[m]
       /\ \A j \in Index(perm[c.node]) : slot'[c.node][perm[c.node].slot[j]] = slot[c.node][perm[c.node].slot[j]]
       /\ \A r \in Slots : r # c.p => slot'[c.node][r].ikey = slot[c.node][r].ikey
  BY <1>5, <1>14, <1>15
<1>23. /\ slot'[c.node][c.p].ikey \in {slot[c.node][c.p].ikey, Ikey(c)}
       /\ d.pc \in StorePc => SlotIs(c, slot'[c.node][c.p])
       /\ d.pc \in FillPc /\ d.pc \notin {"assign_keylenx", "assign_ksuf"} /\ d.pc # "publish" /\ d.pc # "assign_ksuf"
       /\ d.pc = "release" => c.other # None
       /\ d.pc \notin OtherPc => c.other = None
  BY <1>6, <1>16, <1>18, <1>20, <1>21, <1>22
<1>24. Filling(p, c, d)
  BY <1>1, <1>2, <1>15, <1>18, <1>19, <1>22, <1>23 DEF Filling
<1>25. QED
  BY <1>24, FillStep

-----------------------------------------------------------------------------
LEMMA RearrangedOK ==
  ASSUME NEW pm \in Permuters, Injective(pm), pm.size < Width, NEW e, e = Exchange(pm, pm.size, Width - 1)
  PROVE  /\ e \in Permuters /\ Injective(e) /\ e.size = pm.size
         /\ \A j \in Index(pm) : e.slot[j] = pm.slot[j]
         /\ e.slot[pm.size] = Back(pm) /\ Back(e) = pm.slot[pm.size]
<1>1. pm.size \in Slots /\ Width - 1 \in Slots /\ pm.size \in Nat
  BY WidthFacts, PermuterType DEF Slots
<1>2. e \in Permuters /\ Injective(e) /\ e.size = pm.size /\ e.slot[Width - 1] = pm.slot[pm.size]
      /\ \A k \in Slots : k # pm.size /\ k # Width - 1 => e.slot[k] = pm.slot[k]
  BY <1>1, ExchangeOK
<1>3. \A j \in Index(pm) : j \in Slots /\ j # pm.size /\ j # Width - 1
  BY <1>1, WidthFacts DEF Index, Slots
<1>4. e.slot[pm.size] = pm.slot[Width - 1]
  <2>1. e.slot = [pm.slot EXCEPT ![pm.size] = pm.slot[Width - 1], ![Width - 1] = pm.slot[pm.size]]
    BY DEF Exchange, Permuters
  <2>2. pm.slot \in [Slots -> Slots]
    BY PermuterType
  <2>3. QED
    BY <1>1, <2>1, <2>2
<1>5. QED
  BY <1>2, <1>3, <1>4 DEF Back

LEMMA ThreadPlace ==
  ASSUME NEW c \in Thread, NEW u \in Pcs, NEW s \in Slots
  PROVE  [c EXCEPT !.pc = u, !.p = s] \in Thread
BY DEF Thread

LEMMA InsertHereStep ==
  ASSUME IInv, NEW p \in Procs, InsertHere(p)
  PROVE  IInv'
<1>1. PICK c \in Thread : /\ c = t[p] /\ c.pc = "found" /\ c.op = "put" /\ c.state = 0 /\ c.p = None
                          /\ modstate[c.node] = "insert" /\ SlotFree(c.node, Ikey(c))
  BY Mine DEF InsertHere
<1>2. /\ TypeOK /\ t \in [Procs -> Thread] /\ KeyOK(c) /\ HomeOK(c) /\ FoundOK(c) /\ c.node \in Leaves
      /\ c.node \notin deleted /\ c.other = None /\ c.op # "get" /\ locked[c.node] = p /\ Alloc(c.node)
  BY <1>1, FoundMine DEF IInv, StoreInv
<1>3. PICK n \in Leaves : n = c.node
  BY <1>2
<1>4. PICK e : e = SlotPerm(n, Ikey(c))
  OBVIOUS
<1>5. perm[n] \in Permuters /\ Injective(perm[n]) /\ perm[n].size < Width
  BY <1>1, <1>2, <1>3, LeafType DEF SlotFree, IInv, StoreInv, SortInv
<1>6. \/ e = perm[n] /\ (Back(e) = 0 => MaySlot0(n, Ikey(c)))
      \/ /\ e = Exchange(perm[n], perm[n].size, Width - 1) /\ Back(perm[n]) = 0 /\ Back(e) # 0
         /\ ~MaySlot0(n, Ikey(c))
  BY <1>1, <1>3, <1>4 DEF SlotPerm, SlotFree, Rearranged
<1>7. /\ e \in Permuters /\ Injective(e) /\ e.size = perm[n].size
      /\ \A j \in Index(perm[n]) : e.slot[j] = perm[n].slot[j]
      /\ Back(e) \in Slots
  BY <1>5, <1>6, RearrangedOK, PermuterType
<1>8. Back(e) = 0 => prev[n] = None \/ low[n] = Ikey(c)
  BY <1>6 DEF MaySlot0, IkeyBound, IInv, StoreInv, BoundInv
<1> DEFINE d == [c EXCEPT !.pc = "assign_lv", !.p = Back(e)]
<1>9. d \in Thread
  <2>1. "assign_lv" \in Pcs
    BY FillPcs
  <2>2. QED
    BY <1>7, <2>1, ThreadPlace
<1>10. SameLock(c, d) /\ d.pc = "assign_lv" /\ d.i = c.i /\ d.p = Back(e) /\ d.other = c.other /\ d.held = c.held
  BY DEF Thread, SameLock
<1>11. /\ perm' = [perm EXCEPT ![n] = e] /\ t' = [t EXCEPT ![p] = d]
       /\ UNCHANGED <<slot, modstate, locked, dirty, deleted, layer, low, next, prev, layers, gcs, scene, ops, db>>
  BY <1>1, <1>3, <1>4 DEF InsertHere
<1> HIDE DEF d
<1>12. d.node = n /\ d.key = c.key /\ d.op = c.op
  BY <1>3, <1>10 DEF SameLock
<1>13. ThreadFrame(p) /\ t'[p] = d /\ \A q \in Procs \ {p} : t'[q] = t[q]
  BY <1>2, <1>11, OneFrame
<1>14. /\ perm' \in [Leaves -> Permuters] /\ perm'[n] = e /\ \A m \in Leaves : m # n => perm'[m] = perm[m]
  BY <1>2, <1>7, <1>11 DEF TypeOK, LeafTypeOK
<1>15. TypeOK'
  <2>1. t' \in [Procs -> Thread]
    BY <1>2, <1>9, <1>11
  <2>2. QED
    BY <1>2, <1>11, <1>14, <2>1 DEF TypeOK, LeafTypeOK
<1>16. \A m \in Leaves : PermSame(perm'[m], perm[m]) /\ Index(perm'[m]) = Index(perm[m])
  BY <1>7, <1>14 DEF PermSame, Index
<1>17. LockInv' /\ LocksFrame(p)
  <2>1. /\ t[p].pc \in LockPc /\ t'[p].pc \in LockPc /\ t[p].pc # "gc_lock" /\ t'[p].pc # "gc_lock"
        /\ t'[p].node = t[p].node /\ t'[p].other = t[p].other /\ t'[p].held = t[p].held
    BY <1>1, <1>3, <1>10, <1>12, <1>13, FillPcs, FoundPc
  <2>2. QED
    BY <1>11, <1>13, <1>15, <2>1, KeepLocks
<1>18. Confined(p) /\ NodeKept(p)
  <2>1. \A m \in Leaves : locked[m] \in Procs \ {p} => m # n
    BY <1>2, <1>3
  <2>2. QED
    BY <1>2, <1>3, <1>11, <1>12, <1>13, <1>14, <2>1 DEF Confined, NodeKept
<1>19. /\ t[p].pc \notin MidPc /\ t'[p].pc \notin MidPc /\ t[p].pc \notin TurnPc /\ t'[p].pc \notin TurnPc
       /\ t[p].pc \notin UnlinkPc \cup {"split_tree"}
  BY <1>1, <1>10, <1>13, FillPcs, FoundPc
<1>20. \A m \in Leaves : Splitting(m)' <=> Splitting(m)
  BY <1>2, <1>13, <1>15, <1>17, <1>19, SplittingSame
<1>21. \A m \in Leaves : Entries(m)' = Entries(m)
  <2>1. SUFFICES ASSUME NEW m \in Leaves PROVE Entries(m)' = Entries(m)
    OBVIOUS
  <2>2. perm'[m].size = perm[m].size /\ \A i \in Index(perm[m]) : perm'[m].slot[i] = perm[m].slot[i]
    BY <1>16 DEF PermSame
  <2>3. QED
    BY <1>11, <1>13, <1>15, <1>17, <1>19, <2>2, EntriesSame
<1>22. ReadFrame(p)
  <2>1. \A q \in Procs \ {p} : t[q].pc \in ReadPc => t[q].node \in Leaves
    BY SearchMine, PcFacts
  <2>2. QED
    BY <1>2, <1>11, <1>13, <1>15, <1>16, <2>1, ReadsFrame DEF ReadsKept
<1>23. DeadInv'
  BY <1>11, <1>16, DeadSame DEF PermSame
<1>24. BoundInv'
  BY <1>11 DEF IInv, StoreInv, BoundInv
<1>25. SortInv'
  <2>1. ASSUME NEW m \in Leaves PROVE Injective(perm'[m]) /\ SortedBy(m, perm[m])'
    <3>1. Injective(perm[m]) /\ SortedBy(m, perm[m])
      BY DEF IInv, StoreInv, SortInv
    <3>2. SortedBy(m, perm[m])'
      BY <1>11, <1>16, <3>1 DEF SortedBy, PermSame
    <3>3. Injective(perm'[m])
      BY <1>7, <1>14, <3>1
    <3>4. QED
      BY <3>2, <3>3
  <2>2. QED
    BY <2>1 DEF SortInv, Injective
<1>26. ASSUME Quiet PROVE LeftInv'
  <2>1. CASE e = perm[n]
    <3>1. \A m \in Leaves : perm'[m] = perm[m]
      BY <1>14, <2>1
    <3>2. QED
      BY <1>11, <1>26, <3>1, LeftSame DEF At
  <2>2. CASE e = Exchange(perm[n], perm[n].size, Width - 1) /\ Back(perm[n]) = 0 /\ ~MaySlot0(n, Ikey(c))
    <3>1. LeftInv /\ (\A m \in Leaves : \A x : Below(m, x)' <=> Below(m, x)) /\ layers' = layers
          /\ (\A m \in Leaves : \A l \in layers : In(m, l)' <=> In(m, l))
      BY <1>2, <1>26, QuietViews DEF IInv, StoreInv, Quiet
    <3>2. SUFFICES ASSUME NEW l \in layers, NEW m \in Leaves, In(m, l)', perm'[m].size = 0,
                          ~(m \in dirty' /\ modstate'[m] = "insert")
                   PROVE  Below(m, At(m, 0).ikey)'
      BY <3>1 DEF LeftInv
    <3>3. CASE m # n
      <4>1. perm'[m] = perm[m]
        BY <1>14, <3>3
      <4>2. At(m, 0)' = At(m, 0) /\ Below(m, At(m, 0).ikey)
        BY <1>11, <3>1, <3>2, <4>1 DEF LeftInv, At
      <4>3. PICK x : x = At(m, 0).ikey
        OBVIOUS
      <4>4. Below(m, x)'
        BY <3>1, <4>2, <4>3
      <4>5. QED
        BY <4>2, <4>3, <4>4
    <3>4. CASE m = n
      <4>1. perm[n].size = 0 /\ In(n, l)
        BY <1>7, <1>14, <3>1, <3>2, <3>4
      <4>2. e.slot[0] = 0
        BY <1>5, <2>2, <4>1, RearrangedOK
      <4>3. slot[n][0].ikey = low[n]
        BY <2>2 DEF MaySlot0, IInv, StoreInv, BoundInv
      <4>4. At(n, 0)'.ikey = low[n]
        BY <1>11, <1>14, <4>2, <4>3 DEF At
      <4>5. Below(n, low[n])
        BY <4>1, HiFacts DEF Below
      <4>6. PICK x : x = low[n]
        OBVIOUS
      <4>7. Below(n, x)'
        BY <3>1, <4>5, <4>6
      <4>8. QED
        BY <3>4, <4>4, <4>6, <4>7
    <3>5. QED
      BY <3>3, <3>4
  <2>3. QED
    BY <1>6, <2>1, <2>2
<1>27. ASSUME Quiet PROVE ThreadOK(t[p])'
  <2>1. KeyOK(d) /\ HomeOK(d) /\ Ikey(d) = Ikey(c) /\ (HasSuffix(d) <=> HasSuffix(c))
        /\ \A s : Compare(d, s) = Compare(c, s)
    BY <1>2, <1>9, <1>10, LockKey
  <2>2. KeyOK(d)'
    BY <1>11, <2>1 DEF KeyOK
  <2>3. HomeOK(d)'
    BY <1>2, <1>9, <1>11, <1>12, <1>27, <2>1, QuietHome
  <2>4. Position(d)'
    <3>1. Position(c)
      BY <1>1, <1>2 DEF FoundOK
    <3>2. \A j \in Index(perm[n]) : At(n, j)' = At(n, j)
      BY <1>7, <1>11, <1>14 DEF At
    <3>3. \A s : Compare(d, s)' = Compare(d, s)
      BY DEF Compare, Ikey, HasSuffix
    <3>4. perm'[n].size = perm[n].size /\ Index(perm'[n]) = Index(perm[n])
      BY <1>7, <1>14, <1>16
    <3>5. QED
      BY <1>3, <1>10, <1>12, <2>1, <3>1, <3>2, <3>3, <3>4 DEF Position
  <2>5. d.pc \notin StorePc /\ d.pc # "publish" /\ d.pc # "release" /\ d.pc # "assign_ksuf" /\ d.pc # "assign_keylenx"
    BY <1>10 DEF StorePc
  <2>6. Ikey(d)' = Ikey(c)
    BY <2>1 DEF Ikey
  <2>7. NewOK(d)'
    BY <1>1, <1>2, <1>3, <1>5, <1>7, <1>8, <1>10, <1>11, <1>12, <1>14, <2>4, <2>5, <2>6 DEF NewOK
  <2>8. LockOK(d)'
    <3>1. d.pc \notin DeletePc \cup {"unlock"} /\ d.pc # "found" /\ d.pc \notin LayerPc /\ d.pc \notin MidPc /\ d.pc # "remove"
          /\ d.pc # "gc_lock" /\ d.pc \notin DeletePc /\ d.pc # "unlock"
      BY <1>10, FillPcs
    <3>2. QED
      BY <1>2, <1>3, <1>11, <1>12, <2>3, <2>7, <3>1 DEF LockOK
  <2>9. ThreadOK(d)'
    BY <1>9, <1>10, <2>2, <2>8, FillPcs, HolderOK
  <2>10. QED
    BY <1>13, <2>9
<1>28. /\ t'[p].node # None => Alloc(t'[p].node)
       /\ t'[p].other # None => Alloc(t'[p].other)
  BY <1>2, <1>3, <1>10, <1>12, <1>13
<1>29. \A m \in Leaves : ~Alloc(m) => modstate'[m] = modstate[m] /\ perm'[m] = perm[m]
  BY <1>2, <1>3, <1>11, <1>14
<1>30. QED
  BY <1>11, <1>13, <1>15, <1>17, <1>18, <1>19, <1>20, <1>21, <1>22, <1>23, <1>24, <1>25, <1>26, <1>27, <1>28, <1>29, StayStep
=============================================================================
