--------------------------- MODULE LeafReadProofs ---------------------------
(***************************************************************************)
(* Lookups without a lock are linearizable, and searches under the lock    *)
(* are exact, for any number of threads, leaves, layers, keys and          *)
(* operations.                                                             *)
(*                                                                         *)
(* IInv (LeafReadInv) is inductive. Each action has a lemma <Action>Step:  *)
(* IInv holds after it. It is proved in three parts: the new cursor of the *)
(* thread that steps meets ThreadOK, StoreInv holds of the new leaves, and *)
(* the step keeps Frame, so OtherThread carries ThreadOK over for all      *)
(* others. LeafReadLemmas and LeafReadSteps have most of them; this module *)
(* has the steps that make a leaf or a layer, and the theorems.            *)
(***************************************************************************)
EXTENDS LeafReadSteps

-----------------------------------------------------------------------------
(* A split makes a leaf. First where make_split splits.                    *)

(* The keys of a full leaf with the new one at its place.                  *)
NewKey(c) == [ikey |-> Ikey(c), kind |-> IF HasSuffix(c) THEN "ksuf" ELSE "plain",
              suf |-> IF HasSuffix(c) THEN c.key[c.depth + 1] ELSE 0, lv |-> Empty]
After(n, c, j) == IF j = c.i THEN NewKey(c) ELSE IF j < c.i THEN At(n, j) ELSE At(n, j - 1)

LEMMA NewKeyFacts ==
  ASSUME NEW c \in Thread, KeyOK(c)
  PROVE  NewKey(c) \in Slot /\ SlotIs(c, NewKey(c)) /\ NewKey(c).ikey = Ikey(c)
<1>1. /\ Ikey(c) \in Nat
      /\ HasSuffix(c) <=> c.depth = 1 /\ Len(c.key) = 2
      /\ Len(c.key) = 2 => c.key[2] \in Nat
  BY IkeyType
<1>2. PICK z : z = IF HasSuffix(c) THEN c.key[c.depth + 1] ELSE 0
  OBVIOUS
<1>3. z \in Nat
  <2>1. HasSuffix(c) => c.depth + 1 = 2
    BY <1>1
  <2>2. QED
    BY <1>1, <1>2, <2>1
<1>4. NewKey(c) = [ikey |-> Ikey(c), kind |-> IF HasSuffix(c) THEN "ksuf" ELSE "plain", suf |-> z, lv |-> 0]
  BY <1>2 DEF NewKey, Empty
<1>5. NewKey(c) \in Slot
  BY <1>1, <1>3, <1>4 DEF Slot
<1>6. /\ NewKey(c).ikey = Ikey(c) /\ NewKey(c).suf = z
      /\ NewKey(c).kind = IF HasSuffix(c) THEN "ksuf" ELSE "plain"
  BY <1>4
<1>7. QED
  BY <1>2, <1>5, <1>6 DEF SlotIs

LEMMA AfterIs ==
  ASSUME NEW n, NEW c, c.i \in Int
  PROVE  /\ \A j \in Int : IkeyAfterInsert(n, c, j) = After(n, c, j).ikey
         /\ \A m, j \in Int : Moved(n, c, m, j) = After(n, c, m + j)
<1>1. ASSUME NEW j \in Int PROVE IkeyAfterInsert(n, c, j) = After(n, c, j).ikey
  <2>1. CASE j = c.i
    BY <2>1 DEF IkeyAfterInsert, After, NewKey
  <2>2. CASE j < c.i
    BY <2>2 DEF IkeyAfterInsert, After, At
  <2>3. CASE j > c.i
    BY <2>3 DEF IkeyAfterInsert, After, At
  <2>4. QED
    BY <2>1, <2>2, <2>3
<1>2. ASSUME NEW m \in Int, NEW j \in Int PROVE Moved(n, c, m, j) = After(n, c, m + j)
  <2>1. CASE m + j = c.i
    BY <2>1 DEF Moved, After, NewKey
  <2>2. CASE m + j < c.i
    BY <2>2 DEF Moved, After, At
  <2>3. CASE m + j > c.i
    BY <2>3 DEF Moved, After, At
  <2>4. QED
    BY <2>1, <2>2, <2>3
<1>3. QED
  BY <1>1, <1>2

LEMMA AfterSorted ==
  ASSUME IInv, NEW c \in Thread, KeyOK(c), NEW n \in Leaves, c.node = n, Position(c),
         NEW s \in Nat, s = perm[n].size
  PROVE  /\ c.i \in 0..s
         /\ \A a \in 0..s : After(n, c, a) \in Slot
         /\ \A a, b \in 0..s : a < b => Less(After(n, c, a), After(n, c, b))
<1>1. c.i \in 0..s
  BY DEF Position
<1>2. PICK i \in 0..s : i = c.i
  BY <1>1
<1>3. Index(perm[n]) = 0..(s - 1)
  BY DEF Index
<1>4. \A j \in 0..(s - 1) : /\ At(n, j) \in Slot
                            /\ j < i => Compare(c, At(n, j)) = 1
                            /\ j >= i => Compare(c, At(n, j)) = -1
  BY <1>2, <1>3, AtType DEF IInv, StoreInv, Position
<1>5. \A a, b \in 0..(s - 1) : a < b => Less(At(n, a), At(n, b))
  BY <1>3 DEF IInv, StoreInv, SortInv, SortedBy, At
<1>6. PICK x \in Slot : x = NewKey(c) /\ SlotIs(c, x)
  BY NewKeyFacts
<1>7. \A j \in 0..(s - 1) : (j < i => Less(At(n, j), x)) /\ (j >= i => Less(x, At(n, j)))
  BY <1>4, <1>6, NewLess
<1>8. \A a \in 0..s : After(n, c, a) = IF a = i THEN x ELSE IF a < i THEN At(n, a) ELSE At(n, a - 1)
  BY <1>2, <1>6 DEF After
<1>9. \A a \in 0..s : (a < i => a \in 0..(s - 1)) /\ (a > i => a - 1 \in 0..(s - 1) /\ a - 1 >= i)
  OBVIOUS
<1>10. ASSUME NEW a \in 0..s PROVE After(n, c, a) \in Slot
  <2>1. a = i \/ a < i \/ a > i
    OBVIOUS
  <2>2. QED
    BY <1>4, <1>6, <1>8, <1>9, <2>1
<1>11. ASSUME NEW a \in 0..s, NEW b \in 0..s, a < b PROVE Less(After(n, c, a), After(n, c, b))
  <2>1. CASE a = i
    <3>1. b > i /\ b # i /\ ~(b < i)
      BY <1>11, <2>1
    <3>2. QED
      BY <1>7, <1>8, <1>9, <2>1, <3>1
  <2>2. CASE b = i
    <3>1. a < i /\ a # i
      BY <1>11, <2>2
    <3>2. QED
      BY <1>7, <1>8, <1>9, <2>2, <3>1
  <2>3. CASE a < i /\ b < i
    BY <1>5, <1>8, <1>9, <1>11, <2>3
  <2>4. CASE a > i /\ b > i
    <3>1. a - 1 < b - 1 /\ a # i /\ b # i /\ ~(a < i) /\ ~(b < i)
      BY <1>11, <2>4
    <3>2. QED
      BY <1>5, <1>8, <1>9, <2>4, <3>1
  <2>5. CASE a < i /\ b > i
    <3>1. a < b - 1 /\ a # i /\ b # i /\ ~(b < i)
      BY <1>11, <2>5
    <3>2. QED
      BY <1>5, <1>8, <1>9, <2>5, <3>1
  <2>6. QED
    <3>1. a = i \/ b = i \/ (a < i /\ b < i) \/ (a > i /\ b > i) \/ (a < i /\ b > i)
      BY <1>11
    <3>2. QED
      BY <2>1, <2>2, <2>3, <2>4, <2>5, <3>1
<1>12. QED
  BY <1>1, <1>10, <1>11

LEMMA LessIkey ==
  ASSUME NEW a \in Slot, NEW b \in Slot, Less(a, b)
  PROVE  a.ikey \in Nat /\ b.ikey \in Nat /\ a.ikey <= b.ikey
BY SlotType DEF Less

LEMMA HalfWidth == Width \div 2 + 1 \in 1..(Width - 1)
<1>1. PICK w \in Nat : w = Width /\ w >= 3
  BY WidthFacts
<1>2. w \div 2 + 1 \in 1..(w - 1)
  BY <1>1
<1>3. QED
  BY <1>1, <1>2

(* How far from the first choice make_split looks.                         *)
MidOff(n, c, f) ==
  CHOOSE e \in 0..Width : /\ SplitAt(n, c, f + e) \/ SplitAt(n, c, f - e)
                          /\ \A g \in 0..(e - 1) : ~(SplitAt(n, c, f + g) \/ SplitAt(n, c, f - g))

LEMMA MidIs ==
  ASSUME NEW n, NEW c
  PROVE  Mid(n, c) = IF SplitAt(n, c, FirstMid(n, c) + MidOff(n, c, FirstMid(n, c)))
                     THEN FirstMid(n, c) + MidOff(n, c, FirstMid(n, c))
                     ELSE FirstMid(n, c) - MidOff(n, c, FirstMid(n, c))
BY DEF Mid, MidOff

(* make_split finds a place between two slices.                            *)
LEMMA MidFound ==
  ASSUME IInv, NEW c \in Thread, KeyOK(c), NEW n \in Leaves, c.node = n, Position(c),
         NEW s \in Nat, s = perm[n].size, s \in {Width - 1, Width}, NEW m, m = Mid(n, c)
  PROVE  m \in 1..s /\ After(n, c, m - 1).ikey # After(n, c, m).ikey
<1>1. /\ c.i \in 0..s
      /\ \A a \in 0..s : After(n, c, a) \in Slot
      /\ \A a, b \in 0..s : a < b => Less(After(n, c, a), After(n, c, b))
  BY AfterSorted
<1>2. \A a \in Int : IkeyAfterInsert(n, c, a) = After(n, c, a).ikey
  BY <1>1, AfterIs
<1> DEFINE f == FirstMid(n, c)
<1> HIDE DEF f
<1>4. s >= 2 /\ Width \in Nat
  BY WidthFacts
<1>5. f \in 1..s
  <2>1. Width \div 2 + 1 \in 1..s
    BY <1>4, HalfWidth
  <2>2. 1 \in 1..s /\ s \in 1..s
    BY <1>4
  <2>3. QED
    BY <2>1, <2>2 DEF FirstMid, f
<1>6. \A a \in 1..s : a - 1 \in Int /\ a \in Int
  OBVIOUS
<1>7. \A a \in Int : SplitAt(n, c, a) <=> a \in 1..s /\ After(n, c, a - 1).ikey # After(n, c, a).ikey
  BY <1>2, <1>6 DEF SplitAt
<1>8. \A a \in 0..(s - 2) : After(n, c, a).ikey # After(n, c, a + 1).ikey
                            \/ After(n, c, a + 1).ikey # After(n, c, a + 2).ikey
  <2>1. SUFFICES ASSUME NEW a \in 0..(s - 2) PROVE After(n, c, a).ikey # After(n, c, a + 2).ikey
    OBVIOUS
  <2>2. a \in 0..s /\ a + 1 \in 0..s /\ a + 2 \in 0..s /\ a < a + 1 /\ a + 1 < a + 2
    BY <1>4
  <2>3. After(n, c, a).ikey < After(n, c, a + 2).ikey
    BY <1>1, <2>2, LessTwice
  <2>4. After(n, c, a).ikey \in Nat /\ After(n, c, a + 2).ikey \in Nat
    BY <1>1, <2>2, SlotType
  <2>5. QED
    BY <2>3, <2>4
<1> DEFINE near(e) == SplitAt(n, c, f + e) \/ SplitAt(n, c, f - e)
<1>9. near(0) \/ near(1)
  <2>1. SUFFICES ASSUME ~SplitAt(n, c, f) PROVE SplitAt(n, c, f + 1) \/ SplitAt(n, c, f - 1)
    <3>1. f + 0 = f
      BY <1>5
    <3>2. QED
      BY <3>1
  <2>2. After(n, c, f - 1).ikey = After(n, c, f).ikey
    BY <1>5, <1>7, <2>1
  <2>3. CASE f < s
    <3>1. f - 1 \in 0..(s - 2) /\ (f - 1) + 1 = f /\ (f - 1) + 2 = f + 1 /\ f + 1 \in 1..s /\ f + 1 \in Int /\ (f + 1) - 1 = f
      BY <1>4, <1>5, <2>3
    <3>2. After(n, c, f).ikey # After(n, c, f + 1).ikey
      BY <1>8, <2>2, <3>1
    <3>3. QED
      BY <1>7, <3>1, <3>2
  <2>4. CASE ~(f < s)
    <3>1. f - 2 \in 0..(s - 2) /\ (f - 2) + 1 = f - 1 /\ (f - 2) + 2 = f /\ f - 1 \in 1..s /\ f - 1 \in Int /\ (f - 1) - 1 = f - 2
      BY <1>4, <1>5, <2>4
    <3>2. After(n, c, f - 2).ikey # After(n, c, f - 1).ikey
      BY <1>8, <2>2, <3>1
    <3>3. QED
      BY <1>7, <3>1, <3>2
  <2>5. QED
    BY <2>3, <2>4
<1>10. \E e \in 0..Width : near(e) /\ \A g \in 0..(e - 1) : ~near(g)
  <2>1. CASE near(0)
    <3>1. 0 \in 0..Width /\ 0..(0 - 1) = {}
      BY <1>4
    <3>2. QED
      BY <2>1, <3>1
  <2>2. CASE ~near(0)
    <3>1. 1 \in 0..Width /\ \A g \in 0..(1 - 1) : g = 0
      BY WidthFacts
    <3>2. near(1)
      BY <1>9, <2>2
    <3>3. QED
      BY <2>2, <3>1, <3>2
  <2>3. QED
    BY <2>1, <2>2
<1>11. PICK e : e = MidOff(n, c, f)
  OBVIOUS
<1>12. e \in 0..Width /\ near(e)
  BY <1>10, <1>11 DEF MidOff
<1>13. m = IF SplitAt(n, c, f + e) THEN f + e ELSE f - e
  BY <1>11, MidIs DEF f
<1>14. SplitAt(n, c, m)
  BY <1>12, <1>13
<1>15. m \in Int
  BY <1>5, <1>12, <1>13
<1>16. QED
  BY <1>7, <1>14, <1>15

(* The place splits the keys into those below its slice and the rest.      *)
LEMMA MidSplits ==
  ASSUME IInv, NEW c \in Thread, KeyOK(c), NEW n \in Leaves, c.node = n, Position(c),
         NEW s \in Nat, s = perm[n].size, NEW m \in 1..s, After(n, c, m - 1).ikey # After(n, c, m).ikey
  PROVE  \A a \in 0..s : After(n, c, a).ikey \in Nat /\ (After(n, c, a).ikey < After(n, c, m).ikey <=> a < m)
<1>1. /\ \A a \in 0..s : After(n, c, a) \in Slot
      /\ \A a, b \in 0..s : a < b => Less(After(n, c, a), After(n, c, b))
  BY AfterSorted
<1>2. m - 1 \in 0..s /\ m \in 0..s /\ m - 1 < m
  OBVIOUS
<1>3. \A a \in 0..s : After(n, c, a).ikey \in Nat
  BY <1>1, SlotType
<1>4. \A a, b \in 0..s : a < b => After(n, c, a).ikey <= After(n, c, b).ikey
  BY <1>1, LessIkey
<1>5. After(n, c, m - 1).ikey < After(n, c, m).ikey
  BY <1>2, <1>3, <1>4
<1>6. ASSUME NEW a \in 0..s PROVE After(n, c, a).ikey < After(n, c, m).ikey <=> a < m
  <2>0. PICK x \in Nat, y \in Nat, z \in Nat : x = After(n, c, a).ikey /\ y = After(n, c, m).ikey /\ z = After(n, c, m - 1).ikey
    BY <1>2, <1>3
  <2>1. z < y
    BY <1>5, <2>0
  <2>2. CASE a < m
    <3>1. a < m - 1 \/ a = m - 1
      BY <2>2
    <3>2. x <= z
      BY <1>2, <1>4, <2>0, <3>1
    <3>3. QED
      BY <2>0, <2>1, <2>2, <3>2
  <2>3. CASE ~(a < m)
    <3>1. a = m \/ m < a
      BY <2>3
    <3>2. y <= x
      BY <1>2, <1>4, <2>0, <3>1
    <3>3. QED
      BY <2>0, <2>3, <3>2
  <2>4. QED
    BY <2>2, <2>3
<1>7. QED
  BY <1>3, <1>6

(* The new leaf, slots f and permutation pm, takes the keys from index left on. *)
Moving(n, f, pm, left, w) ==
  /\ left \in 0..perm[n].size /\ w \in Nat /\ pm \in Permuters /\ f \in [Slots -> Slot]
  /\ pm.size = perm[n].size - left /\ Injective(pm)
  /\ \A j \in Index(pm) : left + j \in Index(perm[n]) /\ f[pm.slot[j]] = At(n, left + j)
  /\ \A j \in Index(perm[n]) : At(n, j).ikey < w <=> j < left
  /\ f[0].ikey = w
  /\ \A j \in Slots : f[j].ikey = 0 \/ Covers(n, f[j].ikey)
  /\ Covers(n, w) /\ low[n] < w

(* Where the new key goes: z is the split type.                            *)
Placed(c, f, pm, left, w, z) ==
  /\ z = 0 => c.i <= left /\ Ikey(c) < w /\ pm.size > 0
  /\ z = 1 => /\ left > 0 /\ c.i >= left /\ c.i - left \in Slots /\ w <= Ikey(c)
              /\ c.i - left = Back(pm) /\ pm.size < Width /\ SlotIs(c, f[c.i - left])
  /\ z \in {0, 1}

LEMMA SplitIndex ==
  ASSUME NEW s \in Nat, NEW i \in 0..s, NEW m \in 1..s, NEW k, k = s + 1 - m
  PROVE  /\ k \in 1..s /\ m \in 0..s /\ m - 1 \in 0..s /\ m - 1 < m
         /\ \A j \in 0..(k - 1) : m + j \in 0..s
         /\ i >= m => /\ i - m \in 0..(k - 1) /\ k - 1 = s - m /\ m \in 0..s
                      /\ \A j \in 0..((k - 1) - 1) :
                           /\ m + j \in 0..(s - 1) /\ j \in 0..(k - 2) /\ j \in 0..(k - 1) /\ j + 1 \in 0..(k - 1)
                           /\ j < i - m => m + j < i
                           /\ ~(j < i - m) => m + (j + 1) > i /\ (m + (j + 1)) - 1 = m + j
         /\ ~(i >= m) => /\ k = s - (m - 1) /\ i <= m - 1
                         /\ \A j \in 0..(k - 1) : /\ (m - 1) + j \in 0..(s - 1)
                                                  /\ m + j > i /\ (m + j) - 1 = (m - 1) + j
         /\ \A j \in 0..(s - 1) :
              /\ j < i => j \in 0..s
              /\ ~(j < i) => j + 1 \in 0..s /\ j + 1 > i /\ (j + 1) - 1 = j
              /\ i >= m => (j < i => (j < m <=> j < m)) /\ (~(j < i) => (j + 1 < m <=> j < m))
              /\ ~(i >= m) => (j < i => (j < m <=> j < m - 1)) /\ (~(j < i) => (j + 1 < m <=> j < m - 1))
<1>1. k \in 1..s /\ m \in 0..s /\ m - 1 \in 0..s /\ m - 1 < m
  OBVIOUS
<1>2. \A j \in 0..(k - 1) : m + j \in 0..s
  OBVIOUS
<1>3. i >= m => /\ i - m \in 0..(k - 1) /\ k - 1 = s - m /\ m \in 0..s
                /\ \A j \in 0..((k - 1) - 1) :
                     /\ m + j \in 0..(s - 1) /\ j \in 0..(k - 2) /\ j \in 0..(k - 1) /\ j + 1 \in 0..(k - 1)
                     /\ j < i - m => m + j < i
                     /\ ~(j < i - m) => m + (j + 1) > i /\ (m + (j + 1)) - 1 = m + j
  OBVIOUS
<1>4. ~(i >= m) => /\ k = s - (m - 1) /\ i <= m - 1
                   /\ \A j \in 0..(k - 1) : /\ (m - 1) + j \in 0..(s - 1)
                                            /\ m + j > i /\ (m + j) - 1 = (m - 1) + j
  OBVIOUS
<1>5. \A j \in 0..(s - 1) :
              /\ j < i => j \in 0..s
              /\ ~(j < i) => j + 1 \in 0..s /\ j + 1 > i /\ (j + 1) - 1 = j
              /\ i >= m => (j < i => (j < m <=> j < m)) /\ (~(j < i) => (j + 1 < m <=> j < m))
              /\ ~(i >= m) => (j < i => (j < m <=> j < m - 1)) /\ (~(j < i) => (j + 1 < m <=> j < m - 1))
  OBVIOUS
<1>6. QED
  BY <1>1, <1>2, <1>3, <1>4, <1>5

(* What split_into computes.                                               *)
SplitShape(n, c, s, m, k, f, pm, w, z) ==
  /\ m = Mid(n, c) /\ k = s + 1 - m
  /\ f = [j \in Slots |-> IF j < k THEN Moved(n, c, m, j) ELSE NewSlot]
  /\ pm = IF c.i >= m THEN RemoveToBack(MakeSorted(k), c.i - m) ELSE MakeSorted(k)
  /\ w = IkeyAfterInsert(n, c, m) /\ z = IF c.i < m THEN 0 ELSE 1

LEMMA SplitFill ==
  ASSUME IInv, NEW c \in Thread, KeyOK(c), NEW n \in Leaves, c.node = n, Position(c), HomeOK(c),
         \A x : Ent(n, x) = slot[n][x], NEW s \in Nat, s = perm[n].size, s \in {Width - 1, Width},
         NEW m, NEW k, NEW f, NEW pm, NEW w, NEW z, SplitShape(n, c, s, m, k, f, pm, w, z)
  PROVE  \E left : Moving(n, f, pm, left, w) /\ Placed(c, f, pm, left, w, z)
<1>1. m \in 1..s /\ After(n, c, m - 1).ikey # After(n, c, m).ikey
  BY MidFound DEF SplitShape
<1>2. PICK i \in 0..s : i = c.i
  BY AfterSorted
<1>3. \A a \in 0..s : After(n, c, a) \in Slot
  BY AfterSorted
<1>4. /\ \A j \in Int : IkeyAfterInsert(n, c, j) = After(n, c, j).ikey
      /\ \A x, j \in Int : Moved(n, c, x, j) = After(n, c, x + j)
  BY <1>2, AfterIs
<1>5. w = After(n, c, m).ikey
  <2>1. m \in Int
    BY <1>1
  <2>2. w = IkeyAfterInsert(n, c, m)
    BY DEF SplitShape
  <2>3. QED
    BY <1>4, <2>1, <2>2
<1>6. \A a \in 0..s : After(n, c, a).ikey \in Nat /\ (After(n, c, a).ikey < w <=> a < m)
  BY <1>1, <1>5, MidSplits
<1>7. /\ k \in 1..s /\ m \in 0..s /\ m - 1 \in 0..s /\ m - 1 < m
      /\ \A j \in 0..(k - 1) : m + j \in 0..s
      /\ i >= m => /\ i - m \in 0..(k - 1) /\ k - 1 = s - m /\ m \in 0..s
                   /\ \A j \in 0..((k - 1) - 1) :
                        /\ m + j \in 0..(s - 1) /\ j \in 0..(k - 2) /\ j \in 0..(k - 1) /\ j + 1 \in 0..(k - 1)
                        /\ j < i - m => m + j < i
                        /\ ~(j < i - m) => m + (j + 1) > i /\ (m + (j + 1)) - 1 = m + j
      /\ ~(i >= m) => /\ k = s - (m - 1) /\ i <= m - 1
                      /\ \A j \in 0..(k - 1) : /\ (m - 1) + j \in 0..(s - 1)
                                               /\ m + j > i /\ (m + j) - 1 = (m - 1) + j
      /\ \A j \in 0..(s - 1) :
           /\ j < i => j \in 0..s
           /\ ~(j < i) => j + 1 \in 0..s /\ j + 1 > i /\ (j + 1) - 1 = j
           /\ i >= m => (j < i => (j < m <=> j < m)) /\ (~(j < i) => (j + 1 < m <=> j < m))
           /\ ~(i >= m) => (j < i => (j < m <=> j < m - 1)) /\ (~(j < i) => (j + 1 < m <=> j < m - 1))
  <2>1. k = s + 1 - m
    BY DEF SplitShape
  <2>2. QED
    BY <1>1, <1>2, <2>1, SplitIndex
<1>8. /\ Width \in Nat /\ s <= Width /\ Slots = 0..(Width - 1) /\ k \in 1..Width
      /\ Index(perm[n]) = 0..(s - 1) /\ k \in Nat
  BY <1>7, WidthFacts DEF Index, Slots
<1>9. \A a \in 0..s : /\ a = i => After(n, c, a) = NewKey(c)
                      /\ a < i => After(n, c, a) = At(n, a)
                      /\ a > i => After(n, c, a) = At(n, a - 1)
  BY <1>2 DEF After
<1>10. \A j \in 0..(k - 1) : j \in Slots /\ f[j] = After(n, c, m + j)
  <2>1. SUFFICES ASSUME NEW j \in 0..(k - 1) PROVE j \in Slots /\ f[j] = After(n, c, m + j)
    OBVIOUS
  <2>2. j \in Slots /\ j < k /\ j \in Int /\ m \in Int
    BY <1>1, <1>8
  <2>3. f[j] = Moved(n, c, m, j)
    BY <2>2 DEF SplitShape
  <2>4. QED
    BY <1>4, <2>2, <2>3
<1>11. ASSUME NEW j \in Slots PROVE f[j] \in Slot /\ (f[j] = NewSlot \/ \E a \in 0..s : f[j] = After(n, c, a))
  <2>1. CASE j < k
    <3>1. j \in 0..(k - 1)
      BY <1>8, <2>1
    <3>2. QED
      BY <1>3, <1>7, <1>10, <3>1
  <2>2. CASE ~(j < k)
    BY <2>2 DEF SplitShape, NewSlot, Slot, Empty
  <2>3. QED
    BY <2>1, <2>2
<1>12. f \in [Slots -> Slot]
  <2>1. DOMAIN f = Slots /\ f = [j \in Slots |-> f[j]]
    BY DEF SplitShape
  <2>2. QED
    BY <1>11, <2>1
<1>13. layer[n] \in layers /\ In(n, layer[n]) /\ Covers(n, Ikey(c))
  BY DEF HomeOK
<1>14. \A j \in Index(perm[n]) : Covers(n, At(n, j).ikey)
  <2>1. \A j \in Index(perm[n]) : At(n, j) \in Entries(n)
    BY EntriesAt
  <2>2. QED
    BY <1>13, <2>1 DEF IInv, StoreInv, LeafInv
<1>15. ASSUME NEW a \in 0..s PROVE Covers(n, After(n, c, a).ikey)
  <2>1. CASE a = i
    BY <1>9, <1>13, <2>1, NewKeyFacts
  <2>2. CASE a < i
    <3>1. a \in 0..(s - 1)
      BY <2>2
    <3>2. QED
      BY <1>8, <1>9, <1>14, <2>2, <3>1
  <2>3. CASE a > i
    <3>1. a - 1 \in 0..(s - 1)
      BY <2>3
    <3>2. QED
      BY <1>8, <1>9, <1>14, <2>3, <3>1
  <2>4. QED
    BY <2>1, <2>2, <2>3
<1>16. \A j \in Slots : f[j].ikey = 0 \/ Covers(n, f[j].ikey)
  BY <1>11, <1>15 DEF NewSlot
<1>17. Covers(n, w) /\ w \in Nat
  BY <1>5, <1>6, <1>7, <1>15
<1>18. low[n] < w
  <2>1. PICK x \in Nat : x = After(n, c, m - 1).ikey
    BY <1>6, <1>7
  <2>2. x < w /\ low[n] <= x
    BY <1>6, <1>7, <1>15, <2>1 DEF Covers
  <2>3. low[n] \in Nat
    BY LeafType DEF IInv, StoreInv
  <2>4. QED
    BY <1>17, <2>2, <2>3
<1>19. f[0].ikey = w
  <2>1. 0 \in 0..(k - 1) /\ m + 0 = m
    BY <1>1, <1>7
  <2>2. QED
    BY <1>5, <1>10, <2>1
<1>20. \A j \in Index(perm[n]) : /\ j < i => (At(n, j).ikey < w <=> j < m)
                                 /\ ~(j < i) => (At(n, j).ikey < w <=> j + 1 < m)
  <2>1. SUFFICES ASSUME NEW j \in 0..(s - 1)
                 PROVE  /\ j < i => (At(n, j).ikey < w <=> j < m)
                        /\ ~(j < i) => (At(n, j).ikey < w <=> j + 1 < m)
    BY <1>8
  <2>2. CASE j < i
    BY <1>6, <1>7, <1>9, <2>2
  <2>3. CASE ~(j < i)
    <3>1. j + 1 \in 0..s /\ j + 1 > i /\ (j + 1) - 1 = j
      BY <1>7, <2>3
    <3>2. At(n, j) = After(n, c, j + 1)
      BY <1>9, <3>1
    <3>3. QED
      BY <1>6, <2>3, <3>1, <3>2
  <2>4. QED
    BY <2>2, <2>3
<1>21. Ikey(c) = After(n, c, i).ikey
  BY <1>9, NewKeyFacts
<1>22. Ikey(c) < w <=> i < m
  BY <1>6, <1>21
<1>23. Ikey(c) \in Nat
  BY <1>6, <1>21
<1>24. CASE i >= m
  <2>1. PICK g \in 0..(k - 1) : g = i - m
    BY <1>7, <1>24
  <2>2. /\ pm \in Permuters /\ Injective(pm) /\ pm.size = k - 1 /\ Back(pm) = g
        /\ \A j \in 0..(k - 2) : pm.slot[j] = IF j < g THEN j ELSE j + 1
    <3>1. pm = RemoveToBack(MakeSorted(k), g)
      BY <1>2, <1>24, <2>1 DEF SplitShape
    <3>2. QED
      BY <1>8, <2>1, <3>1, RemoveToBackOK
  <2>3. pm.size = perm[n].size - m /\ Index(pm) = 0..((k - 1) - 1) /\ m \in 0..perm[n].size
    BY <1>7, <1>24, <2>2 DEF Index
  <2>4. ASSUME NEW j \in Index(pm) PROVE m + j \in Index(perm[n]) /\ f[pm.slot[j]] = At(n, m + j)
    <3>1. /\ m + j \in 0..(s - 1) /\ j \in 0..(k - 2) /\ j \in 0..(k - 1) /\ j + 1 \in 0..(k - 1)
          /\ j < g => m + j < i
          /\ ~(j < g) => m + (j + 1) > i /\ (m + (j + 1)) - 1 = m + j
      BY <1>7, <1>24, <2>1, <2>3, <2>4
    <3>2. CASE j < g
      BY <1>7, <1>8, <1>9, <1>10, <2>2, <3>1, <3>2
    <3>3. CASE ~(j < g)
      <4>1. pm.slot[j] = j + 1 /\ f[j + 1] = After(n, c, m + (j + 1)) /\ m + (j + 1) \in 0..s
        BY <1>7, <1>10, <2>2, <3>1, <3>3
      <4>2. After(n, c, m + (j + 1)) = At(n, m + j)
        BY <1>9, <3>1, <3>3, <4>1
      <4>3. QED
        BY <1>8, <3>1, <4>1, <4>2
    <3>4. QED
      BY <3>2, <3>3
  <2>5. \A j \in Index(perm[n]) : At(n, j).ikey < w <=> j < m
    BY <1>7, <1>8, <1>20, <1>24
  <2>6. Moving(n, f, pm, m, w)
    BY <1>12, <1>16, <1>17, <1>18, <1>19, <2>2, <2>3, <2>4, <2>5 DEF Moving
  <2>7. z = 1 /\ ~(i < m)
    BY <1>1, <1>2, <1>24 DEF SplitShape
  <2>8. w <= Ikey(c)
    BY <1>17, <1>22, <1>23, <2>7
  <2>9. m > 0 /\ g \in Slots /\ k - 1 < Width
    BY <1>1, <1>8
  <2>10. SlotIs(c, f[g])
    <3>1. m + g = i /\ m + g \in 0..s
      BY <1>1, <2>1
    <3>2. f[g] = NewKey(c)
      BY <1>9, <1>10, <3>1
    <3>3. QED
      BY <3>2, NewKeyFacts
  <2>11. Placed(c, f, pm, m, w, z)
    BY <1>2, <1>24, <2>1, <2>2, <2>7, <2>8, <2>9, <2>10 DEF Placed
  <2>12. QED
    BY <2>6, <2>11
<1>25. CASE ~(i >= m)
  <2>1. /\ pm \in Permuters /\ Injective(pm) /\ pm.size = k
        /\ \A j \in 0..(k - 1) : pm.slot[j] = j
    <3>1. pm = MakeSorted(k) /\ k \in 0..Width
      BY <1>2, <1>8, <1>25 DEF SplitShape
    <3>2. QED
      BY <3>1, MakeSortedOK
  <2>2. PICK left \in 0..s : left = m - 1
    BY <1>7
  <2>3. pm.size = perm[n].size - left /\ Index(pm) = 0..(k - 1) /\ left \in 0..perm[n].size
    BY <1>7, <1>25, <2>1, <2>2 DEF Index
  <2>4. ASSUME NEW j \in Index(pm) PROVE left + j \in Index(perm[n]) /\ f[pm.slot[j]] = At(n, left + j)
    <3>1. left + j \in 0..(s - 1) /\ m + j > i /\ (m + j) - 1 = left + j /\ m + j \in 0..s /\ j \in 0..(k - 1)
      BY <1>7, <1>25, <2>2, <2>3, <2>4
    <3>2. f[pm.slot[j]] = After(n, c, m + j)
      BY <1>10, <2>1, <3>1
    <3>3. QED
      BY <1>8, <1>9, <3>1, <3>2
  <2>5. \A j \in Index(perm[n]) : At(n, j).ikey < w <=> j < left
    BY <1>7, <1>8, <1>20, <1>25, <2>2
  <2>6. Moving(n, f, pm, left, w)
    BY <1>12, <1>16, <1>17, <1>18, <1>19, <2>1, <2>3, <2>4, <2>5 DEF Moving
  <2>7. z = 0 /\ i < m
    BY <1>1, <1>2, <1>25 DEF SplitShape
  <2>8. Ikey(c) < w /\ i <= left /\ k > 0
    BY <1>7, <1>22, <1>25, <2>2, <2>7
  <2>9. Placed(c, f, pm, left, w, z)
    BY <1>2, <2>1, <2>7, <2>8 DEF Placed
  <2>10. QED
    BY <2>6, <2>9
<1>26. QED
  BY <1>24, <1>25

-----------------------------------------------------------------------------
(* The new leaf takes its place behind the old one.                        *)

(* A leaf that nothing refers to.                                          *)
NotYet(m) ==
  /\ m \in Leaves /\ ~Alloc(m) /\ layer[m] = None /\ m \notin deleted /\ locked[m] = None
  /\ prev[m] = None /\ next[m] = None /\ modstate[m] = "insert" /\ low[m] = 0 /\ perm[m].size = 0
  /\ \A x \in Leaves : next[x] # m /\ prev[x] # m
  /\ \A q \in Procs : t[q].node # m /\ t[q].other # m
  /\ \A y \in Layers : ~In(m, y)

LEMMA FreshLeaf ==
  ASSUME IInv, Unused # {}
  PROVE  NotYet(Fresh)
<1>1. PICK m : m = Fresh
  OBVIOUS
<1>2. m \in Unused
  BY <1>1 DEF Fresh
<1>3. m \in Leaves /\ layer[m] = None /\ m \notin deleted /\ locked[m] = None
  BY <1>2 DEF Unused
<1>4. ~Alloc(m)
  BY <1>3 DEF Alloc
<1>5. m # None
  BY <1>3, ConstantFacts
<1>6. /\ prev[m] = None /\ next[m] = None /\ modstate[m] = "insert" /\ low[m] = 0 /\ perm[m].size = 0
      /\ \A x \in Leaves : next[x] # m /\ prev[x] # m
      /\ \A q \in Procs : t[q].node # m /\ t[q].other # m
  BY <1>3, <1>4, <1>5 DEF IInv, StoreInv, AllocInv
<1>7. \A y \in Layers : ~In(m, y)
  BY <1>3, <1>4, InAlloc DEF IInv, StoreInv
<1>8. QED
  BY <1>1, <1>3, <1>4, <1>6, <1>7 DEF NotYet

LEMMA ThreadSplit ==
  ASSUME NEW c \in Thread, NEW u \in Pcs, NEW x \in Leaves, NEW z \in {-1, 0, 1}
  PROVE  [c EXCEPT !.pc = u, !.other = x, !.state = z] \in Thread
BY DEF Thread

(* The leaf n splits: nr takes its keys from index left on, those not below w. *)
Grown(p, c, d, n, nr, nx, l, left, w) ==
  /\ TypeOK /\ TypeOK' /\ c \in Thread /\ d \in Thread /\ c = t[p] /\ n \in Leaves /\ nr \in Leaves
  /\ nx \in Leaves \cup {None} /\ l \in layers /\ l \in Layers /\ layers \subseteq Layers
  /\ c.pc = "found" /\ c.op = "put" /\ KeyOK(c) /\ HomeOK(c) /\ Position(c) /\ c.node = n /\ c.other = None
  /\ locked[n] = p /\ n \notin deleted /\ modstate[n] = "insert" /\ layer[n] = l /\ In(n, l) /\ next[n] = nx
  /\ perm[n].size = Width \/ (perm[n].size = Width - 1 /\ Back(perm[n]) = 0)
  /\ nr # n /\ nr # nx /\ n # nx /\ NotYet(nr)
  /\ nx # None => In(nx, l) /\ layer[nx] = l /\ prev[nx] = n /\ w < low[nx]
  /\ \A x : Ent(n, x) = slot[n][x]
  /\ Moving(n, slot'[nr], perm'[nr], left, w) /\ Placed(c, slot'[nr], perm'[nr], left, w, d.state)
  /\ \A x \in Leaves : x # nr => slot'[x] = slot[x] /\ perm'[x] = perm[x] /\ locked'[x] = locked[x] /\ low'[x] = low[x]
  /\ locked'[nr] = p /\ low'[nr] = w /\ next'[nr] = nx /\ next'[n] = nr
  /\ \A x \in Leaves : x # n /\ x # nr => next'[x] = next[x]
  /\ \A x \in Leaves : prev'[x] = IF x = nr THEN n ELSE IF x = nx THEN nr ELSE prev[x]
  /\ dirty \subseteq dirty' /\ dirty' \subseteq dirty \cup {nr}
  /\ t' = [t EXCEPT ![p] = d] /\ SameLock(c, d) /\ d.pc = "split_tree" /\ d.other = nr
  /\ d.i = c.i /\ d.p = c.p /\ d.held = c.held
  /\ UNCHANGED <<modstate, deleted, layer, layers, gcs, scene, ops, db>>

LEMMA NoSlot ==
  ASSUME IInv, NEW n \in Leaves, NEW x, ~SlotFree(n, x)
  PROVE  perm[n].size = Width \/ (perm[n].size = Width - 1 /\ Back(perm[n]) = 0)
<1>1. perm[n] \in Permuters /\ Injective(perm[n])
  BY LeafType DEF IInv, StoreInv, SortInv
<1>2. PICK s \in 0..Width : s = perm[n].size
  BY <1>1, PermuterType
<1>3. Width \in Nat
  BY WidthFacts
<1>4. SUFFICES ASSUME s # Width PROVE s = Width - 1 /\ Back(perm[n]) = 0
  BY <1>2
<1>5. s < Width
  BY <1>3, <1>4
<1>6. Back(perm[n]) = 0 /\ Back(Rearranged(n)) = 0
  BY <1>2, <1>5 DEF SlotFree
<1>7. Back(Rearranged(n)) = perm[n].slot[s]
  BY <1>1, <1>2, <1>5, RearrangedOK DEF Rearranged
<1>8. s \in Slots /\ Width - 1 \in Slots
  BY <1>3, <1>5, WidthFacts DEF Slots
<1>9. perm[n].slot[s] = perm[n].slot[Width - 1]
  BY <1>6, <1>7 DEF Back
<1>10. s = Width - 1
  BY <1>1, <1>8, <1>9 DEF Injective
<1>11. QED
  BY <1>6, <1>10

LEMMA SplitMine ==
  ASSUME IInv, NEW p \in Procs, SplitInto(p)
  PROVE  \E c, d, n, nr, nx, l, left, w : Grown(p, c, d, n, nr, nx, l, left, w)
<1>1. PICK c \in Thread : c = t[p] /\ c.pc = "found"
  BY Mine DEF SplitInto
<1>2. /\ t \in [Procs -> Thread] /\ KeyOK(c) /\ HomeOK(c)
      /\ FoundOK(c) /\ c.node \in Leaves /\ locked[c.node] = p /\ c.other = None
      /\ c.node \notin deleted /\ Alloc(c.node) /\ c.op # "get"
  BY <1>1, FoundMine
<1>2a. PICK n \in Leaves : n = c.node
  BY <1>2
<1>3. PICK nr, m, k : n = c.node /\ nr = Fresh /\ m = Mid(n, c) /\ k = perm[n].size + 1 - m
  BY <1>2a
<1>4. /\ c.op = "put" /\ c.state = 0 /\ c.p = None
      /\ modstate[n] = "insert" /\ ~SlotFree(n, Ikey(c)) /\ Unused # {}
  BY <1>1, <1>3 DEF SplitInto
<1>5. PICK f : f = [j \in Slots |-> IF j < k THEN Moved(n, c, m, j) ELSE NewSlot]
  OBVIOUS
<1>6. PICK pm : pm = IF c.i >= m THEN RemoveToBack(MakeSorted(k), c.i - m) ELSE MakeSorted(k)
  OBVIOUS
<1>7. PICK w, z : w = IkeyAfterInsert(n, c, m) /\ z = IF c.i < m THEN 0 ELSE 1
  OBVIOUS
<1>8. /\ slot' = [slot EXCEPT ![nr] = f] /\ perm' = [perm EXCEPT ![nr] = pm]
      /\ locked' = [locked EXCEPT ![nr] = p]
      /\ dirty' = IF n \in dirty THEN dirty \cup {nr} ELSE dirty
      /\ low' = [low EXCEPT ![nr] = w]
      /\ next' = [next EXCEPT ![nr] = next[n], ![n] = nr]
      /\ prev' = [x \in Leaves |-> IF x = nr THEN n ELSE IF x = next[n] THEN nr ELSE prev[x]]
      /\ t' = [t EXCEPT ![p].pc = "split_tree", ![p].other = nr, ![p].state = z]
      /\ UNCHANGED <<modstate, deleted, layer, layers, gcs, scene, ops, db>>
  BY <1>1, <1>3, <1>5, <1>6, <1>7, Zenon DEF SplitInto
<1>9. NotYet(nr)
  BY <1>3, <1>4, FreshLeaf
<1>10. TypeOK /\ layers \subseteq Layers
  BY DEF IInv, StoreInv, TypeOK, LeafTypeOK
<1>11. Position(c)
  BY <1>2, <1>4 DEF FoundOK
<1>12. PICK l \in layers : l = layer[n] /\ In(n, l)
  BY <1>2, <1>3 DEF HomeOK
<1>13. \A x : Ent(n, x) = slot[n][x]
  BY <1>1, <1>2, <1>3, EntSlot, FoundPc
<1>14. perm[n].size = Width \/ (perm[n].size = Width - 1 /\ Back(perm[n]) = 0)
  BY <1>4, NoSlot
<1>15. PICK left : Moving(n, f, pm, left, w) /\ Placed(c, f, pm, left, w, z)
  <2>1. PICK s \in Nat : s = perm[n].size
    BY <1>10, LeafType, PermuterType
  <2>2. SplitShape(n, c, s, m, k, f, pm, w, z)
    BY <1>3, <1>5, <1>6, <1>7, <2>1, Zenon DEF SplitShape
  <2>3. s \in {Width - 1, Width} /\ c.node = n
    BY <1>3, <1>14, <2>1
  <2>4. QED
    BY <1>2, <1>11, <1>13, <2>1, <2>2, <2>3, SplitFill
<1>16. PICK nx \in Leaves \cup {None} : nx = next[n]
  BY <1>10, LeafType
<1>17. n # nr /\ nr # nx
  BY <1>2, <1>3, <1>9, <1>16 DEF NotYet
<1>18. /\ low[n] \in Nat /\ w \in Nat /\ (nx # None => nx \in Leaves /\ low[nx] \in Nat)
  BY <1>10, <1>15, <1>16, LeafType DEF Moving
<1>19. nx # None => In(nx, l) /\ prev[nx] = n /\ low[n] < low[nx]
  BY <1>12, <1>16 DEF IInv, StoreInv, ListInv
<1>20. n # nx
  BY <1>18, <1>19, ConstantFacts
<1>21. nx # None => w < low[nx]
  <2>1. ~Splitting(n)
    BY <1>1, <1>2, <1>3, FoundPc DEF Splitting
  <2>2. Hi(n) = nx
    BY <1>16, <2>1 DEF Hi
  <2>3. Below(n, w)
    BY <1>15 DEF Moving, Covers
  <2>4. QED
    BY <2>2, <2>3 DEF Below
<1>22. nx # None => layer[nx] = l
  <2>1. SUFFICES ASSUME nx # None, layer[nx] # l PROVE FALSE
    OBVIOUS
  <2>2. layer[nx] = None /\ nx \notin deleted
    BY <1>19, <2>1 DEF In
  <2>3. Alloc(nx)
    BY <1>16, <2>1 DEF IInv, StoreInv, AllocInv
  <2>4. locked[nx] # None /\ nx \in Leaves
    BY <1>18, <2>1, <2>2, <2>3 DEF Alloc
  <2>5. PICK q \in Procs : q = locked[nx]
    BY <1>10, <2>4, LeafType
  <2>6. t[q].pc = "split_tree" /\ t[q].other = nx
    BY <2>2, <2>4, <2>5 DEF IInv, StoreInv, AllocInv
  <2>7. MidView(q, t[q], t[q].node, t[q].other)
    BY <2>6, MidMine, MidPcs
  <2>8. prev[nx] = t[q].node /\ locked[t[q].node] = q
    BY <2>6, <2>7 DEF MidView
  <2>9. q = p
    BY <1>2, <1>3, <1>19, <2>1, <2>8
  <2>10. QED
    BY <1>1, <2>6, <2>9
<1>23. PICK d \in Thread : d = [c EXCEPT !.pc = "split_tree", !.other = nr, !.state = z]
  <2>1. z \in {-1, 0, 1}
    BY <1>15 DEF Placed
  <2>2. PICK u \in Pcs : u = "split_tree"
    BY MidPcs
  <2>3. nr \in Leaves
    BY <1>9 DEF NotYet
  <2>4. [c EXCEPT !.pc = u, !.other = nr, !.state = z] \in Thread
    BY <2>1, <2>3, ThreadSplit
  <2>5. QED
    BY <2>2, <2>4
<1>24. SameLock(c, d) /\ d.pc = "split_tree" /\ d.other = nr /\ d.i = c.i /\ d.p = c.p /\ d.held = c.held /\ d.state = z
  BY <1>23 DEF Thread, SameLock
<1>25. t' = [t EXCEPT ![p] = d]
  BY <1>1, <1>2, <1>8, <1>23
<1>26. t' \in [Procs -> Thread]
  BY <1>2, <1>25
<1>27. nr \in Leaves
  BY <1>9 DEF NotYet
<1>28. /\ slot'[nr] = f /\ perm'[nr] = pm /\ locked'[nr] = p /\ low'[nr] = w /\ next'[nr] = nx /\ next'[n] = nr
       /\ \A x \in Leaves : x # nr => slot'[x] = slot[x] /\ perm'[x] = perm[x] /\ locked'[x] = locked[x] /\ low'[x] = low[x]
       /\ \A x \in Leaves : x # n /\ x # nr => next'[x] = next[x]
       /\ \A x \in Leaves : prev'[x] = IF x = nr THEN n ELSE IF x = nx THEN nr ELSE prev[x]
  BY <1>8, <1>10, <1>16, <1>17, <1>27 DEF TypeOK, LeafTypeOK
<1>29. TypeOK'
  <2>1. f \in [Slots -> Slot] /\ pm \in Permuters /\ w \in Nat
    BY <1>15 DEF Moving
  <2>2. slot' \in [Leaves -> [Slots -> Slot]] /\ perm' \in [Leaves -> Permuters]
    BY <1>8, <1>10, <2>1 DEF TypeOK, LeafTypeOK
  <2>3. /\ locked' \in [Leaves -> Procs \cup {None}] /\ low' \in [Leaves -> Nat] /\ dirty' \subseteq Leaves
    BY <1>8, <1>10, <1>27, <2>1 DEF TypeOK, LeafTypeOK
  <2>4. next' \in [Leaves -> Leaves \cup {None}] /\ prev' \in [Leaves -> Leaves \cup {None}]
    BY <1>8, <1>10, <1>16, <1>27 DEF TypeOK, LeafTypeOK
  <2>5. QED
    BY <1>8, <1>10, <1>26, <2>2, <2>3, <2>4 DEF TypeOK, LeafTypeOK
<1>30. dirty \subseteq dirty' /\ dirty' \subseteq dirty \cup {nr}
  BY <1>8
<1>31. UNCHANGED <<modstate, deleted, layer, layers, gcs, scene, ops, db>>
  BY <1>8
<1>32. /\ TypeOK /\ TypeOK' /\ c \in Thread /\ d \in Thread /\ c = t[p] /\ n \in Leaves /\ nr \in Leaves
       /\ nx \in Leaves \cup {None} /\ l \in layers /\ l \in Layers /\ layers \subseteq Layers
       /\ c.pc = "found" /\ c.op = "put" /\ KeyOK(c) /\ HomeOK(c) /\ Position(c) /\ c.node = n /\ c.other = None
       /\ locked[n] = p /\ n \notin deleted /\ modstate[n] = "insert" /\ layer[n] = l /\ In(n, l) /\ next[n] = nx
  BY <1>1, <1>2, <1>3, <1>4, <1>10, <1>11, <1>12, <1>16, <1>27, <1>29
<1>33. Moving(n, slot'[nr], perm'[nr], left, w) /\ Placed(c, slot'[nr], perm'[nr], left, w, d.state)
  BY <1>15, <1>24, <1>28
<1>34. nx # None => In(nx, l) /\ layer[nx] = l /\ prev[nx] = n /\ w < low[nx]
  BY <1>19, <1>21, <1>22
<1>35. Grown(p, c, d, n, nr, nx, l, left, w)
  BY <1>9, <1>13, <1>14, <1>17, <1>20, <1>24, <1>25, <1>28, <1>30, <1>31, <1>32, <1>33, <1>34, Zenon DEF Grown
<1>36. QED
  BY <1>35

LEMMA GrownThreads ==
  ASSUME IInv, NEW p \in Procs, NEW c, NEW d, NEW n, NEW nr, NEW nx, NEW l, NEW left, NEW w,
         Grown(p, c, d, n, nr, nx, l, left, w)
  PROVE  /\ ThreadFrame(p) /\ LockInv' /\ LocksFrame(p) /\ t'[p] = d
         /\ \A q \in Procs \ {p} : t'[q] = t[q]
         /\ \A x \in Leaves : locked[x] = p <=> x = n
         /\ ~Splitting(n) /\ ~Splitting(nr)
         /\ \A x \in Leaves : Splitting(x)' <=> x = n \/ Splitting(x)
<1>1. /\ TypeOK /\ TypeOK' /\ c \in Thread /\ d \in Thread /\ c = t[p] /\ n \in Leaves /\ nr \in Leaves
      /\ c.pc = "found" /\ c.node = n /\ c.other = None /\ locked[n] = p /\ nr # n /\ NotYet(nr)
  BY DEF Grown
<1>2. /\ \A x \in Leaves : x # nr => locked'[x] = locked[x]
      /\ locked'[nr] = p /\ dirty \subseteq dirty' /\ dirty' \subseteq dirty \cup {nr}
      /\ t' = [t EXCEPT ![p] = d] /\ SameLock(c, d) /\ d.pc = "split_tree" /\ d.other = nr
      /\ d.held = c.held /\ db' = db
  BY DEF Grown
<1>3. ThreadFrame(p) /\ t'[p] = d /\ \A q \in Procs \ {p} : t'[q] = t[q]
  BY <1>1, <1>2, OneFrame
<1>4. LocksFrame(p)
  BY <1>1, <1>2 DEF LocksFrame, NotYet
<1>5. d.node = n
  BY <1>1, <1>2 DEF SameLock
<1>6. \A x \in Leaves : locked[x] = p <=> x = n
  <2>1. \A x \in Leaves : locked[x] = p <=> Owns(c, x)
    BY <1>1 DEF IInv, StoreInv, LockInv
  <2>2. QED
    BY <1>1, <2>1, ConstantFacts, FoundPc DEF Owns
<1>7. LockInv'
  <2>1. \A x \in Leaves : locked'[x] = p <=> Owns(t'[p], x)
    <3>1. \A x \in Leaves : locked'[x] = p <=> x = n \/ x = nr
      BY <1>1, <1>2, <1>6
    <3>2. \A x \in Leaves : Owns(d, x) <=> x = n \/ x = nr
      BY <1>2, <1>5, MidPcs DEF Owns
    <3>3. QED
      BY <1>3, <3>1, <3>2
  <2>2. t'[p].pc \in LockPc => t'[p].node \in Leaves /\ t'[p].other # t'[p].node
    BY <1>1, <1>2, <1>3, <1>5
  <2>3. \A x \in dirty' : locked'[x] # None
    <3>1. \A x \in dirty : locked[x] # None /\ x \in Leaves
      BY <1>1 DEF IInv, StoreInv, LockInv, TypeOK, LeafTypeOK
    <3>2. p # None
      BY ConstantFacts
    <3>3. QED
      BY <1>2, <3>1, <3>2
  <2>4. \A x \in dirty' : x \in dirty \/ \A q \in Procs \ {p} : t[q].node = x => t'[q].held # "same"
    BY <1>1, <1>2 DEF NotYet
  <2>5. t'[p].node \in dirty' => t'[p].held # "same"
    <3>1. n \in dirty => c.held # "same"
      BY <1>1 DEF IInv, StoreInv, LockInv
    <3>2. QED
      BY <1>1, <1>2, <1>3, <1>5, <3>1
  <2>6. LockInv
    BY DEF IInv, StoreInv
  <2>7. QED
    BY <1>1, <1>3, <1>4, <2>1, <2>2, <2>3, <2>4, <2>5, <2>6, LockStep
<1>8. ~Splitting(n)
  BY <1>1, FoundPc DEF Splitting
<1>9. ~Splitting(nr)
  BY <1>1 DEF Splitting, NotYet
<1>10. ASSUME NEW x \in Leaves PROVE Splitting(x)' <=> x = n \/ Splitting(x)
  <2>1. CASE x = n
    BY <1>1, <1>2, <1>3, <1>5, <2>1, MidPcs, ConstantFacts DEF Splitting
  <2>2. CASE x = nr
    BY <1>1, <1>2, <1>3, <1>5, <1>9, <2>2 DEF Splitting
  <2>3. CASE x # n /\ x # nr
    <3>1. locked'[x] = locked[x] /\ locked[x] # p /\ locked[x] \in Procs \cup {None}
      BY <1>1, <1>2, <1>6, <2>3, LeafType
    <3>2. QED
      BY <1>3, <2>3, <3>1 DEF Splitting
  <2>4. QED
    BY <2>1, <2>2, <2>3
<1>11. QED
  BY <1>3, <1>4, <1>6, <1>7, <1>8, <1>9, <1>10

LEMMA GrownEntries ==
  ASSUME IInv, NEW p \in Procs, NEW c, NEW d, NEW n, NEW nr, NEW nx, NEW l, NEW left, NEW w,
         Grown(p, c, d, n, nr, nx, l, left, w)
  PROVE  /\ \A x \in Leaves : x # nr => Entries(x)' = Entries(x)
         /\ \A e : e \in Entries(nr)' <=> e \in Entries(n) /\ ~(e.ikey < w)
<1>1. /\ TypeOK /\ TypeOK' /\ c \in Thread /\ d \in Thread /\ c = t[p] /\ n \in Leaves /\ nr \in Leaves
      /\ c.pc = "found" /\ c.node = n /\ nr # n
      /\ \A x : Ent(n, x) = slot[n][x]
      /\ Moving(n, slot'[nr], perm'[nr], left, w)
      /\ \A x \in Leaves : x # nr => slot'[x] = slot[x] /\ perm'[x] = perm[x]
      /\ SameLock(c, d) /\ d.pc = "split_tree" /\ locked'[nr] = p /\ layer' = layer
  BY DEF Grown
<1>2. ThreadFrame(p) /\ LocksFrame(p) /\ t'[p] = d
  BY GrownThreads
<1>3. t[p].pc \notin TurnPc /\ t'[p].pc \notin TurnPc
  BY <1>1, <1>2, FoundPc, MidPcs
<1>4. ASSUME NEW x \in Leaves, x # nr PROVE Entries(x)' = Entries(x)
  <2>1. \A m \in Leaves : layer[m] # None /\ prev[m] = None => layer'[m] = layer[m]
    BY <1>1
  <2>2. slot'[x] = slot[x] /\ perm'[x] = perm[x]
    BY <1>1, <1>4
  <2>3. QED
    BY <1>1, <1>2, <1>3, <2>1, <2>2, EntriesSame
<1>5. Entries(nr)' = Filled(perm'[nr], slot'[nr])
  <2>1. t'[locked'[nr]].pc \notin TurnPc
    BY <1>1, <1>3
  <2>2. QED
    BY <2>1, EntriesNext
<1>6. PICK f, pm, s : f = slot'[nr] /\ pm = perm'[nr] /\ s = perm[n].size
  OBVIOUS
<1>7. /\ left \in 0..s /\ pm.size = s - left /\ s \in Nat
      /\ \A j \in Index(pm) : left + j \in Index(perm[n]) /\ f[pm.slot[j]] = At(n, left + j)
      /\ \A j \in Index(perm[n]) : At(n, j).ikey < w <=> j < left
  BY <1>1, <1>6, LeafType, PermuterType DEF Moving
<1>8. ASSUME NEW e PROVE e \in Filled(pm, f) <=> e \in Entries(n) /\ ~(e.ikey < w)
  <2>1. ASSUME e \in Filled(pm, f) PROVE e \in Entries(n) /\ ~(e.ikey < w)
    <3>1. PICK j \in Index(pm) : e = f[pm.slot[j]]
      BY <2>1 DEF Filled
    <3>2. left + j \in Index(perm[n]) /\ e = At(n, left + j)
      BY <1>7, <3>1
    <3>3. ~(left + j < left)
      BY <1>7, <3>1 DEF Index
    <3>4. e \in Entries(n)
      BY <1>1, <3>2, EntriesAt
    <3>5. QED
      BY <1>7, <3>2, <3>3, <3>4
  <2>2. ASSUME e \in Entries(n), ~(e.ikey < w) PROVE e \in Filled(pm, f)
    <3>1. PICK i \in Index(perm[n]) : e = At(n, i)
      BY <1>1, <2>2, EntriesAt
    <3>2. ~(i < left)
      BY <1>7, <2>2, <3>1
    <3>3. i \in 0..(s - 1)
      BY <1>6 DEF Index
    <3>4. i - left \in 0..(pm.size - 1) /\ left + (i - left) = i
      BY <1>7, <3>2, <3>3
    <3>5. e = f[pm.slot[i - left]] /\ i - left \in Index(pm)
      BY <1>7, <3>1, <3>4 DEF Index
    <3>6. QED
      BY <3>5 DEF Filled
  <2>3. QED
    BY <2>1, <2>2
<1>9. QED
  BY <1>4, <1>5, <1>6, <1>8

LEMMA GrownViews ==
  ASSUME IInv, NEW p \in Procs, NEW c, NEW d, NEW n, NEW nr, NEW nx, NEW l, NEW left, NEW w,
         Grown(p, c, d, n, nr, nx, l, left, w)
  PROVE  /\ \A x \in Leaves : x # nr => (Linked(x)' <=> Linked(x))
         /\ Linked(nr)'
         /\ \A x \in Leaves : \A y \in Layers : x # nr => (In(x, y)' <=> In(x, y))
         /\ \A y \in Layers : In(nr, y)' <=> y = l
         /\ \A x \in Leaves : Gone(x)' <=> x # nr /\ Gone(x)
         /\ Gone(nr)
<1>1. /\ TypeOK /\ n \in Leaves /\ nr \in Leaves /\ nx \in Leaves \cup {None} /\ l \in Layers
      /\ layer[n] = l /\ In(n, l) /\ next[n] = nx /\ nr # n /\ nr # nx /\ n # nx /\ NotYet(nr)
      /\ nx # None => layer[nx] = l /\ prev[nx] = n
      /\ next'[nr] = nx /\ next'[n] = nr
      /\ \A x \in Leaves : x # n /\ x # nr => next'[x] = next[x]
      /\ \A x \in Leaves : prev'[x] = IF x = nr THEN n ELSE IF x = nx THEN nr ELSE prev[x]
      /\ layer' = layer /\ deleted' = deleted
  BY DEF Grown
<1>2. /\ None \notin Leaves /\ None \notin Layers /\ layer[nr] = None /\ nr \notin deleted
      /\ \A x \in Leaves : next[x] # nr /\ prev[x] # nr /\ prev[x] \in Leaves \cup {None}
      /\ \A y \in Layers : ~In(nr, y)
  BY <1>1, ConstantFacts DEF NotYet, TypeOK, LeafTypeOK
<1>3. prev[n] # n
  BY <1>1, <1>2 DEF In, Linked
<1>4. ASSUME NEW x \in Leaves, x # nr PROVE Linked(x)' <=> Linked(x)
  <2>1. CASE x = nx
    BY <1>1, <1>2, <2>1 DEF Linked
  <2>2. CASE x # nx
    <3>1. prev'[x] = prev[x] /\ prev[x] # nr
      BY <1>1, <1>2, <1>4, <2>2
    <3>2. CASE prev[x] = None
      BY <3>1, <3>2 DEF Linked
    <3>3. CASE prev[x] = n
      BY <1>1, <1>4, <2>2, <3>1, <3>3 DEF Linked
    <3>4. CASE prev[x] # None /\ prev[x] # n
      <4>1. next'[prev[x]] = next[prev[x]]
        BY <1>1, <1>2, <3>1, <3>4
      <4>2. QED
        BY <3>1, <4>1 DEF Linked
    <3>5. QED
      BY <3>2, <3>3, <3>4
  <2>3. QED
    BY <2>1, <2>2
<1>5. Linked(nr)'
  BY <1>1 DEF Linked
<1>6. ASSUME NEW x \in Leaves, NEW y \in Layers, x # nr PROVE In(x, y)' <=> In(x, y)
  <2>1. Linked(x)' <=> Linked(x)
    BY <1>4, <1>6
  <2>2. CASE x = nx
    <3>1. layer[x] # None
      BY <1>1, <1>2, <2>2
    <3>2. QED
      BY <1>1, <2>1, <3>1 DEF In
  <2>3. CASE x # nx
    BY <1>1, <1>6, <2>1, <2>3 DEF In
  <2>4. QED
    BY <2>2, <2>3
<1>7. ASSUME NEW y \in Layers PROVE In(nr, y)' <=> y = l
  BY <1>1, <1>2, <1>5 DEF In
<1>8. Gone(nr)
  BY <1>2 DEF Gone
<1>9. \A x \in Leaves : Gone(x)' <=> x # nr /\ Gone(x)
  BY <1>1, <1>6, <1>7 DEF Gone
<1>10. QED
  BY <1>4, <1>5, <1>6, <1>7, <1>8, <1>9

LEMMA GrownHi ==
  ASSUME IInv, NEW p \in Procs, NEW c, NEW d, NEW n, NEW nr, NEW nx, NEW l, NEW left, NEW w,
         Grown(p, c, d, n, nr, nx, l, left, w)
  PROVE  /\ \A x \in Leaves : x # nr => Hi(x)' = Hi(x) /\ Hi(x) # nr /\ Hi(x) \in Leaves \cup {None}
         /\ Hi(nr)' = nx /\ Hi(n) = nx
<1>1. /\ TypeOK /\ n \in Leaves /\ nr \in Leaves /\ nx \in Leaves \cup {None}
      /\ next[n] = nx /\ nr # n /\ nr # nx /\ locked[n] = p /\ NotYet(nr)
      /\ next'[nr] = nx /\ next'[n] = nr
      /\ \A x \in Leaves : x # n /\ x # nr => next'[x] = next[x]
  BY DEF Grown
<1>2. /\ ~Splitting(n) /\ ~Splitting(nr)
      /\ \A x \in Leaves : Splitting(x)' <=> x = n \/ Splitting(x)
      /\ \A x \in Leaves : locked[x] = p <=> x = n
  BY GrownThreads
<1>3. \A x \in Leaves : next[x] # nr /\ next[x] \in Leaves \cup {None}
  BY <1>1 DEF NotYet, TypeOK, LeafTypeOK
<1>4. Hi(n) = nx /\ Hi(n)' = nx
  BY <1>1, <1>2 DEF Hi
<1>5. Hi(nr)' = nx
  BY <1>1, <1>2 DEF Hi
<1>6. ASSUME NEW x \in Leaves, x # nr, x # n PROVE Hi(x)' = Hi(x) /\ Hi(x) # nr /\ Hi(x) \in Leaves \cup {None}
  <2>1. CASE ~Splitting(x)
    BY <1>1, <1>2, <1>3, <1>6, <2>1 DEF Hi
  <2>2. CASE Splitting(x)
    <3>1. PICK q \in Procs : locked[x] = q /\ next[x] \in Leaves /\ locked[next[x]] = q
      BY <2>2, SplitterFacts
    <3>2. PICK r \in Leaves : r = next[x] /\ r # n /\ r # nr
      BY <1>2, <1>3, <1>6, <3>1
    <3>3. next'[x] = r /\ next'[r] = next[r]
      BY <1>1, <1>6, <3>2
    <3>4. Hi(x) = next[r] /\ Hi(x)' = next[r]
      BY <1>2, <2>2, <3>2, <3>3 DEF Hi
    <3>5. QED
      BY <1>3, <3>2, <3>4
  <2>3. QED
    BY <2>1, <2>2
<1>7. QED
  BY <1>1, <1>4, <1>5, <1>6

LEMMA GrownCovers ==
  ASSUME IInv, NEW p \in Procs, NEW c, NEW d, NEW n, NEW nr, NEW nx, NEW l, NEW left, NEW w,
         Grown(p, c, d, n, nr, nx, l, left, w)
  PROVE  /\ \A x \in Leaves : \A z : x # nr => (Below(x, z)' <=> Below(x, z))
         /\ \A x \in Leaves : \A z : x # nr => (Covers(x, z)' <=> Covers(x, z))
         /\ \A z : Below(nr, z)' <=> Below(n, z)
         /\ \A z \in Nat : Covers(nr, z)' <=> w <= z /\ Covers(n, z)
<1>1. /\ TypeOK /\ n \in Leaves /\ nr \in Leaves /\ nx \in Leaves \cup {None} /\ nr # nx
      /\ \A x \in Leaves : x # nr => low'[x] = low[x]
      /\ low'[nr] = w /\ w \in Nat /\ low[n] < w
  BY DEF Grown, Moving
<1>2. /\ \A x \in Leaves : x # nr => Hi(x)' = Hi(x) /\ Hi(x) # nr /\ Hi(x) \in Leaves \cup {None}
      /\ Hi(nr)' = nx /\ Hi(n) = nx
  BY GrownHi
<1>3. ASSUME NEW x \in Leaves, NEW z, x # nr PROVE Below(x, z)' <=> Below(x, z)
  <2>1. PICK h \in Leaves \cup {None} : h = Hi(x) /\ h = Hi(x)' /\ h # nr
    BY <1>2, <1>3
  <2>2. h # None => low'[h] = low[h]
    BY <1>1, <2>1
  <2>3. QED
    BY <2>1, <2>2 DEF Below
<1>4. ASSUME NEW x \in Leaves, NEW z, x # nr PROVE Covers(x, z)' <=> Covers(x, z)
  BY <1>1, <1>3, <1>4 DEF Covers
<1>5. ASSUME NEW z PROVE Below(nr, z)' <=> Below(n, z)
  BY <1>1, <1>2 DEF Below
<1>6. ASSUME NEW z \in Nat PROVE Covers(nr, z)' <=> w <= z /\ Covers(n, z)
  <2>1. low[n] \in Nat
    BY <1>1, LeafType
  <2>2. w <= z => low[n] <= z
    BY <1>1, <2>1
  <2>3. QED
    BY <1>1, <1>5, <2>2 DEF Covers
<1>7. QED
  BY <1>3, <1>4, <1>5, <1>6

LEMMA GrownAttached ==
  ASSUME IInv, NEW p \in Procs, NEW c, NEW d, NEW n, NEW nr, NEW nx, NEW l, NEW left, NEW w,
         Grown(p, c, d, n, nr, nx, l, left, w)
  PROVE  \A g, a : Attached(g, a)' <=> Attached(g, a)
<1>1. n \in Leaves /\ nr \in Leaves /\ In(n, l)
  BY DEF Grown
<1>2. /\ \A x \in Leaves : x # nr => (In(x, RootLayer)' <=> In(x, RootLayer))
      /\ In(nr, RootLayer)' <=> RootLayer = l
      /\ ~In(nr, RootLayer)
  BY GrownViews, ConstantFacts DEF Gone
<1>3. /\ \A x \in Leaves : x # nr => Entries(x)' = Entries(x)
      /\ \A e : e \in Entries(nr)' <=> e \in Entries(n) /\ ~(e.ikey < w)
  BY GrownEntries
<1>4. ASSUME NEW g, NEW a, Attached(g, a) PROVE Attached(g, a)'
  BY <1>2, <1>3, <1>4 DEF Attached
<1>5. ASSUME NEW g, NEW a, Attached(g, a)' PROVE Attached(g, a)
  <2>1. PICK x \in Leaves : In(x, RootLayer)' /\ \E e \in Entries(x)' : IsLayer(e, g, a)
    BY <1>5 DEF Attached, IsLayer
  <2>2. CASE x = nr
    BY <1>1, <1>2, <1>3, <2>1, <2>2 DEF Attached
  <2>3. CASE x # nr
    BY <1>2, <1>3, <2>1, <2>3 DEF Attached
  <2>4. QED
    BY <2>2, <2>3
<1>6. QED
  BY <1>4, <1>5

LEMMA GrownList ==
  ASSUME IInv, NEW p \in Procs, NEW c, NEW d, NEW n, NEW nr, NEW nx, NEW l, NEW left, NEW w,
         Grown(p, c, d, n, nr, nx, l, left, w)
  PROVE  ListInv'
<1>1. /\ TypeOK /\ n \in Leaves /\ nr \in Leaves /\ nx \in Leaves \cup {None} /\ l \in layers /\ l \in Layers
      /\ In(n, l) /\ next[n] = nx /\ nr # n /\ nr # nx /\ n # nx /\ NotYet(nr)
      /\ nx # None => In(nx, l) /\ prev[nx] = n /\ w < low[nx]
      /\ layers' = layers /\ layers \subseteq Layers /\ w \in Nat /\ low[n] < w
  BY DEF Grown, Moving
<1>2. /\ \A x \in Leaves : x # nr => low'[x] = low[x]
      /\ low'[nr] = w /\ next'[nr] = nx /\ next'[n] = nr
      /\ \A x \in Leaves : x # n /\ x # nr => next'[x] = next[x]
      /\ \A x \in Leaves : prev'[x] = IF x = nr THEN n ELSE IF x = nx THEN nr ELSE prev[x]
  BY DEF Grown
<1>3. /\ None \notin Leaves
      /\ \A x \in Leaves : next[x] # nr /\ prev[x] # nr
      /\ \A x \in Leaves : next[x] \in Leaves \cup {None} /\ prev[x] \in Leaves \cup {None} /\ low[x] \in Nat
  BY <1>1, ConstantFacts DEF NotYet, TypeOK, LeafTypeOK
<1>4. \A x \in Leaves : \A y \in layers : x # nr => (In(x, y)' <=> In(x, y))
  BY <1>1, GrownViews
<1>5. \A y \in layers : (In(nr, y)' <=> y = l) /\ ~In(nr, y)
  BY <1>1, GrownViews DEF Gone
<1>6. \A x \in Leaves : \A y \in layers : In(x, y) /\ In(x, l) => y = l
  BY <1>1, InUnique
<1>7. ASSUME NEW y \in layers, NEW x \in Leaves, In(x, y), x # nr
      PROVE  /\ next[x] # None => In(next[x], y) /\ prev[next[x]] = x /\ low[x] < low[next[x]]
             /\ prev[x] # None => In(prev[x], y) /\ next[prev[x]] = x
             /\ prev[x] = None => low[x] = 0
  BY <1>7 DEF IInv, StoreInv, ListInv
<1>8. ASSUME NEW y \in layers, NEW x \in Leaves, In(x, y)', next'[x] # None
      PROVE  In(next[x], y)' /\ prev'[next'[x]] = x /\ low'[x] < low'[next'[x]]
  <2>1. CASE x = nr
    <3>1. y = l /\ next'[x] = nx /\ nx # None
      BY <1>2, <1>5, <1>8, <2>1
    <3>2. In(nx, l)' /\ prev'[nx] = nr /\ low'[nr] < low'[nx]
      BY <1>1, <1>2, <1>4, <3>1
    <3>3. QED
      BY <2>1, <3>1, <3>2
  <2>2. CASE x = n
    <3>1. y = l /\ next'[x] = nr
      BY <1>1, <1>2, <1>4, <1>6, <1>8, <2>2
    <3>2. In(nr, l)' /\ prev'[nr] = n /\ low'[n] < low'[nr]
      BY <1>1, <1>2, <1>5
    <3>3. QED
      BY <2>2, <3>1, <3>2
  <2>3. CASE x # n /\ x # nr
    <3>1. PICK m \in Leaves : m = next[x] /\ next'[x] = m /\ m # nr
      BY <1>2, <1>3, <1>8, <2>3
    <3>2. In(x, y) /\ In(m, y) /\ prev[m] = x /\ low[x] < low[m]
      BY <1>3, <1>4, <1>7, <1>8, <2>3, <3>1
    <3>3. m # nx
      BY <1>1, <1>3, <2>3, <3>1, <3>2
    <3>4. In(m, y)' /\ prev'[m] = x /\ low'[x] < low'[m]
      BY <1>2, <1>4, <2>3, <3>1, <3>2, <3>3
    <3>5. QED
      BY <3>1, <3>4
  <2>4. QED
    BY <2>1, <2>2, <2>3
<1>9. ASSUME NEW y \in layers, NEW x \in Leaves, In(x, y)', prev'[x] # None
      PROVE  In(prev[x], y)' /\ next'[prev'[x]] = x
  <2>1. CASE x = nr
    <3>1. y = l /\ prev'[x] = n /\ In(n, l)' /\ next'[n] = nr
      BY <1>1, <1>2, <1>4, <1>5, <1>9, <2>1
    <3>2. QED
      BY <2>1, <3>1
  <2>2. CASE x = nx
    <3>1. y = l /\ prev'[x] = nr
      BY <1>1, <1>2, <1>3, <1>4, <1>6, <1>9, <2>2
    <3>2. In(nr, l)' /\ next'[nr] = nx
      BY <1>1, <1>2, <1>5
    <3>3. QED
      BY <2>2, <3>1, <3>2
  <2>3. CASE x # nx /\ x # nr
    <3>1. PICK m \in Leaves : m = prev[x] /\ prev'[x] = m /\ m # nr
      BY <1>2, <1>3, <1>9, <2>3
    <3>2. In(m, y) /\ next[m] = x
      BY <1>3, <1>4, <1>7, <1>9, <2>3, <3>1
    <3>3. m # n
      BY <1>1, <2>3, <3>2
    <3>4. In(m, y)' /\ next'[m] = x
      BY <1>2, <1>4, <3>1, <3>2, <3>3
    <3>5. QED
      BY <3>1, <3>4
  <2>4. QED
    BY <2>1, <2>2, <2>3
<1>10. ASSUME NEW y \in layers, NEW x \in Leaves, In(x, y)', prev'[x] = None PROVE low'[x] = 0
  <2>1. x # nr /\ x # nx
    BY <1>1, <1>2, <1>3, <1>10
  <2>2. In(x, y) /\ prev[x] = None
    BY <1>2, <1>4, <1>10, <2>1
  <2>3. low[x] = 0
    BY <1>7, <2>1, <2>2
  <2>4. QED
    BY <1>2, <2>1, <2>3
<1>11. /\ \A y \in layers : \A x, m \in Leaves : In(x, y) /\ In(m, y) /\ low[x] < low[m] =>
            next[x] # None /\ low[next[x]] <= low[m]
       /\ \A y \in layers : \A x, m \in Leaves : In(x, y) /\ In(m, y) /\ low[x] = low[m] => x = m
  BY DEF IInv, StoreInv, ListInv
<1>12. ASSUME NEW m \in Leaves, In(m, l), m # n
       PROVE  low[m] # w /\ (w < low[m] => nx # None /\ low[nx] <= low[m])
              /\ (low[m] < w => low[m] < low[n])
  <2>1. low[m] # low[n]
    BY <1>1, <1>11, <1>12
  <2>2. low[n] < low[m] => nx # None /\ low[nx] <= low[m]
    BY <1>1, <1>11, <1>12
  <2>3. low[n] \in Nat /\ low[m] \in Nat /\ (nx # None => low[nx] \in Nat /\ w < low[nx])
    BY <1>1, <1>3
  <2>4. QED
    BY <1>1, <2>1, <2>2, <2>3
<1>13. ASSUME NEW y \in layers, NEW x \in Leaves, NEW m \in Leaves, In(x, y)', In(m, y)', low'[x] < low'[m]
       PROVE  next'[x] # None /\ low'[next'[x]] <= low'[m]
  <2>1. CASE x = nr
    <3>1. y = l /\ m # nr
      BY <1>1, <1>2, <1>5, <1>13, <2>1
    <3>2. In(m, l) /\ w < low[m]
      BY <1>1, <1>2, <1>4, <1>13, <2>1, <3>1
    <3>3. m # n
      BY <1>1, <1>3, <3>2
    <3>4. nx # None /\ low[nx] <= low[m]
      BY <1>12, <3>2, <3>3
    <3>5. QED
      BY <1>1, <1>2, <2>1, <3>1, <3>4
  <2>2. CASE x = n
    <3>1. next'[x] = nr /\ nr # None /\ low'[nr] = w
      BY <1>1, <1>2, <1>3, <2>2
    <3>2. CASE m = nr
      BY <1>1, <1>2, <3>1, <3>2
    <3>3. CASE m # nr
      <4>1. y = l /\ In(m, l) /\ low[n] < low[m] /\ m # n
        BY <1>1, <1>2, <1>3, <1>4, <1>6, <1>13, <2>2, <3>3
      <4>2. ~(low[m] < w)
        BY <1>3, <1>1, <1>12, <4>1
      <4>3. w <= low[m]
        BY <1>1, <1>3, <4>2
      <4>4. QED
        BY <1>2, <3>1, <3>3, <4>3
    <3>4. QED
      BY <3>2, <3>3
  <2>3. CASE x # n /\ x # nr
    <3>1. In(x, y) /\ next'[x] = next[x] /\ low'[x] = low[x] /\ next[x] # nr
      BY <1>2, <1>3, <1>4, <1>13, <2>3
    <3>2. CASE m = nr
      <4>1. y = l /\ low[x] < w
        BY <1>2, <1>5, <1>13, <3>1, <3>2
      <4>2. low[x] < low[n]
        BY <1>12, <2>3, <3>1, <4>1
      <4>3. next[x] # None /\ low[next[x]] <= low[n]
        BY <1>1, <1>11, <3>1, <4>1, <4>2
      <4>4. PICK h \in Leaves : h = next[x]
        BY <1>3, <4>3
      <4>5. low[h] <= w
        BY <1>1, <1>3, <4>3, <4>4
      <4>6. QED
        BY <1>2, <3>1, <3>2, <4>3, <4>4, <4>5
    <3>3. CASE m # nr
      <4>1. In(m, y) /\ low[x] < low[m] /\ low'[m] = low[m]
        BY <1>2, <1>4, <1>13, <3>1, <3>3
      <4>2. next[x] # None /\ low[next[x]] <= low[m]
        BY <1>11, <3>1, <4>1
      <4>3. PICK h \in Leaves : h = next[x]
        BY <1>3, <4>2
      <4>4. QED
        BY <1>2, <3>1, <4>1, <4>2, <4>3
    <3>4. QED
      BY <3>2, <3>3
  <2>4. QED
    BY <2>1, <2>2, <2>3
<1>14. ASSUME NEW y \in layers, NEW x \in Leaves, NEW m \in Leaves, In(x, y)', In(m, y)', low'[x] = low'[m], x # m
       PROVE  FALSE
  <2>1. ASSUME NEW u \in Leaves, In(u, y)', u # nr, In(nr, y)', low'[u] = w PROVE FALSE
    <3>1. In(u, l) /\ low[u] = w
      BY <1>2, <1>4, <1>5, <2>1
    <3>2. u # n
      BY <1>1, <1>3, <3>1
    <3>3. QED
      BY <1>12, <3>1, <3>2
  <2>2. CASE x = nr
    BY <1>2, <1>14, <2>1, <2>2
  <2>3. CASE m = nr
    BY <1>2, <1>14, <2>1, <2>3
  <2>4. CASE x # nr /\ m # nr
    BY <1>2, <1>4, <1>11, <1>14, <2>4
  <2>5. QED
    BY <2>2, <2>3, <2>4
<1>15. ASSUME NEW y \in layers PROVE \E x \in Leaves : In(x, y)' /\ prev'[x] = None
  <2>1. PICK x \in Leaves : In(x, y) /\ prev[x] = None
    BY DEF IInv, StoreInv, ListInv
  <2>2. x # nr /\ x # nx
    BY <1>1, <1>3, <1>5, <2>1
  <2>3. QED
    BY <1>2, <1>4, <2>1, <2>2
<1>16. QED
  BY <1>1, <1>8, <1>9, <1>10, <1>13, <1>14, <1>15 DEF ListInv

LEMMA GrownAlloc ==
  ASSUME IInv, NEW p \in Procs, NEW c, NEW d, NEW n, NEW nr, NEW nx, NEW l, NEW left, NEW w,
         Grown(p, c, d, n, nr, nx, l, left, w)
  PROVE  AllocInv' /\ \A x \in Leaves : Alloc(x)' <=> Alloc(x) \/ x = nr
<1>1. /\ TypeOK /\ TypeOK' /\ n \in Leaves /\ nr \in Leaves /\ nx \in Leaves \cup {None} /\ l \in layers /\ l \in Layers
      /\ layers \subseteq Layers /\ locked[n] = p /\ In(n, l) /\ nr # n /\ nr # nx
      /\ nx # None => In(nx, l)
      /\ c = t[p] /\ c.pc = "found" /\ c.node = n /\ SameLock(c, d) /\ d.pc = "split_tree" /\ d.other = nr
      /\ UNCHANGED <<modstate, deleted, layer, layers>>
  BY DEF Grown
<1>2. /\ \A x \in Leaves : x # nr => low'[x] = low[x] /\ perm'[x] = perm[x] /\ locked'[x] = locked[x]
      /\ locked'[nr] = p /\ next'[nr] = nx /\ next'[n] = nr
      /\ \A x \in Leaves : x # n /\ x # nr => next'[x] = next[x]
      /\ \A x \in Leaves : prev'[x] = IF x = nr THEN n ELSE IF x = nx THEN nr ELSE prev[x]
  BY DEF Grown
<1>3. None \notin Leaves /\ p # None /\ layer[nr] = None /\ nr \notin deleted
  BY ConstantFacts DEF Grown, NotYet
<1>4. \A x \in Leaves : Alloc(x)' <=> Alloc(x) \/ x = nr
  BY <1>1, <1>2, <1>3 DEF Alloc
<1>5. Alloc(n) /\ (nx # None => Alloc(nx) /\ nx \in Leaves)
  BY <1>1, InAlloc DEF IInv, StoreInv
<1>6. t'[p] = d /\ d.node = n /\ \A q \in Procs \ {p} : t'[q] = t[q]
  BY <1>1, GrownThreads DEF SameLock
<1>7. \A x \in Leaves : ~Alloc(x)' =>
        low'[x] = 0 /\ next'[x] = None /\ prev'[x] = None /\ modstate'[x] = "insert" /\ perm'[x].size = 0
  <2>1. SUFFICES ASSUME NEW x \in Leaves, ~Alloc(x), x # nr
                 PROVE  low'[x] = 0 /\ next'[x] = None /\ prev'[x] = None /\ modstate'[x] = "insert" /\ perm'[x].size = 0
    BY <1>4
  <2>2. x # n /\ x # nx
    BY <1>3, <1>5, <2>1
  <2>3. QED
    BY <1>1, <1>2, <2>1, <2>2 DEF IInv, StoreInv, AllocInv
<1>8. \A x \in Leaves : next'[x] # None => Alloc(next[x])'
  <2>1. SUFFICES ASSUME NEW x \in Leaves, next'[x] # None PROVE Alloc(next[x])'
    OBVIOUS
  <2>2. PICK m \in Leaves : m = next'[x]
    BY <1>1, <2>1 DEF TypeOK, LeafTypeOK
  <2>3. Alloc(m) \/ m = nr
    <3>1. next[x] # None => Alloc(next[x])
      BY DEF IInv, StoreInv, AllocInv
    <3>2. QED
      BY <1>2, <1>5, <2>1, <2>2, <3>1
  <2>4. Alloc(m)'
    BY <1>4, <2>3
  <2>5. QED
    BY <2>2, <2>4
<1>9. \A x \in Leaves : prev'[x] # None => Alloc(prev[x])'
  <2>1. SUFFICES ASSUME NEW x \in Leaves, prev'[x] # None PROVE Alloc(prev[x])'
    OBVIOUS
  <2>2. PICK m \in Leaves : m = prev'[x]
    BY <1>1, <2>1 DEF TypeOK, LeafTypeOK
  <2>3. Alloc(m) \/ m = nr
    <3>1. prev[x] # None => Alloc(prev[x])
      BY DEF IInv, StoreInv, AllocInv
    <3>2. QED
      BY <1>2, <1>5, <2>1, <2>2, <3>1
  <2>4. Alloc(m)'
    BY <1>4, <2>3
  <2>5. QED
    BY <2>2, <2>4
<1>10. \A q \in Procs : (t'[q].node # None => Alloc(t[q].node)') /\ (t'[q].other # None => Alloc(t[q].other)')
  <2>1. SUFFICES ASSUME NEW q \in Procs
                 PROVE (t'[q].node # None => Alloc(t[q].node)') /\ (t'[q].other # None => Alloc(t[q].other)')
    OBVIOUS
  <2>2. Alloc(n)' /\ Alloc(nr)'
    BY <1>1, <1>4, <1>5
  <2>3. CASE q = p
    BY <1>1, <1>6, <2>2, <2>3
  <2>4. CASE q # p
    <3>1. /\ t[q].node # None => Alloc(t[q].node) /\ t[q].node \in Leaves
          /\ t[q].other # None => Alloc(t[q].other) /\ t[q].other \in Leaves
      BY Mine
    <3>2. t'[q] = t[q]
      BY <1>6, <2>4
    <3>3. PICK x, y : x = t[q].node /\ y = t[q].other
      OBVIOUS
    <3>4. (x # None => Alloc(x)') /\ (y # None => Alloc(y)')
      BY <1>4, <3>1, <3>3
    <3>5. t'[q].node = x /\ t'[q].other = y
      BY <3>2, <3>3
    <3>6. QED
      BY <3>4, <3>5
  <2>5. QED
    BY <2>3, <2>4
<1>11. \A x \in Leaves : layer'[x] # None => layer'[x] \in layers'
  BY <1>1 DEF IInv, StoreInv, AllocInv
<1>12. \A x \in Leaves : locked'[x] # None /\ layer'[x] = None /\ x \notin deleted' =>
        t'[locked'[x]].pc = "split_tree" /\ t'[locked'[x]].other = x
  <2>1. SUFFICES ASSUME NEW x \in Leaves, locked'[x] # None, layer[x] = None, x \notin deleted
                 PROVE  t'[locked'[x]].pc = "split_tree" /\ t'[locked'[x]].other = x
    BY <1>1
  <2>2. CASE x = nr
    BY <1>1, <1>2, <1>6, <2>2
  <2>3. CASE x # nr
    <3>1. locked'[x] = locked[x] /\ locked[x] \in Procs
      BY <1>1, <1>2, <2>1, <2>3, LeafType
    <3>2. t[locked[x]].pc = "split_tree" /\ t[locked[x]].other = x
      BY <2>1, <3>1 DEF IInv, StoreInv, AllocInv
    <3>3. locked[x] # p
      BY <1>1, <3>2
    <3>4. QED
      BY <1>6, <3>1, <3>2, <3>3
  <2>4. QED
    BY <2>2, <2>3
<1>13. \A x \in Leaves : Alloc(x)' /\ x \notin deleted' => \E y \in layers' : In(x, y)'
  <2>1. /\ \A x \in Leaves : \A y \in layers : x # nr => (In(x, y)' <=> In(x, y))
        /\ In(nr, l)'
    BY <1>1, GrownViews
  <2>2. QED
    BY <1>1, <1>4, <2>1 DEF IInv, StoreInv, AllocInv
<1>14. \A x \in Leaves : layer'[x] # None /\ (~Linked(x)' \/ x \in deleted') =>
        locked'[x] # None /\ t'[locked'[x]].pc \in UnlinkPc /\ t'[locked'[x]].node = x
  <2>1. SUFFICES ASSUME NEW x \in Leaves, layer[x] # None, ~Linked(x)' \/ x \in deleted
                 PROVE  locked'[x] # None /\ t'[locked'[x]].pc \in UnlinkPc /\ t'[locked'[x]].node = x
    BY <1>1
  <2>2. x # nr
    BY <1>3, <2>1
  <2>3. ~Linked(x) \/ x \in deleted
    BY <2>1, <2>2, GrownViews
  <2>4. locked[x] # None /\ t[locked[x]].pc \in UnlinkPc /\ t[locked[x]].node = x
    BY <2>1, <2>3 DEF IInv, StoreInv, AllocInv
  <2>5. locked[x] \in Procs /\ locked[x] # p
    BY <1>1, <2>4, FoundPc, LeafType
  <2>6. QED
    BY <1>2, <1>6, <2>2, <2>4, <2>5
<1>15. QED
  BY <1>4, <1>7, <1>8, <1>9, <1>10, <1>11, <1>12, <1>13, <1>14 DEF AllocInv

LEMMA GrownDb ==
  ASSUME IInv, NEW p \in Procs, NEW c, NEW d, NEW n, NEW nr, NEW nx, NEW l, NEW left, NEW w,
         Grown(p, c, d, n, nr, nx, l, left, w)
  PROVE  DbInv'
<1>1. /\ TypeOK /\ n \in Leaves /\ nr \in Leaves /\ l \in layers /\ In(n, l) /\ db' = db /\ layers' = layers
      /\ layers \subseteq Layers /\ RootLayer \in layers /\ w \in Nat
  BY DEF Grown, Moving, TypeOK, LeafTypeOK
<1>2. /\ \A x \in Leaves : x # nr => Entries(x)' = Entries(x)
      /\ \A e : e \in Entries(nr)' <=> e \in Entries(n) /\ ~(e.ikey < w)
  BY GrownEntries
<1>3. /\ \A x \in Leaves : \A y \in layers : x # nr => (In(x, y)' <=> In(x, y))
      /\ \A y \in layers : In(nr, y)' <=> y = l
  BY <1>1, GrownViews
<1>4. /\ \A x \in Leaves : \A z : x # nr => (Covers(x, z)' <=> Covers(x, z))
      /\ \A z \in Nat : Covers(nr, z)' <=> w <= z /\ Covers(n, z)
  BY GrownCovers
<1>5. \A x \in Leaves : \A z, k : x # nr =>
        (PlainSays(x, z, k)' <=> PlainSays(x, z, k)) /\ (SufSays(x, k)' <=> SufSays(x, k))
  BY <1>1, <1>2 DEF PlainSays, SufSays
<1>6. ASSUME NEW z \in Nat, w <= z, NEW k
      PROVE  /\ PlainSays(n, z, k) => PlainSays(nr, z, k)'
             /\ z = k[1] => (SufSays(n, k) => SufSays(nr, k)')
  <2>1. ~(z < w)
    BY <1>1, <1>6
  <2>2. \A e : e.ikey = z => (e \in Entries(nr)' <=> e \in Entries(n))
    BY <1>2, <2>1
  <2>3. QED
    BY <1>1, <2>2 DEF PlainSays, SufSays
<1>7. ASSUME NEW k \in Keys, NEW x \in Leaves, In(x, RootLayer)', Covers(x, k[1])'
      PROVE  /\ Len(k) = 1 => PlainSays(x, k[1], k)'
             /\ Len(k) = 2 => SufSays(x, k)'
  <2>1. k[1] \in Nat
    BY KeyFacts
  <2>2. CASE x # nr
    <3>1. In(x, RootLayer) /\ Covers(x, k[1])
      BY <1>1, <1>3, <1>4, <1>7, <2>2
    <3>2. /\ Len(k) = 1 => PlainSays(x, k[1], k)
          /\ Len(k) = 2 => SufSays(x, k)
      BY <3>1 DEF IInv, StoreInv, DbInv
    <3>3. QED
      BY <1>5, <2>2, <3>2
  <2>3. CASE x = nr
    <3>1. In(n, RootLayer) /\ Covers(n, k[1]) /\ w <= k[1]
      BY <1>1, <1>3, <1>4, <1>7, <2>1, <2>3
    <3>2. /\ Len(k) = 1 => PlainSays(n, k[1], k)
          /\ Len(k) = 2 => SufSays(n, k)
      BY <1>1, <3>1 DEF IInv, StoreInv, DbInv
    <3>3. QED
      BY <1>6, <2>1, <2>3, <3>1, <3>2
  <2>4. QED
    BY <2>2, <2>3
<1>8. ASSUME NEW k \in Keys, NEW y \in layers, Len(k) = 2, Attached(y, k[1]), NEW x \in Leaves, In(x, y)',
             Covers(x, k[2])'
      PROVE  PlainSays(x, k[2], k)'
  <2>1. k[2] \in Nat
    BY <1>8, KeyFacts
  <2>2. CASE x # nr
    <3>1. In(x, y) /\ Covers(x, k[2])
      BY <1>3, <1>4, <1>8, <2>2
    <3>2. PlainSays(x, k[2], k)
      BY <1>8, <3>1 DEF IInv, StoreInv, DbInv
    <3>3. QED
      BY <1>5, <2>2, <3>2
  <2>3. CASE x = nr
    <3>1. In(n, y) /\ Covers(n, k[2]) /\ w <= k[2]
      BY <1>1, <1>3, <1>4, <1>8, <2>1, <2>3
    <3>2. PlainSays(n, k[2], k)
      BY <1>1, <1>8, <3>1 DEF IInv, StoreInv, DbInv
    <3>3. QED
      BY <1>6, <2>1, <2>3, <3>1, <3>2
  <2>4. QED
    BY <2>2, <2>3
<1>9. \A g, a : Attached(g, a)' <=> Attached(g, a)
  BY GrownAttached
<1>10. QED
  BY <1>1, <1>7, <1>8, <1>9 DEF DbInv

LEMMA GrownStore ==
  ASSUME IInv, NEW p \in Procs, NEW c, NEW d, NEW n, NEW nr, NEW nx, NEW l, NEW left, NEW w,
         Grown(p, c, d, n, nr, nx, l, left, w)
  PROVE  DeadInv' /\ BoundInv' /\ SortInv' /\ LeafInv' /\ LeftInv' /\ AttachInv'
<1>1. /\ TypeOK /\ TypeOK' /\ n \in Leaves /\ nr \in Leaves /\ nx \in Leaves \cup {None} /\ layers \subseteq Layers
      /\ l \in layers /\ In(n, l) /\ nr # n /\ nr # nx /\ NotYet(nr) /\ modstate[n] = "insert"
      /\ nx # None => prev[nx] = n
      /\ UNCHANGED <<modstate, deleted, layer, layers, db>>
      /\ dirty \subseteq dirty' /\ dirty' \subseteq dirty \cup {nr}
  BY DEF Grown
<1>2. /\ \A x \in Leaves : x # nr => slot'[x] = slot[x] /\ perm'[x] = perm[x] /\ locked'[x] = locked[x] /\ low'[x] = low[x]
      /\ low'[nr] = w
      /\ \A x \in Leaves : x # n /\ x # nr => next'[x] = next[x]
      /\ \A x \in Leaves : prev'[x] = IF x = nr THEN n ELSE IF x = nx THEN nr ELSE prev[x]
  BY DEF Grown
<1>3. None \notin Leaves /\ modstate[nr] = "insert" /\ nr \notin deleted
  BY <1>1, ConstantFacts DEF NotYet
<1>4. PICK f \in [Slots -> Slot], pm \in Permuters : f = slot'[nr] /\ pm = perm'[nr]
  BY <1>1 DEF TypeOK, LeafTypeOK
<1>5. /\ left \in 0..perm[n].size /\ w \in Nat /\ Injective(pm)
      /\ \A j \in Index(pm) : left + j \in Index(perm[n]) /\ f[pm.slot[j]] = At(n, left + j)
      /\ f[0].ikey = w /\ low[n] < w /\ Covers(n, w)
      /\ \A j \in Slots : f[j].ikey = 0 \/ Covers(n, f[j].ikey)
  BY <1>4 DEF Grown, Moving
<1>6. DeadInv'
  <2>1. SUFFICES ASSUME NEW x \in Leaves, modstate[x] = "deleted_layer"
                 PROVE  /\ locked'[x] = None /\ perm'[x].size = 0 /\ next'[x] = None /\ prev'[x] = None
                        /\ layer[x] # None /\ layer[x] # RootLayer /\ x \notin deleted
    BY <1>1 DEF DeadInv
  <2>2. /\ locked[x] = None /\ perm[x].size = 0 /\ next[x] = None /\ prev[x] = None
        /\ layer[x] # None /\ layer[x] # RootLayer /\ x \notin deleted
    BY <2>1 DEF IInv, StoreInv, DeadInv
  <2>3. x # nr /\ x # n /\ x # nx
    BY <1>1, <1>3, <2>1, <2>2
  <2>4. QED
    BY <1>2, <2>2, <2>3
<1>7. BoundInv'
  <2>1. ASSUME NEW x \in Leaves, prev'[x] # None PROVE slot'[x][0].ikey = low'[x] /\ low'[x] > 0
    <3>1. CASE x = nr
      <4>1. low[n] \in Nat
        BY <1>1, LeafType
      <4>2. w > 0
        BY <1>5, <4>1
      <4>3. QED
        BY <1>2, <1>4, <1>5, <3>1, <4>2
    <3>2. CASE x # nr
      <4>1. prev[x] # None
        BY <1>1, <1>2, <1>3, <2>1, <3>2
      <4>2. slot[x][0].ikey = low[x] /\ low[x] > 0
        BY <4>1 DEF IInv, StoreInv, BoundInv
      <4>3. QED
        BY <1>2, <3>2, <4>2
    <3>3. QED
      BY <3>1, <3>2
  <2>2. ASSUME NEW x \in deleted PROVE prev'[x] # None
    <3>1. x \in Leaves /\ prev[x] # None
      BY <1>1 DEF IInv, StoreInv, BoundInv, TypeOK, LeafTypeOK
    <3>2. QED
      BY <1>1, <1>2, <1>3, <3>1
  <2>3. QED
    BY <1>1, <2>1, <2>2 DEF BoundInv
<1>8. SortInv'
  <2>1. ASSUME NEW x \in Leaves, x # nr PROVE Injective(perm'[x]) /\ SortedBy(x, perm[x])'
    <3>1. Injective(perm[x]) /\ SortedBy(x, perm[x])
      BY DEF IInv, StoreInv, SortInv
    <3>2. slot'[x] = slot[x] /\ perm'[x] = perm[x]
      BY <1>2, <2>1
    <3>3. QED
      BY <3>1, <3>2 DEF SortedBy
  <2>2. SortedBy(nr, perm[nr])'
    <3>1. ASSUME NEW i \in Index(pm), NEW j \in Index(pm), i < j PROVE Less(f[pm.slot[i]], f[pm.slot[j]])
      <4>1. left \in Int /\ i \in Int /\ j \in Int
        BY <1>4, <1>5, IndexType
      <4>2. left + i < left + j
        BY <3>1, <4>1
      <4>3. Less(At(n, left + i), At(n, left + j))
        BY <1>1, <1>5, <3>1, <4>2 DEF IInv, StoreInv, SortInv, SortedBy, At
      <4>4. QED
        BY <1>5, <4>3
    <3>2. QED
      BY <1>4, <3>1 DEF SortedBy
  <2>3. QED
    BY <1>4, <1>5, <2>1, <2>2 DEF SortInv
<1>9. /\ \A x \in Leaves : \A y \in layers : x # nr => (In(x, y)' <=> In(x, y))
      /\ \A y \in layers : In(nr, y)' <=> y = l
  BY <1>1, GrownViews
<1>10. LeafInv'
  <2>1. SUFFICES ASSUME NEW y \in layers, NEW x \in Leaves, In(x, y)', NEW e \in Entries(x)'
                 PROVE  /\ Covers(x, e.ikey)'
                        /\ e.kind # "layer" => e.lv # 0
                        /\ y # RootLayer => e.kind = "plain"
                        /\ e.kind = "layer" => e.lv \in layers \ {RootLayer}
    BY <1>1 DEF LeafInv
  <2>2. PICK m \in Leaves : In(m, y) /\ e \in Entries(m) /\ (x # nr => m = x) /\ (x = nr => m = n /\ ~(e.ikey < w))
    BY <1>1, <1>9, <2>1, GrownEntries
  <2>3. /\ Covers(m, e.ikey)
        /\ e.kind # "layer" => e.lv # 0
        /\ y # RootLayer => e.kind = "plain"
        /\ e.kind = "layer" => e.lv \in layers \ {RootLayer}
    BY <2>2 DEF IInv, StoreInv, LeafInv
  <2>4. e.ikey \in Nat
    BY <2>2, EntryType, SlotType
  <2>5. Covers(x, e.ikey)'
    <3>1. CASE x # nr
      BY <2>2, <2>3, <3>1, GrownCovers
    <3>2. CASE x = nr
      <4>1. w <= e.ikey
        BY <1>5, <2>2, <2>4, <3>2
      <4>2. QED
        BY <2>2, <2>3, <2>4, <3>2, <4>1, GrownCovers
    <3>3. QED
      BY <3>1, <3>2
  <2>6. QED
    BY <2>3, <2>5
<1>11. LeftInv'
  <2>1. SUFFICES ASSUME NEW y \in layers, NEW x \in Leaves, In(x, y)', perm'[x].size = 0,
                        ~(x \in dirty' /\ modstate[x] = "insert")
                 PROVE  Below(x, At(x, 0).ikey)'
    BY <1>1 DEF LeftInv
  <2>2. CASE x # nr
    <3>1. In(x, y) /\ perm[x].size = 0 /\ ~(x \in dirty /\ modstate[x] = "insert")
      BY <1>1, <1>2, <1>9, <2>1, <2>2
    <3>2. Below(x, At(x, 0).ikey)
      BY <3>1 DEF IInv, StoreInv, LeftInv
    <3>3. At(x, 0)' = At(x, 0)
      BY <1>2, <2>2 DEF At
    <3>4. PICK z : z = At(x, 0).ikey
      OBVIOUS
    <3>5. Below(x, z)'
      BY <2>2, <3>2, <3>4, GrownCovers
    <3>6. QED
      BY <3>3, <3>4, <3>5
  <2>3. CASE x = nr
    <3>1. pm.slot[0] \in Slots
      BY <1>4, WidthFacts, PermuterType
    <3>2. PICK z : z = f[pm.slot[0]].ikey
      OBVIOUS
    <3>3. Below(n, z)
      <4>1. CASE z = 0
        <5>1. Below(n, w) /\ 0 <= w
          BY <1>5 DEF Covers
        <5>2. Below(n, 0)
          BY <1>1, <1>5, <5>1, BelowDown
        <5>3. QED
          BY <4>1, <5>2
      <4>2. CASE z # 0
        BY <1>5, <3>1, <3>2, <4>2 DEF Covers
      <4>3. QED
        BY <4>1, <4>2
    <3>4. Below(nr, z)'
      BY <3>3, GrownCovers
    <3>5. At(nr, 0)'.ikey = z
      BY <1>4, <3>2 DEF At
    <3>6. QED
      BY <2>3, <3>4, <3>5
  <2>4. QED
    BY <2>2, <2>3
<1>12. AttachInv'
  BY <1>1, GrownAttached DEF IInv, StoreInv, AttachInv
<1>13. QED
  BY <1>6, <1>7, <1>8, <1>10, <1>11, <1>12

LEMMA GrownFrame ==
  ASSUME IInv, NEW p \in Procs, NEW c, NEW d, NEW n, NEW nr, NEW nx, NEW l, NEW left, NEW w,
         Grown(p, c, d, n, nr, nx, l, left, w)
  PROVE  Frame(p)
<1>1. /\ TypeOK /\ TypeOK' /\ n \in Leaves /\ nr \in Leaves /\ nx \in Leaves \cup {None} /\ layers \subseteq Layers
      /\ l \in layers /\ In(n, l) /\ nr # n /\ nr # nx /\ NotYet(nr) /\ modstate[n] = "insert" /\ locked[n] = p
      /\ nx # None => prev[nx] = n
      /\ UNCHANGED <<modstate, deleted, layer, layers, db>>
      /\ dirty \subseteq dirty' /\ dirty' \subseteq dirty \cup {nr} /\ c.node = n /\ SameLock(c, d)
  BY DEF Grown
<1>2. /\ \A x \in Leaves : x # nr => slot'[x] = slot[x] /\ perm'[x] = perm[x] /\ locked'[x] = locked[x] /\ low'[x] = low[x]
      /\ \A x \in Leaves : x # n /\ x # nr => next'[x] = next[x]
      /\ \A x \in Leaves : prev'[x] = IF x = nr THEN n ELSE IF x = nx THEN nr ELSE prev[x]
  BY DEF Grown
<1>3. /\ None \notin Leaves /\ None \notin Procs /\ modstate[nr] = "insert" /\ locked[nr] = None /\ ~Alloc(nr)
      /\ \A q \in Procs : t[q].node # nr
  BY <1>1, ConstantFacts DEF NotYet
<1>4. ThreadFrame(p) /\ t'[p] = d /\ \A q \in Procs \ {p} : t'[q] = t[q]
  BY GrownThreads
<1>5. d.node = n
  BY <1>1 DEF SameLock
<1>6. \A x \in Leaves : \A y \in layers : x # nr => (In(x, y)' <=> In(x, y))
  BY <1>1, GrownViews
<1>7. \A y \in layers : (In(nr, y)' <=> y = l) /\ ~In(nr, y)
  BY <1>1, GrownViews DEF Gone
<1>8. \A x \in Leaves : Gone(x)' <=> x # nr /\ Gone(x)
  BY GrownViews
<1>9. LockedFrame(p)
  <2>1. SUFFICES ASSUME NEW x \in Leaves, locked[x] \in Procs \ {p}
                 PROVE  /\ slot'[x] = slot[x] /\ perm'[x] = perm[x] /\ modstate'[x] = modstate[x]
                        /\ locked'[x] = locked[x] /\ layer'[x] = layer[x]
                        /\ x \in dirty' <=> x \in dirty
                        /\ x \in deleted' <=> x \in deleted
                        /\ next'[x] = next[x]
                        /\ t'[p].node # x
    BY DEF LockedFrame
  <2>2. x # nr /\ x # n
    BY <1>1, <1>3, <2>1
  <2>3. QED
    BY <1>1, <1>2, <1>4, <1>5, <2>2
<1>10. LeafFrame(p)
  <2>1. SUFFICES ASSUME NEW x \in Leaves, Alloc(x)
                 PROVE  /\ Alloc(x)' /\ low'[x] = low[x]
                        /\ prev'[x] = None <=> prev[x] = None
                        /\ layer'[x] = layer[x]
                        /\ next'[x] # next[x] => ~Gone(x)'
                        /\ Gone(x) => Gone(x)'
                        /\ x \in deleted' <=> x \in deleted
    BY DEF LeafFrame
  <2>2. x # nr
    BY <1>3, <2>1
  <2>3. Alloc(x)' /\ low'[x] = low[x] /\ layer'[x] = layer[x] /\ (x \in deleted' <=> x \in deleted)
    BY <1>1, <1>2, <2>1, <2>2, GrownAlloc
  <2>4. prev'[x] = None <=> prev[x] = None
    BY <1>1, <1>2, <1>3, <2>2
  <2>5. next'[x] # next[x] => ~Gone(x)'
    <3>1. ~Gone(n)
      BY <1>1 DEF Gone
    <3>2. QED
      BY <1>1, <1>2, <1>8, <2>2, <3>1
  <2>6. QED
    BY <1>8, <2>2, <2>3, <2>4, <2>5
<1>11. ListFrame(p)
  <2>1. SUFFICES ASSUME NEW x \in Leaves, NEW y \in layers, In(x, y)
                 PROVE  /\ In(x, y)'
                        /\ \A z \in Nat : Covers(x, z) => Covers(x, z)'
    BY DEF ListFrame
  <2>2. x # nr
    BY <1>7, <2>1
  <2>3. QED
    BY <1>6, <2>1, <2>2, GrownCovers
<1>12. LayerFrame(p)
  <2>1. ASSUME NEW y \in layers, Dead(y) PROVE Dead(y)'
    <3>1. y # l
      BY <1>1, <2>1 DEF Dead
    <3>2. QED
      BY <1>1, <1>6, <1>7, <2>1, <3>1 DEF Dead
  <2>2. \A y, a : Attached(y, a)' <=> Attached(y, a)
    BY GrownAttached
  <2>3. QED
    BY <1>1, <2>1, <2>2 DEF LayerFrame
<1>13. ReadFrame(p)
  <2>1. ReadsKept(p)
    <3>1. SUFFICES ASSUME NEW q \in Procs \ {p}, t[q].pc \in ReadPc
                   PROVE  /\ modstate'[t[q].node] = modstate[t[q].node]
                          /\ perm'[t[q].node] = perm[t[q].node]
                          /\ slot'[t[q].node] = slot[t[q].node]
      BY DEF ReadsKept, PermSame
    <3>2. t[q].node \in Leaves
      BY <3>1, SearchMine, PcFacts
    <3>3. QED
      BY <1>1, <1>2, <1>3, <3>2
  <2>2. QED
    BY <1>1, <1>4, <2>1, ReadsFrame
<1>14. QED
  BY <1>4, <1>9, <1>10, <1>11, <1>12, <1>13 DEF Frame

LEMMA GrownOK ==
  ASSUME IInv, NEW p \in Procs, NEW c, NEW d, NEW n, NEW nr, NEW nx, NEW l, NEW left, NEW w,
         Grown(p, c, d, n, nr, nx, l, left, w)
  PROVE  ThreadOK(d)'
<1>1. /\ TypeOK /\ TypeOK' /\ c \in Thread /\ d \in Thread /\ c = t[p] /\ n \in Leaves /\ nr \in Leaves
      /\ layers \subseteq Layers /\ c.pc = "found" /\ c.op = "put" /\ KeyOK(c) /\ HomeOK(c) /\ Position(c)
      /\ c.node = n /\ n \notin deleted /\ modstate[n] = "insert" /\ nr # n /\ NotYet(nr)
      /\ perm[n].size = Width \/ (perm[n].size = Width - 1 /\ Back(perm[n]) = 0)
      /\ UNCHANGED <<modstate, deleted, layer, layers, db>>
  BY DEF Grown
<1>2. /\ slot'[n] = slot[n] /\ perm'[n] = perm[n] /\ low'[n] = low[n]
      /\ low'[nr] = w /\ next'[n] = nr /\ SameLock(c, d) /\ d.pc = "split_tree" /\ d.other = nr /\ d.i = c.i
  BY DEF Grown
<1>3. PICK f, pm, s : f = slot'[nr] /\ pm = perm'[nr] /\ s = perm[n].size
  OBVIOUS
<1>4. Moving(n, f, pm, left, w) /\ Placed(c, f, pm, left, w, d.state)
  BY <1>3 DEF Grown
<1>5. /\ KeyOK(d) /\ Ikey(d) = Ikey(c) /\ (HasSuffix(d) <=> HasSuffix(c))
      /\ \A x : Compare(d, x) = Compare(c, x) /\ KsufMatches(d, x) = KsufMatches(c, x)
      /\ HomeOK(d)
  BY <1>1, <1>2, LockKey
<1>6. KeyOK(d)'
  BY <1>1, <1>5 DEF KeyOK
<1>7. d.node = n /\ d.op = "put" /\ d.key = c.key /\ d.depth = c.depth
  BY <1>1, <1>2 DEF SameLock
<1>8. Ikey(d) \in Nat
  BY <1>1, <1>5, IkeyType
<1>9. HomeOK(d)'
  <2>1. layer[n] \in layers /\ In(n, layer[n]) /\ Level(d) /\ Covers(n, Ikey(d))
    BY <1>5, <1>7 DEF HomeOK
  <2>2. In(n, layer[n])'
    <3>1. PICK y \in Layers : y = layer[n]
      BY <1>1, <2>1
    <3>2. In(n, y)'
      BY <1>1, <2>1, <3>1, GrownViews
    <3>3. layer'[n] = y
      BY <1>1, <3>1
    <3>4. QED
      BY <3>2, <3>3
  <2>3. Covers(n, Ikey(d))'
    <3>1. PICK z : z = Ikey(d)
      OBVIOUS
    <3>2. Covers(n, z)'
      BY <1>1, <2>1, <3>1, GrownCovers
    <3>3. QED
      BY <3>1, <3>2 DEF Ikey
  <2>4. Level(d)'
    <3>1. \A g, a : Attached(g, a)' <=> Attached(g, a)
      BY GrownAttached
    <3>2. QED
      BY <1>1, <1>7, <2>1, <3>1 DEF Level
  <2>5. QED
    BY <1>1, <1>7, <2>1, <2>2, <2>3, <2>4 DEF HomeOK
<1>10. Position(d)'
  <2>1. \A j : At(n, j)' = At(n, j)
    BY <1>2 DEF At
  <2>2. QED
    BY <1>1, <1>2, <1>5, <1>7, <2>1 DEF Position, Index, Compare
<1>11. /\ left \in 0..s /\ s \in Nat /\ pm.size = s - left
       /\ \A j \in Index(pm) : f[pm.slot[j]] = At(n, left + j)
       /\ \A j \in Index(perm[n]) : At(n, j).ikey < w <=> j < left
  BY <1>1, <1>3, <1>4, LeafType, PermuterType DEF Moving
<1>12. s - pm.size = left /\ left >= 0
  BY <1>11
<1>13. \A j \in Index(pm) : At(nr, j)' = At(n, left + j)'
  BY <1>2, <1>3, <1>11 DEF At
<1>14. \A j \in 0..(left - 1) : At(n, j)'.ikey < low'[nr]
  <2>1. \A j \in 0..(left - 1) : j \in 0..(s - 1) /\ j < left
    BY <1>11
  <2>2. \A j \in 0..(left - 1) : At(n, j).ikey < w
    BY <1>3, <1>11, <2>1 DEF Index
  <2>3. QED
    BY <1>2, <2>2 DEF At
<1>15. /\ d.state = 0 => d.i <= left /\ Ikey(d) < low'[nr] /\ pm.size > 0
       /\ d.state = 1 => /\ left > 0 /\ d.i >= left /\ d.i - left \in Slots /\ low'[nr] <= Ikey(d)
                         /\ d.i - left = Back(pm) /\ pm.size < Width
                         /\ SlotIs(d, f[d.i - left])
       /\ d.state \in {0, 1}
  <2>1. \A x : SlotIs(c, x) => SlotIs(d, x)
    BY <1>5, <1>7 DEF SlotIs
  <2>2. QED
    BY <1>2, <1>4, <1>5, <2>1 DEF Placed
<1>16. MidOK(d)'
  <2>1. /\ nr # None /\ nr \notin deleted' /\ modstate'[nr] = "insert" /\ layer'[nr] = None
    BY <1>1, ConstantFacts DEF NotYet
  <2>2. perm'[n].size - perm'[nr].size = left
    BY <1>2, <1>3, <1>12
  <2>3. /\ \A j \in Index(perm'[nr]) : At(nr, j)' = At(n, left + j)'
        /\ d.state = 0 => d.i <= left /\ Ikey(d) < low'[nr] /\ perm'[nr].size > 0
        /\ d.state = 1 => /\ left > 0 /\ d.i >= left /\ d.i - left \in Slots /\ low'[nr] <= Ikey(d)
                          /\ d.i - left = Back(perm'[nr]) /\ perm'[nr].size < Width
                          /\ SlotIs(d, slot'[nr][d.i - left])
    BY <1>3, <1>13, <1>15
  <2>4. /\ d.op = "put" /\ modstate'[n] = "insert" /\ d.pc = "split_tree" /\ d.node = n /\ d.other = nr
        /\ next'[n] = nr
        /\ perm'[n].size = Width \/ (perm'[n].size = Width - 1 /\ Back(perm'[n]) = 0)
    BY <1>1, <1>2, <1>7
  <2>5. Ikey(d)' = Ikey(d) /\ \A x : SlotIs(d, x)' <=> SlotIs(d, x)
    BY DEF Ikey, SlotIs, HasSuffix
  <2>6. QED
    BY <1>10, <1>12, <1>14, <1>15, <2>1, <2>2, <2>3, <2>4, <2>5 DEF MidOK
<1>17. LockOK(d)'
  BY <1>1, <1>2, <1>7, <1>9, <1>16, MidPcs DEF LockOK
<1>18. QED
  BY <1>1, <1>2, <1>6, <1>17, MidPcs, HolderOK

LEMMA SplitIntoStep ==
  ASSUME IInv, NEW p \in Procs, SplitInto(p)
  PROVE  IInv'
<1>1. PICK c, d, n, nr, nx, l, left, w : Grown(p, c, d, n, nr, nx, l, left, w)
  BY SplitMine
<1>2. TypeOK' /\ d = t'[p]
  <2>1. TypeOK'
    BY <1>1 DEF Grown
  <2>2. d = t'[p]
    BY <1>1, GrownThreads
  <2>3. QED
    BY <2>1, <2>2
<1>3. ThreadOK(t[p])'
  <2>1. ThreadOK(d)'
    BY <1>1, GrownOK
  <2>2. QED
    BY <1>2, <2>1
<1>4. ListInv' /\ AllocInv' /\ DbInv' /\ LockInv'
  BY <1>1, GrownList, GrownAlloc, GrownDb, GrownThreads
<1>5. DeadInv' /\ BoundInv' /\ SortInv' /\ LeafInv' /\ LeftInv' /\ AttachInv'
  BY <1>1, GrownStore
<1>6. Frame(p)
  BY <1>1, GrownFrame
<1>7. ThreadInv'
  BY <1>2, <1>3, <1>4, <1>6, ThreadInvStep
<1>8. QED
  BY <1>2, <1>4, <1>5, <1>7 DEF IInv, StoreInv

-----------------------------------------------------------------------------
(* A new layer: make_new_layer fills its leaf before anyone can reach it.  *)

(* The leaf of a new layer: it holds the old suffix, and slot b the new one. *)
Founded(f, pm, old, z, b) ==
  /\ f \in [Slots -> Slot] /\ pm \in Permuters /\ Injective(pm) /\ pm.size = 1
  /\ b \in {0, 1} /\ pm.slot[0] = 1 - b /\ Back(pm) = b
  /\ f[1 - b] = SuffixSlot(old.suf, old.lv) /\ f[b] = SuffixSlot(z, Empty)
  /\ IF b = 1 THEN old.suf < z ELSE old.suf > z

(* The key's slot in n becomes the layer g, whose leaf is nl.              *)
Layered(p, c, d, n, nl, g, old, b) ==
  /\ TypeOK /\ TypeOK' /\ c \in Thread /\ d \in Thread /\ c = t[p] /\ n \in Leaves /\ nl \in Leaves
  /\ nl # n /\ NotYet(nl) /\ g \in Layers /\ g \notin layers /\ layers \subseteq Layers
  /\ layers' = layers \cup {g} /\ RootLayer \in layers
  /\ c.pc = "found" /\ c.op = "put" /\ KeyOK(c) /\ HomeOK(c) /\ c.node = n /\ c.other = None
  /\ c.depth = 1 /\ Len(c.key) = 2 /\ locked[n] = p /\ n \notin deleted /\ layer[n] = RootLayer
  /\ In(n, RootLayer) /\ modstate[n] # "deleted_layer"
  /\ c.p \in Slots /\ c.i \in Index(perm[n]) /\ perm[n].slot[c.i] = c.p /\ old = slot[n][c.p] /\ old \in Slot
  /\ old.kind = "ksuf" /\ old.ikey = c.key[1] /\ old.suf # c.key[2] /\ Hit(c, old)
  /\ \A x : Ent(n, x) = slot[n][x]
  /\ Founded(slot'[nl], perm'[nl], old, c.key[2], b)
  /\ \A x \in Leaves : x # nl => slot'[x] = slot[x] /\ perm'[x] = perm[x] /\ locked'[x] = locked[x] /\ layer'[x] = layer[x]
  /\ locked'[nl] = p /\ layer'[nl] = g /\ dirty' = dirty \cup {n}
  /\ \A q \in Procs \ {p} : t'[q] = Seen(n, "insert")[q]
  /\ t'[p] = d /\ SameLock(c, d) /\ d.pc = "layer_lv" /\ d.other = nl /\ d.i = b /\ d.p = c.p /\ d.held # "same"
  /\ UNCHANGED <<modstate, deleted, low, next, prev, gcs, scene, ops, db>>

LEMMA FoundedLeaf ==
  ASSUME NEW f0 \in [Slots -> Slot], NEW old \in Slot, NEW z \in Nat, old.suf # z, NEW o, NEW f, NEW pm,
         o = IF old.suf < z THEN 0 ELSE 1,
         f = [f0 EXCEPT ![o] = SuffixSlot(old.suf, old.lv), ![1 - o] = SuffixSlot(z, Empty)],
         pm = IF old.suf < z THEN MakeSorted(1) ELSE RemoveToBack(MakeSorted(2), 0)
  PROVE  Founded(f, pm, old, z, 1 - o)
<1>1. o \in {0, 1} /\ 1 - o \in {0, 1} /\ 1 - (1 - o) = o /\ o # 1 - o
  OBVIOUS
<1>2. 0 \in Slots /\ 1 \in Slots /\ Width \in Nat /\ Width >= 3
  BY WidthFacts DEF Slots
<1>3. o \in Slots /\ 1 - o \in Slots
  BY <1>1, <1>2
<1>4. old.suf \in Nat /\ old.lv \in Int \cup Layers
  BY SlotType
<1>5. PICK a \in Slot, e \in Slot : a = SuffixSlot(old.suf, old.lv) /\ e = SuffixSlot(z, Empty)
  BY <1>4 DEF SuffixSlot, Slot, Empty
<1>6. f = [f0 EXCEPT ![o] = a, ![1 - o] = e]
  BY <1>5
<1>7. f \in [Slots -> Slot] /\ f[o] = a /\ f[1 - o] = e
  BY <1>1, <1>3, <1>6
<1>8. ASSUME old.suf < z
      PROVE  pm \in Permuters /\ Injective(pm) /\ pm.size = 1 /\ pm.slot[0] = o /\ Back(pm) = 1 - o
  <2>1. pm = MakeSorted(1) /\ o = 0 /\ 1 \in 0..Width
    BY <1>2, <1>8
  <2>2. MakeSorted(1) \in Permuters /\ Injective(MakeSorted(1)) /\ MakeSorted(1).size = 1
    BY <2>1, MakeSortedOK
  <2>3. MakeSorted(1).slot = [i \in Slots |-> IF i < 1 THEN i ELSE Width - 1 - (i - 1)]
    BY DEF MakeSorted
  <2>4. MakeSorted(1).slot[0] = 0 /\ MakeSorted(1).slot[Width - 1] = 1
    BY <1>2, <2>3, WidthFacts
  <2>5. QED
    BY <2>1, <2>2, <2>4 DEF Back
<1>9. ASSUME ~(old.suf < z)
      PROVE  pm \in Permuters /\ Injective(pm) /\ pm.size = 1 /\ pm.slot[0] = o /\ Back(pm) = 1 - o
  <2>1. pm = RemoveToBack(MakeSorted(2), 0) /\ o = 1 /\ 2 \in 1..Width /\ 0 \in 0..(2 - 1)
    BY <1>2, <1>9
  <2>2. PICK new : new = RemoveToBack(MakeSorted(2), 0)
    OBVIOUS
  <2>3. /\ new \in Permuters /\ Injective(new) /\ new.size = 2 - 1 /\ Back(new) = 0
        /\ \A j \in 0..(2 - 2) : new.slot[j] = IF j < 0 THEN j ELSE j + 1
    BY <2>1, <2>2, RemoveToBackOK
  <2>4. new.slot[0] = 1 /\ new.size = 1
    BY <2>3
  <2>5. QED
    BY <2>1, <2>2, <2>3, <2>4
<1>10. IF 1 - o = 1 THEN old.suf < z ELSE old.suf > z
  BY <1>4
<1>11. pm \in Permuters /\ Injective(pm) /\ pm.size = 1 /\ pm.slot[0] = o /\ Back(pm) = 1 - o
  BY <1>8, <1>9
<1>12. QED
  BY <1>1, <1>5, <1>7, <1>10, <1>11 DEF Founded

NextLayer == CHOOSE m \in Layers : m \notin layers

LEMMA NextLayerOK ==
  ASSUME TypeOK, layers # Layers
  PROVE  NextLayer \in Layers /\ NextLayer \notin layers
<1>1. \E m \in Layers : m \notin layers
  BY DEF TypeOK, LeafTypeOK
<1>2. QED
  BY <1>1 DEF NextLayer

LEMMA ThreadTurn ==
  ASSUME NEW c \in Thread, NEW u \in Pcs, NEW h \in {"same", "insert", "split"}, NEW x \in Leaves, NEW i \in Int
  PROVE  [c EXCEPT !.held = h, !.pc = u, !.other = x, !.i = i] \in Thread
BY DEF Thread

LEMMA NewLayerMine ==
  ASSUME IInv, NEW p \in Procs, NewLayer(p)
  PROVE  \E c, d, n, nl, g, old, b : Layered(p, c, d, n, nl, g, old, b)
<1>1. PICK c \in Thread : c = t[p] /\ c.pc = "found"
  BY Mine DEF NewLayer
<1>2. /\ t \in [Procs -> Thread] /\ KeyOK(c) /\ HomeOK(c)
      /\ FoundOK(c) /\ c.node \in Leaves /\ locked[c.node] = p /\ c.other = None
      /\ c.node \notin deleted /\ Alloc(c.node) /\ c.op # "get"
  BY <1>1, FoundMine
<1>2a. PICK n \in Leaves : n = c.node
  BY <1>2
<1>3. PICK nl, g, old : n = c.node /\ nl = Fresh /\ g = NextLayer /\ old = slot[n][c.p]
  BY <1>2a
<1>4. PICK z, o : z = c.key[c.depth + 1] /\ o = IF old.suf < z THEN 0 ELSE 1
  OBVIOUS
<1>5. c.op = "put" /\ c.state = 0 /\ c.p # None /\ Unused # {} /\ layers # Layers
  BY <1>1 DEF NewLayer
<1>6. /\ slot' = [slot EXCEPT ![nl][o] = SuffixSlot(old.suf, old.lv), ![nl][1 - o] = SuffixSlot(z, Empty)]
      /\ perm' = [perm EXCEPT ![nl] = IF old.suf < z THEN MakeSorted(1) ELSE RemoveToBack(MakeSorted(2), 0)]
      /\ locked' = [locked EXCEPT ![nl] = p]
      /\ layer' = [layer EXCEPT ![nl] = g] /\ layers' = layers \cup {g}
      /\ dirty' = dirty \cup {n}
      /\ t' = [Seen(n, "insert") EXCEPT ![p].pc = "layer_lv", ![p].other = nl, ![p].i = 1 - o]
      /\ UNCHANGED <<modstate, deleted, low, next, prev, gcs, scene, ops, db>>
  BY <1>1, <1>3, <1>4, Zenon DEF NewLayer, NextLayer
<1>7. NotYet(nl) /\ nl \in Leaves
  BY <1>3, <1>5, FreshLeaf DEF NotYet
<1>8. TypeOK /\ layers \subseteq Layers /\ RootLayer \in layers
  BY DEF IInv, StoreInv, TypeOK, LeafTypeOK
<1>9. g \in Layers /\ g \notin layers
  BY <1>3, <1>5, <1>8, NextLayerOK
<1>10. n # nl
  BY <1>2, <1>3, <1>7 DEF NotYet
<1>11. FoundAt(c) /\ n \notin dirty
  BY <1>2, <1>3, <1>5 DEF FoundOK
<1>12. c.i \in Index(perm[n]) /\ c.p = perm[n].slot[c.i] /\ old = At(n, c.i) /\ Compare(c, old) = 0 /\ KsufMatches(c, old) = 0
  BY <1>3, <1>5, <1>11 DEF FoundAt, At
<1>13. old \in Slot /\ c.p \in Slots
  BY <1>8, <1>12, AtType
<1>14. old.kind = "ksuf" /\ HasSuffix(c) /\ old.ikey = Ikey(c) /\ old.suf # c.key[c.depth + 1]
  <2>1. old.kind # "plain" /\ old.kind # "layer" /\ ~(old.kind = "ksuf" /\ HasSuffix(c) /\ old.suf = c.key[c.depth + 1])
    BY <1>12, <1>13, MatchFacts
  <2>2. Ikey(c) = old.ikey /\ (HasSuffix(c) <=> old.kind # "plain")
    BY <1>2, <1>12, <1>13, CompareFacts
  <2>3. old.kind = "ksuf"
    BY <1>13, <2>1, SlotType
  <2>4. QED
    BY <2>1, <2>2, <2>3
<1>15. c.depth = 1 /\ Len(c.key) = 2 /\ c.key[2] \in Nat /\ Ikey(c) = c.key[1] /\ z = c.key[2]
  <2>1. c.depth = 1 /\ Len(c.key) = 2 /\ c.key[2] \in Nat
    BY <1>2, <1>14, IkeyType
  <2>2. c.depth + 1 = 2
    BY <2>1
  <2>3. QED
    BY <1>4, <2>1, <2>2 DEF Ikey
<1>16. layer[n] = RootLayer /\ In(n, RootLayer)
  BY <1>2, <1>3, <1>15 DEF HomeOK, Level
<1>17. Hit(c, old)
  BY <1>2, <1>12, <1>13, HitFacts
<1>18. \A x : Ent(n, x) = slot[n][x]
  BY <1>1, <1>2, <1>3, EntSlot, FoundPc
<1>19. PICK f, pm : /\ f = [slot[nl] EXCEPT ![o] = SuffixSlot(old.suf, old.lv), ![1 - o] = SuffixSlot(z, Empty)]
                    /\ pm = IF old.suf < z THEN MakeSorted(1) ELSE RemoveToBack(MakeSorted(2), 0)
  OBVIOUS
<1>20. Founded(f, pm, old, z, 1 - o)
  <2>1. slot[nl] \in [Slots -> Slot] /\ z \in Nat /\ old.suf # z
    BY <1>4, <1>7, <1>8, <1>14, <1>15, LeafType
  <2>2. QED
    BY <1>4, <1>13, <1>19, <2>1, FoundedLeaf
<1>21. /\ f \in [Slots -> Slot] /\ pm \in Permuters /\ 1 - o \in {0, 1}
  BY <1>20 DEF Founded
<1>22. slot' = [slot EXCEPT ![nl] = f] /\ perm' = [perm EXCEPT ![nl] = pm]
  BY <1>6, <1>7, <1>8, <1>19 DEF TypeOK, LeafTypeOK
<1>23. /\ slot'[nl] = f /\ perm'[nl] = pm /\ locked'[nl] = p /\ layer'[nl] = g
       /\ \A x \in Leaves : x # nl => slot'[x] = slot[x] /\ perm'[x] = perm[x] /\ locked'[x] = locked[x] /\ layer'[x] = layer[x]
  BY <1>6, <1>7, <1>8, <1>22 DEF TypeOK, LeafTypeOK
<1>24. PICK h \in {"insert", "split"} : Seen(n, "insert") \in [Procs -> Thread] /\ Seen(n, "insert")[p] = [c EXCEPT !.held = h]
  BY <1>1, <1>2, <1>3, SeenSelf
<1>25. PICK d \in Thread : d = [c EXCEPT !.held = h, !.pc = "layer_lv", !.other = nl, !.i = 1 - o]
  <2>1. PICK u \in Pcs : u = "layer_lv"
    BY TurnPcs
  <2>2. 1 - o \in Int /\ h \in {"same", "insert", "split"}
    BY <1>21
  <2>3. [c EXCEPT !.held = h, !.pc = u, !.other = nl, !.i = 1 - o] \in Thread
    BY <1>7, <2>2, ThreadTurn
  <2>4. QED
    BY <2>1, <2>3
<1>26. /\ SameLock(c, d) /\ d.pc = "layer_lv" /\ d.other = nl /\ d.i = 1 - o /\ d.p = c.p /\ d.held # "same"
  BY <1>25 DEF Thread, SameLock
<1>27. t' = [Seen(n, "insert") EXCEPT ![p] = d]
  <2>1. PICK S \in [Procs -> Thread] : S = Seen(n, "insert")
    BY <1>24
  <2>2. t' = [S EXCEPT ![p].pc = "layer_lv", ![p].other = nl, ![p].i = 1 - o]
    BY <1>6, <2>1
  <2>3. t' = [S EXCEPT ![p] = [S[p] EXCEPT !.pc = "layer_lv", !.other = nl, !.i = 1 - o]]
    BY <2>1, <2>2
  <2>4. [S[p] EXCEPT !.pc = "layer_lv", !.other = nl, !.i = 1 - o] = d
    BY <1>24, <1>25, <2>1 DEF Thread
  <2>5. QED
    BY <2>1, <2>3, <2>4
<1>28. t' \in [Procs -> Thread] /\ t'[p] = d /\ \A q \in Procs \ {p} : t'[q] = Seen(n, "insert")[q]
  BY <1>24, <1>27
<1>29. TypeOK'
  <2>1. slot' \in [Leaves -> [Slots -> Slot]] /\ perm' \in [Leaves -> Permuters]
    BY <1>8, <1>21, <1>22 DEF TypeOK, LeafTypeOK
  <2>2. locked' \in [Leaves -> Procs \cup {None}] /\ layer' \in [Leaves -> Layers \cup {None}]
    BY <1>6, <1>7, <1>8, <1>9 DEF TypeOK, LeafTypeOK
  <2>3. dirty' \subseteq Leaves /\ layers' \subseteq Layers /\ RootLayer \in layers'
    BY <1>6, <1>8, <1>9 DEF TypeOK, LeafTypeOK
  <2>4. QED
    BY <1>6, <1>8, <1>28, <2>1, <2>2, <2>3 DEF TypeOK, LeafTypeOK
<1>30. modstate[n] # "deleted_layer"
  BY <1>1, <1>3, LockMine, FoundPc
<1>31. /\ TypeOK /\ TypeOK' /\ c \in Thread /\ d \in Thread /\ c = t[p] /\ n \in Leaves /\ nl \in Leaves
       /\ nl # n /\ NotYet(nl) /\ g \in Layers /\ g \notin layers /\ layers \subseteq Layers
       /\ layers' = layers \cup {g} /\ RootLayer \in layers
       /\ c.pc = "found" /\ c.op = "put" /\ KeyOK(c) /\ HomeOK(c) /\ c.node = n /\ c.other = None
       /\ c.depth = 1 /\ Len(c.key) = 2 /\ locked[n] = p /\ n \notin deleted /\ layer[n] = RootLayer
       /\ In(n, RootLayer) /\ modstate[n] # "deleted_layer"
  BY <1>1, <1>2, <1>3, <1>5, <1>6, <1>7, <1>8, <1>9, <1>10, <1>15, <1>16, <1>29, <1>30
<1>32. /\ c.p \in Slots /\ c.i \in Index(perm[n]) /\ perm[n].slot[c.i] = c.p /\ old = slot[n][c.p] /\ old \in Slot
       /\ old.kind = "ksuf" /\ old.ikey = c.key[1] /\ old.suf # c.key[2] /\ Hit(c, old)
  BY <1>3, <1>12, <1>13, <1>4, <1>14, <1>15, <1>17
<1>33. Founded(slot'[nl], perm'[nl], old, c.key[2], 1 - o)
  BY <1>15, <1>20, <1>23
<1>34. dirty' = dirty \cup {n} /\ UNCHANGED <<modstate, deleted, low, next, prev, gcs, scene, ops, db>>
  BY <1>6
<1>35. Layered(p, c, d, n, nl, g, old, 1 - o)
  BY <1>18, <1>23, <1>26, <1>28, <1>31, <1>32, <1>33, <1>34, Zenon DEF Layered
<1>36. QED
  BY <1>35

LEMMA LayeredThreads ==
  ASSUME IInv, NEW p \in Procs, NEW c, NEW d, NEW n, NEW nl, NEW g, NEW old, NEW b,
         Layered(p, c, d, n, nl, g, old, b)
  PROVE  /\ ThreadFrame(p) /\ LockInv' /\ LocksFrame(p) /\ d.node = n
         /\ \A x \in Leaves : locked[x] = p <=> x = n
         /\ \A x \in Leaves : Splitting(x)' <=> Splitting(x)
         /\ \A q \in Procs \ {p} : /\ t'[q].pc = t[q].pc /\ t'[q].node = t[q].node /\ t'[q].other = t[q].other
                                   /\ t'[q].p = t[q].p
<1>1. /\ TypeOK /\ TypeOK' /\ c \in Thread /\ d \in Thread /\ c = t[p] /\ n \in Leaves /\ nl \in Leaves
      /\ c.pc = "found" /\ c.node = n /\ c.other = None /\ locked[n] = p /\ nl # n /\ NotYet(nl)
  BY DEF Layered
<1>2. /\ \A x \in Leaves : x # nl => locked'[x] = locked[x]
      /\ locked'[nl] = p /\ dirty' = dirty \cup {n}
      /\ t'[p] = d /\ SameLock(c, d) /\ d.pc = "layer_lv" /\ d.other = nl
      /\ d.held # "same" /\ db' = db
      /\ \A q \in Procs \ {p} : t'[q] = Seen(n, "insert")[q]
  BY DEF Layered
<1>3. ThreadFrame(p) /\ \A q \in Procs \ {p} : t[q].node = n => t'[q].held # "same"
  BY <1>1, <1>2, SeenFrame
<1>4. LocksFrame(p)
  BY <1>1, <1>2 DEF LocksFrame, NotYet
<1>5. d.node = n
  BY <1>1, <1>2 DEF SameLock
<1>6. \A x \in Leaves : locked[x] = p <=> x = n
  <2>1. \A x \in Leaves : locked[x] = p <=> Owns(c, x)
    BY <1>1 DEF IInv, StoreInv, LockInv
  <2>2. QED
    BY <1>1, <2>1, ConstantFacts, FoundPc DEF Owns
<1>7. LockInv'
  <2>1. \A x \in Leaves : locked'[x] = p <=> Owns(t'[p], x)
    <3>1. \A x \in Leaves : locked'[x] = p <=> x = n \/ x = nl
      BY <1>1, <1>2, <1>6
    <3>2. \A x \in Leaves : Owns(d, x) <=> x = n \/ x = nl
      BY <1>2, <1>5, TurnPcs DEF Owns
    <3>3. QED
      BY <1>2, <3>1, <3>2
  <2>2. t'[p].pc \in LockPc => t'[p].node \in Leaves /\ t'[p].other # t'[p].node
    BY <1>1, <1>2, <1>5
  <2>3. \A x \in dirty' : locked'[x] # None
    <3>1. \A x \in dirty : locked[x] # None /\ x \in Leaves
      BY <1>1 DEF IInv, StoreInv, LockInv, TypeOK, LeafTypeOK
    <3>2. p # None
      BY ConstantFacts
    <3>3. QED
      BY <1>1, <1>2, <3>1, <3>2
  <2>4. \A x \in dirty' : x \in dirty \/ \A q \in Procs \ {p} : t[q].node = x => t'[q].held # "same"
    BY <1>2, <1>3
  <2>5. t'[p].node \in dirty' => t'[p].held # "same"
    BY <1>2
  <2>6. LockInv
    BY DEF IInv, StoreInv
  <2>7. QED
    BY <1>1, <1>3, <1>4, <2>1, <2>2, <2>3, <2>4, <2>5, <2>6, LockStep
<1>8. \A x \in Leaves : Splitting(x)' <=> Splitting(x)
  <2>1. t[p].pc \notin MidPc /\ t'[p].pc \notin MidPc
    BY <1>1, <1>2, FoundPc, TurnPcs
  <2>2. QED
    BY <1>1, <1>3, <1>4, <2>1, SplittingSame
<1>9. \A q \in Procs \ {p} : /\ t'[q].pc = t[q].pc /\ t'[q].node = t[q].node /\ t'[q].other = t[q].other
                             /\ t'[q].p = t[q].p
  <2>1. SUFFICES ASSUME NEW q \in Procs \ {p}
                 PROVE  /\ t'[q].pc = t[q].pc /\ t'[q].node = t[q].node /\ t'[q].other = t[q].other
                        /\ t'[q].p = t[q].p
    OBVIOUS
  <2>2. PICK x, y \in Thread : x = t[q] /\ y = t'[q] /\ Later(x, y)
    BY <1>1, <1>3, FrameThread
  <2>3. QED
    BY <2>2 DEF Later
<1>10. QED
  BY <1>3, <1>4, <1>5, <1>6, <1>7, <1>8, <1>9

(* The slot seen as the layer it becomes.                                  *)
LayerOf(old, g) == [old EXCEPT !.kind = "layer", !.lv = g]

LEMMA LayerOfIs ==
  ASSUME NEW old \in Slot, NEW g \in Layers
  PROVE  /\ LayerOf(old, g) \in Slot /\ LayerOf(old, g).kind = "layer" /\ LayerOf(old, g).lv = g
         /\ LayerOf(old, g).ikey = old.ikey
BY DEF LayerOf, Slot

LEMMA LayeredEnt ==
  ASSUME IInv, NEW p \in Procs, NEW c, NEW d, NEW n, NEW nl, NEW g, NEW old, NEW b,
         Layered(p, c, d, n, nl, g, old, b)
  PROVE  /\ \A x \in Leaves : \A s : x # n /\ x # nl => Ent(x, s)' = Ent(x, s)
         /\ \A s : Ent(n, s)' = IF s = c.p THEN LayerOf(old, g) ELSE slot[n][s]
<1>1. /\ TypeOK /\ n \in Leaves /\ nl \in Leaves /\ locked[n] = p /\ nl # n /\ NotYet(nl)
      /\ \A x \in Leaves : x # nl => slot'[x] = slot[x] /\ locked'[x] = locked[x] /\ layer'[x] = layer[x]
      /\ layer'[nl] = g /\ t'[p] = d /\ d.pc = "layer_lv" /\ d.other = nl /\ d.p = c.p /\ old = slot[n][c.p]
  BY DEF Layered
<1>2. d.node = n /\ \A x \in Leaves : locked[x] = p <=> x = n
  BY LayeredThreads
<1>3. \A q \in Procs \ {p} : /\ t'[q].pc = t[q].pc /\ t'[q].node = t[q].node /\ t'[q].other = t[q].other
                             /\ t'[q].p = t[q].p
  BY LayeredThreads
<1>4. ASSUME NEW x \in Leaves, NEW s, x # n, x # nl PROVE Ent(x, s)' = Ent(x, s)
  <2>1. locked'[x] = locked[x] /\ slot'[x] = slot[x] /\ locked[x] # p /\ locked[x] \in Procs \cup {None}
    BY <1>1, <1>2, <1>4, LeafType
  <2>2. Turning(x, s)' <=> Turning(x, s)
    BY <1>3, <2>1 DEF Turning
  <2>3. CASE ~Turning(x, s)
    BY <2>1, <2>2, <2>3 DEF Ent
  <2>4. CASE Turning(x, s)
    <3>1. PICK q \in Procs : q = locked[x] /\ q # p /\ t[q].other \in Leaves
      BY <2>1, <2>4, TurnerFacts
    <3>2. t[q].other # nl
      BY <1>1 DEF NotYet
    <3>3. layer'[t'[q].other] = layer[t[q].other]
      BY <1>1, <1>3, <3>1, <3>2
    <3>4. QED
      BY <2>1, <2>2, <2>4, <3>1, <3>3 DEF Ent
  <2>5. QED
    BY <2>3, <2>4
<1>5. ASSUME NEW s PROVE Ent(n, s)' = IF s = c.p THEN LayerOf(old, g) ELSE slot[n][s]
  <2>1. locked'[n] = p /\ slot'[n] = slot[n] /\ p # None
    BY <1>1, ConstantFacts
  <2>2. Turning(n, s)' <=> s = c.p
    BY <1>1, <1>2, <2>1, TurnPcs DEF Turning
  <2>3. CASE s # c.p
    BY <2>1, <2>2, <2>3 DEF Ent
  <2>4. CASE s = c.p
    BY <1>1, <2>1, <2>2, <2>4 DEF Ent, LayerOf
  <2>5. QED
    BY <2>3, <2>4
<1>6. QED
  BY <1>4, <1>5

LEMMA LayeredEntries ==
  ASSUME IInv, NEW p \in Procs, NEW c, NEW d, NEW n, NEW nl, NEW g, NEW old, NEW b,
         Layered(p, c, d, n, nl, g, old, b)
  PROVE  /\ \A x \in Leaves : x # n /\ x # nl => Entries(x)' = Entries(x)
         /\ \A e : e \in Entries(n)' <=> e = LayerOf(old, g) \/ (e \in Entries(n) /\ e # old)
         /\ \A e : e \in Entries(nl)' <=> e = SuffixSlot(old.suf, old.lv)
         /\ old \in Entries(n)
<1>1. /\ TypeOK /\ c \in Thread /\ KeyOK(c) /\ n \in Leaves /\ nl \in Leaves /\ nl # n /\ locked'[nl] = p /\ t'[p] = d
      /\ \A x \in Leaves : x # nl => perm'[x] = perm[x]
      /\ c.i \in Index(perm[n]) /\ perm[n].slot[c.i] = c.p /\ old = slot[n][c.p] /\ Hit(c, old)
      /\ \A x : Ent(n, x) = slot[n][x]
      /\ Founded(slot'[nl], perm'[nl], old, c.key[2], b)
  BY DEF Layered
<1>2. ASSUME NEW x \in Leaves, x # n, x # nl PROVE Entries(x)' = Entries(x)
  <2>1. \A s : Ent(x, s)' = Ent(x, s)
    BY <1>2, LayeredEnt
  <2>2. perm'[x] = perm[x]
    BY <1>1, <1>2
  <2>3. QED
    BY <2>1, <2>2 DEF Entries, Index
<1>3. \A s : Ent(n, s)' = IF s = c.p THEN LayerOf(old, g) ELSE slot[n][s]
  BY LayeredEnt
<1>4. \A i \in Index(perm[n]) : At(n, i) = old <=> i = c.i
  <2>1. old = At(n, c.i)
    BY <1>1 DEF At
  <2>2. QED
    BY <1>1, <2>1, HitIndex
<1>5. \A i \in Index(perm[n]) : perm[n].slot[i] = c.p <=> i = c.i
  BY <1>1, <1>4 DEF At
<1>6. ASSUME NEW e PROVE e \in Entries(n)' <=> \E i \in Index(perm[n]) : e = Ent(n, perm[n].slot[i])'
  BY <1>1 DEF Entries, Index
<1>7. \A i \in Index(perm[n]) : Ent(n, perm[n].slot[i])' = IF i = c.i THEN LayerOf(old, g) ELSE At(n, i)
  <2>1. SUFFICES ASSUME NEW i \in Index(perm[n])
                 PROVE  Ent(n, perm[n].slot[i])' = IF i = c.i THEN LayerOf(old, g) ELSE At(n, i)
    OBVIOUS
  <2>2. PICK s : s = perm[n].slot[i]
    OBVIOUS
  <2>3. Ent(n, s)' = IF i = c.i THEN LayerOf(old, g) ELSE At(n, i)
    BY <1>3, <1>5, <2>1, <2>2 DEF At
  <2>4. perm'[n].slot[i] = s
    BY <1>1, <2>2
  <2>5. QED
    BY <2>3, <2>4
<1>8. /\ \A e \in Entries(n) : \E i \in Index(perm[n]) : e = At(n, i)
      /\ \A i \in Index(perm[n]) : At(n, i) \in Entries(n)
  BY <1>1, EntriesAt
<1>9. \A e : e \in Entries(n)' <=> e = LayerOf(old, g) \/ (e \in Entries(n) /\ e # old)
  BY <1>1, <1>4, <1>6, <1>7, <1>8
<1>10. old \in Entries(n)
  BY <1>1, <1>4, <1>8
<1>11. \A e : e \in Entries(nl)' <=> e = SuffixSlot(old.suf, old.lv)
  <2>1. t'[locked'[nl]].node # nl
    BY <1>1, LayeredThreads
  <2>2. Entries(nl)' = Filled(perm'[nl], slot'[nl])
    BY <2>1, EntriesNext
  <2>3. PICK f, pm : f = slot'[nl] /\ pm = perm'[nl]
    OBVIOUS
  <2>4. Index(pm) = {0} /\ f[pm.slot[0]] = SuffixSlot(old.suf, old.lv)
    BY <1>1, <2>3 DEF Founded, Index
  <2>5. QED
    BY <2>2, <2>3, <2>4 DEF Filled
<1>12. QED
  BY <1>2, <1>9, <1>10, <1>11

LEMMA LayeredViews ==
  ASSUME IInv, NEW p \in Procs, NEW c, NEW d, NEW n, NEW nl, NEW g, NEW old, NEW b,
         Layered(p, c, d, n, nl, g, old, b)
  PROVE  /\ \A x \in Leaves : Linked(x)' <=> Linked(x)
         /\ \A x \in Leaves : \A y \in Layers : x # nl => (In(x, y)' <=> In(x, y))
         /\ \A y \in Layers : (In(nl, y)' <=> y = g) /\ ~In(nl, y)
         /\ \A x \in Leaves : ~In(x, g)
         /\ \A x \in Leaves : Gone(x)' <=> x # nl /\ Gone(x)
         /\ \A x \in Leaves : Hi(x)' = Hi(x)
         /\ \A x \in Leaves : \A z : Below(x, z)' <=> Below(x, z)
         /\ \A x \in Leaves : \A z : Covers(x, z)' <=> Covers(x, z)
         /\ \A z \in Nat : Covers(nl, z)
<1>1. /\ TypeOK /\ n \in Leaves /\ nl \in Leaves /\ nl # n /\ NotYet(nl) /\ g \in Layers /\ g \notin layers
      /\ \A x \in Leaves : x # nl => layer'[x] = layer[x]
      /\ layer'[nl] = g /\ UNCHANGED <<deleted, low, next, prev>>
  BY DEF Layered
<1>2. /\ None \notin Layers /\ prev[nl] = None /\ next[nl] = None /\ low[nl] = 0 /\ locked[nl] = None
      /\ \A x \in Leaves : next[x] # nl /\ prev[x] # nl /\ prev[x] \in Leaves \cup {None}
      /\ \A y \in Layers : ~In(nl, y)
  BY <1>1, ConstantFacts DEF NotYet, TypeOK, LeafTypeOK
<1>3. \A x \in Leaves : Linked(x)' <=> Linked(x)
  BY <1>1 DEF Linked
<1>4. ASSUME NEW x \in Leaves, NEW y \in Layers, x # nl PROVE In(x, y)' <=> In(x, y)
  BY <1>1, <1>2, <1>3, <1>4 DEF In
<1>5. ASSUME NEW y \in Layers PROVE In(nl, y)' <=> y = g
  <2>1. Linked(nl)'
    BY <1>1, <1>2 DEF Linked
  <2>2. QED
    BY <1>1, <1>2, <2>1 DEF In
<1>6. \A x \in Leaves : ~In(x, g)
  BY <1>1, InAlloc DEF IInv, StoreInv
<1>7. \A x \in Leaves : Gone(x)' <=> x # nl /\ Gone(x)
  BY <1>1, <1>4, <1>5 DEF Gone
<1>8. \A x \in Leaves : Hi(x)' = Hi(x)
  BY <1>1, LayeredThreads DEF Hi
<1>9. \A x \in Leaves : \A z : Below(x, z)' <=> Below(x, z)
  BY <1>1, <1>8 DEF Below
<1>10. \A x \in Leaves : \A z : Covers(x, z)' <=> Covers(x, z)
  BY <1>1, <1>9 DEF Covers
<1>11. \A z \in Nat : Covers(nl, z)
  BY <1>2 DEF Covers, Below, Hi, Splitting
<1>12. QED
  BY <1>2, <1>3, <1>4, <1>5, <1>6, <1>7, <1>8, <1>9, <1>10, <1>11

LEMMA LayeredAttached ==
  ASSUME IInv, NEW p \in Procs, NEW c, NEW d, NEW n, NEW nl, NEW g, NEW old, NEW b,
         Layered(p, c, d, n, nl, g, old, b)
  PROVE  /\ \A y \in layers : \A a : Attached(y, a)' <=> Attached(y, a)
         /\ \A a : Attached(g, a)' <=> a = c.key[1]
<1>1. /\ n \in Leaves /\ nl \in Leaves /\ nl # n /\ In(n, RootLayer) /\ g \in Layers /\ g \notin layers
      /\ RootLayer \in layers /\ layers \subseteq Layers /\ old \in Slot /\ old.kind = "ksuf" /\ old.ikey = c.key[1]
  BY DEF Layered
<1>2. /\ \A x \in Leaves : x # nl => (In(x, RootLayer)' <=> In(x, RootLayer))
      /\ ~In(nl, RootLayer)' /\ ~In(nl, RootLayer)
  BY <1>1, LayeredViews
<1>3. /\ \A x \in Leaves : x # n /\ x # nl => Entries(x)' = Entries(x)
      /\ \A e : e \in Entries(n)' <=> e = LayerOf(old, g) \/ (e \in Entries(n) /\ e # old)
  BY LayeredEntries
<1>4. /\ LayerOf(old, g).kind = "layer" /\ LayerOf(old, g).lv = g /\ LayerOf(old, g).ikey = c.key[1]
  BY <1>1, LayerOfIs
<1>5. ASSUME NEW x \in Leaves, In(x, RootLayer), NEW e \in Entries(x), NEW y, NEW a, IsLayer(e, y, a)
      PROVE  y \in layers /\ e # old
  BY <1>1, <1>5 DEF IsLayer, IInv, StoreInv, LeafInv
<1>6. ASSUME NEW y \in layers, NEW a, Attached(y, a) PROVE Attached(y, a)'
  <2>1. PICK x \in Leaves : In(x, RootLayer) /\ \E e \in Entries(x) : IsLayer(e, y, a)
    BY <1>6 DEF Attached
  <2>2. PICK e \in Entries(x) : IsLayer(e, y, a)
    BY <2>1
  <2>3. e # old /\ x # nl
    BY <1>2, <1>5, <2>1, <2>2
  <2>4. e \in Entries(x)' /\ In(x, RootLayer)'
    BY <1>2, <1>3, <2>1, <2>2, <2>3
  <2>5. QED
    BY <2>2, <2>4 DEF Attached, IsLayer
<1>7. ASSUME NEW y, NEW a, Attached(y, a)' PROVE (y \in layers /\ Attached(y, a)) \/ (y = g /\ a = c.key[1])
  <2>1. PICK x \in Leaves : In(x, RootLayer)' /\ \E e \in Entries(x)' : IsLayer(e, y, a)
    BY <1>7 DEF Attached, IsLayer
  <2>2. PICK e \in Entries(x)' : IsLayer(e, y, a)
    BY <2>1
  <2>3. x # nl /\ In(x, RootLayer)
    BY <1>2, <2>1
  <2>4. CASE e = LayerOf(old, g)
    BY <1>4, <2>2, <2>4 DEF IsLayer
  <2>5. CASE e # LayerOf(old, g)
    <3>1. e \in Entries(x)
      BY <1>3, <2>2, <2>3, <2>5
    <3>2. y \in layers
      BY <1>5, <2>2, <2>3, <3>1
    <3>3. QED
      BY <2>2, <2>3, <3>1, <3>2 DEF Attached
  <2>6. QED
    BY <2>4, <2>5
<1>8. Attached(g, c.key[1])'
  <2>1. IsLayer(LayerOf(old, g), g, c.key[1])
    BY <1>4 DEF IsLayer
  <2>2. LayerOf(old, g) \in Entries(n)' /\ In(n, RootLayer)'
    BY <1>1, <1>2, <1>3
  <2>3. QED
    BY <1>1, <2>1, <2>2 DEF Attached, IsLayer
<1>9. QED
  BY <1>1, <1>6, <1>7, <1>8

LEMMA LayeredList ==
  ASSUME IInv, NEW p \in Procs, NEW c, NEW d, NEW n, NEW nl, NEW g, NEW old, NEW b,
         Layered(p, c, d, n, nl, g, old, b)
  PROVE  ListInv'
<1>1. /\ TypeOK /\ n \in Leaves /\ nl \in Leaves /\ NotYet(nl) /\ g \in Layers /\ g \notin layers
      /\ layers' = layers \cup {g} /\ layers \subseteq Layers /\ UNCHANGED <<low, next, prev>>
  BY DEF Layered
<1>2. /\ None \notin Leaves /\ prev[nl] = None /\ next[nl] = None /\ low[nl] = 0
      /\ \A x \in Leaves : next[x] # nl /\ prev[x] # nl
      /\ \A x \in Leaves : next[x] \in Leaves \cup {None} /\ prev[x] \in Leaves \cup {None}
  BY <1>1, ConstantFacts DEF NotYet, TypeOK, LeafTypeOK
<1>3. \A y \in layers : \A x \in Leaves : In(x, y)' <=> In(x, y)
  BY <1>1, LayeredViews
<1>4. \A x \in Leaves : In(x, g)' <=> x = nl
  BY <1>1, LayeredViews
<1>5. ASSUME NEW y \in layers, NEW x \in Leaves, In(x, y)
      PROVE  /\ next[x] # None => In(next[x], y) /\ prev[next[x]] = x /\ low[x] < low[next[x]]
             /\ prev[x] # None => In(prev[x], y) /\ next[prev[x]] = x
             /\ prev[x] = None => low[x] = 0
  BY <1>5 DEF IInv, StoreInv, ListInv
<1>6. ASSUME NEW y \in layers', NEW x \in Leaves, In(x, y)'
      PROVE  /\ next'[x] # None => In(next[x], y)' /\ prev'[next'[x]] = x /\ low'[x] < low'[next'[x]]
             /\ prev'[x] # None => In(prev[x], y)' /\ next'[prev'[x]] = x
             /\ prev'[x] = None => low'[x] = 0
  <2>1. ASSUME y = g
        PROVE  /\ next'[x] # None => In(next[x], y)' /\ prev'[next'[x]] = x /\ low'[x] < low'[next'[x]]
               /\ prev'[x] # None => In(prev[x], y)' /\ next'[prev'[x]] = x
               /\ prev'[x] = None => low'[x] = 0
    <3>1. x = nl
      BY <1>4, <1>6, <2>1
    <3>2. QED
      BY <1>1, <1>2, <3>1
  <2>2. ASSUME y \in layers
        PROVE  /\ next'[x] # None => In(next[x], y)' /\ prev'[next'[x]] = x /\ low'[x] < low'[next'[x]]
               /\ prev'[x] # None => In(prev[x], y)' /\ next'[prev'[x]] = x
               /\ prev'[x] = None => low'[x] = 0
    <3>1. In(x, y)
      BY <1>3, <1>6, <2>2
    <3>2. /\ next[x] # None => In(next[x], y) /\ prev[next[x]] = x /\ low[x] < low[next[x]]
          /\ prev[x] # None => In(prev[x], y) /\ next[prev[x]] = x
          /\ prev[x] = None => low[x] = 0
      BY <1>5, <2>2, <3>1
    <3>3. PICK u, v : u = next[x] /\ v = prev[x] /\ u \in Leaves \cup {None} /\ v \in Leaves \cup {None}
      BY <1>2
    <3>4. (u # None => In(u, y)') /\ (v # None => In(v, y)')
      BY <1>3, <2>2, <3>2, <3>3
    <3>5. next'[x] = u /\ prev'[x] = v
      BY <1>1, <3>3
    <3>6. (next'[x] # None => In(next[x], y)') /\ (prev'[x] # None => In(prev[x], y)')
      BY <3>4, <3>5
    <3>7. QED
      BY <1>1, <3>2, <3>6
  <2>3. QED
    BY <1>1, <2>1, <2>2
<1>7. \A y \in layers' : \A x, m \in Leaves : In(x, y)' /\ In(m, y)' /\ low'[x] < low'[m] =>
        next'[x] # None /\ low'[next'[x]] <= low'[m]
  <2>1. SUFFICES ASSUME NEW y \in layers', NEW x \in Leaves, NEW m \in Leaves, In(x, y)', In(m, y)', low[x] < low[m]
                 PROVE  next[x] # None /\ low[next[x]] <= low[m]
    BY <1>1
  <2>2. y \in layers
    <3>1. ASSUME y = g PROVE FALSE
      BY <1>2, <1>4, <2>1, <3>1
    <3>2. QED
      BY <1>1, <3>1
  <2>3. In(x, y) /\ In(m, y)
    BY <1>3, <2>1, <2>2
  <2>4. QED
    BY <2>1, <2>2, <2>3 DEF IInv, StoreInv, ListInv
<1>8. \A y \in layers' : \A x, m \in Leaves : In(x, y)' /\ In(m, y)' /\ low'[x] = low'[m] => x = m
  <2>1. SUFFICES ASSUME NEW y \in layers', NEW x \in Leaves, NEW m \in Leaves, In(x, y)', In(m, y)', low[x] = low[m]
                 PROVE  x = m
    BY <1>1
  <2>2. CASE y = g
    BY <1>4, <2>1, <2>2
  <2>3. CASE y \in layers
    <3>1. In(x, y) /\ In(m, y)
      BY <1>3, <2>1, <2>3
    <3>2. QED
      BY <2>1, <2>3, <3>1 DEF IInv, StoreInv, ListInv
  <2>4. QED
    BY <1>1, <2>2, <2>3
<1>9. ASSUME NEW y \in layers' PROVE \E x \in Leaves : In(x, y)' /\ prev'[x] = None
  <2>1. CASE y = g
    BY <1>1, <1>2, <1>4, <2>1
  <2>2. CASE y \in layers
    <3>1. PICK x \in Leaves : In(x, y) /\ prev[x] = None
      BY <2>2 DEF IInv, StoreInv, ListInv
    <3>2. QED
      BY <1>1, <1>3, <2>2, <3>1
  <2>3. QED
    BY <1>1, <2>1, <2>2
<1>10. QED
  BY <1>6, <1>7, <1>8, <1>9 DEF ListInv

LEMMA LayeredAlloc ==
  ASSUME IInv, NEW p \in Procs, NEW c, NEW d, NEW n, NEW nl, NEW g, NEW old, NEW b,
         Layered(p, c, d, n, nl, g, old, b)
  PROVE  AllocInv' /\ \A x \in Leaves : Alloc(x)' <=> Alloc(x) \/ x = nl
<1>1. /\ TypeOK /\ TypeOK' /\ n \in Leaves /\ nl \in Leaves /\ nl # n /\ NotYet(nl) /\ g \in Layers
      /\ layers' = layers \cup {g} /\ layers \subseteq Layers /\ locked[n] = p
      /\ c = t[p] /\ c.pc = "found" /\ t'[p] = d /\ d.other = nl
      /\ UNCHANGED <<modstate, deleted, low, next, prev>>
  BY DEF Layered
<1>2. /\ \A x \in Leaves : x # nl => perm'[x] = perm[x] /\ locked'[x] = locked[x] /\ layer'[x] = layer[x]
      /\ locked'[nl] = p /\ layer'[nl] = g
  BY DEF Layered
<1>3. None \notin Leaves /\ None \notin Layers /\ p # None /\ nl \notin deleted /\ Linked(nl)
      /\ \A x \in Leaves : next[x] # nl /\ prev[x] # nl
  BY <1>1, ConstantFacts DEF NotYet, Linked
<1>4. \A x \in Leaves : Alloc(x)' <=> Alloc(x) \/ x = nl
  BY <1>1, <1>2, <1>3 DEF Alloc
<1>5. d.node = n /\ \A q \in Procs \ {p} : t'[q].pc = t[q].pc /\ t'[q].node = t[q].node /\ t'[q].other = t[q].other
  BY LayeredThreads
<1>6. Alloc(n) /\ Alloc(n)' /\ Alloc(nl)'
  <2>1. Alloc(n)
    BY <1>1, <1>3 DEF Alloc
  <2>2. QED
    BY <1>1, <1>4, <2>1
<1>7. \A x \in Leaves : ~Alloc(x)' =>
        low'[x] = 0 /\ next'[x] = None /\ prev'[x] = None /\ modstate'[x] = "insert" /\ perm'[x].size = 0
  BY <1>1, <1>2, <1>4 DEF IInv, StoreInv, AllocInv
<1>8. \A x \in Leaves : next'[x] # None => Alloc(next[x])'
  <2>1. SUFFICES ASSUME NEW x \in Leaves, next'[x] # None PROVE Alloc(next[x])'
    OBVIOUS
  <2>2. PICK m \in Leaves : m = next'[x]
    BY <1>1, <2>1 DEF TypeOK, LeafTypeOK
  <2>3. Alloc(m)
    BY <1>1, <2>1, <2>2 DEF IInv, StoreInv, AllocInv
  <2>4. Alloc(m)'
    BY <1>4, <2>3
  <2>5. QED
    BY <2>2, <2>4
<1>9. \A x \in Leaves : prev'[x] # None => Alloc(prev[x])'
  <2>1. SUFFICES ASSUME NEW x \in Leaves, prev'[x] # None PROVE Alloc(prev[x])'
    OBVIOUS
  <2>2. PICK m \in Leaves : m = prev'[x]
    BY <1>1, <2>1 DEF TypeOK, LeafTypeOK
  <2>3. Alloc(m)
    BY <1>1, <2>1, <2>2 DEF IInv, StoreInv, AllocInv
  <2>4. Alloc(m)'
    BY <1>4, <2>3
  <2>5. QED
    BY <2>2, <2>4
<1>10. \A q \in Procs : (t'[q].node # None => Alloc(t[q].node)') /\ (t'[q].other # None => Alloc(t[q].other)')
  <2>1. SUFFICES ASSUME NEW q \in Procs
                 PROVE (t'[q].node # None => Alloc(t[q].node)') /\ (t'[q].other # None => Alloc(t[q].other)')
    OBVIOUS
  <2>2. CASE q = p
    BY <1>1, <1>5, <1>6, <2>2
  <2>3. CASE q # p
    <3>1. /\ t[q].node # None => Alloc(t[q].node) /\ t[q].node \in Leaves
          /\ t[q].other # None => Alloc(t[q].other) /\ t[q].other \in Leaves
      BY Mine
    <3>2. PICK x, y : x = t[q].node /\ y = t[q].other
      OBVIOUS
    <3>3. (x # None => Alloc(x)') /\ (y # None => Alloc(y)')
      BY <1>4, <3>1, <3>2
    <3>4. t'[q].node = x /\ t'[q].other = y
      BY <1>5, <2>3, <3>2
    <3>5. QED
      BY <3>3, <3>4
  <2>4. QED
    BY <2>2, <2>3
<1>11. \A x \in Leaves : layer'[x] # None => layer'[x] \in layers'
  BY <1>1, <1>2 DEF IInv, StoreInv, AllocInv
<1>12. \A x \in Leaves : locked'[x] # None /\ layer'[x] = None /\ x \notin deleted' =>
        t'[locked'[x]].pc = "split_tree" /\ t'[locked'[x]].other = x
  <2>1. SUFFICES ASSUME NEW x \in Leaves, locked'[x] # None, layer'[x] = None, x \notin deleted
                 PROVE  t'[locked'[x]].pc = "split_tree" /\ t'[locked'[x]].other = x
    BY <1>1
  <2>2. x # nl
    BY <1>1, <1>2, <1>3, <2>1
  <2>3. locked'[x] = locked[x] /\ locked[x] \in Procs /\ layer[x] = None
    BY <1>1, <1>2, <2>1, <2>2, LeafType
  <2>4. t[locked[x]].pc = "split_tree" /\ t[locked[x]].other = x
    BY <2>1, <2>3 DEF IInv, StoreInv, AllocInv
  <2>5. locked[x] # p
    BY <1>1, <2>4
  <2>6. QED
    BY <1>5, <2>3, <2>4, <2>5
<1>13. \A x \in Leaves : Alloc(x)' /\ x \notin deleted' => \E y \in layers' : In(x, y)'
  <2>1. /\ \A x \in Leaves : \A y \in layers : x # nl => (In(x, y)' <=> In(x, y))
        /\ In(nl, g)'
    BY <1>1, LayeredViews
  <2>2. \A x \in Leaves : Alloc(x) /\ x \notin deleted => \E y \in layers : In(x, y)
    BY DEF IInv, StoreInv, AllocInv
  <2>3. QED
    BY <1>1, <1>4, <2>1, <2>2
<1>14. \A x \in Leaves : layer'[x] # None /\ (~Linked(x)' \/ x \in deleted') =>
        locked'[x] # None /\ t'[locked'[x]].pc \in UnlinkPc /\ t'[locked'[x]].node = x
  <2>1. SUFFICES ASSUME NEW x \in Leaves, layer'[x] # None, ~Linked(x)' \/ x \in deleted
                 PROVE  locked'[x] # None /\ t'[locked'[x]].pc \in UnlinkPc /\ t'[locked'[x]].node = x
    BY <1>1
  <2>2. ~Linked(x) \/ x \in deleted
    BY <2>1, LayeredViews
  <2>3. x # nl
    BY <1>3, <2>2
  <2>4. layer[x] # None
    BY <1>2, <2>1, <2>3
  <2>5. locked[x] # None /\ t[locked[x]].pc \in UnlinkPc /\ t[locked[x]].node = x
    BY <2>2, <2>4 DEF IInv, StoreInv, AllocInv
  <2>6. locked[x] \in Procs /\ locked[x] # p
    BY <1>1, <2>5, FoundPc, LeafType
  <2>7. QED
    BY <1>2, <1>5, <2>3, <2>5, <2>6
<1>15. QED
  BY <1>4, <1>7, <1>8, <1>9, <1>10, <1>11, <1>12, <1>13, <1>14 DEF AllocInv

LEMMA IndexNonEmpty == ASSUME NEW pm, NEW i \in Index(pm) PROVE pm.size # 0
BY DEF Index

LEMMA SuffixSlotIs ==
  ASSUME NEW k, NEW v
  PROVE  SuffixSlot(k, v).ikey = k /\ SuffixSlot(k, v).kind = "plain" /\ SuffixSlot(k, v).lv = v
BY DEF SuffixSlot

LEMMA LayeredDb ==
  ASSUME IInv, NEW p \in Procs, NEW c, NEW d, NEW n, NEW nl, NEW g, NEW old, NEW b,
         Layered(p, c, d, n, nl, g, old, b)
  PROVE  DbInv'
<1>1. /\ TypeOK /\ n \in Leaves /\ nl \in Leaves /\ nl # n /\ db' = db /\ layers' = layers \cup {g}
      /\ g \in Layers /\ g \notin layers /\ layers \subseteq Layers /\ RootLayer \in layers /\ In(n, RootLayer)
      /\ old \in Slot /\ old.kind = "ksuf" /\ old.ikey = c.key[1]
  BY DEF Layered
<1>2. /\ \A x \in Leaves : x # n /\ x # nl => Entries(x)' = Entries(x)
      /\ \A e : e \in Entries(n)' <=> e = LayerOf(old, g) \/ (e \in Entries(n) /\ e # old)
      /\ \A e : e \in Entries(nl)' <=> e = SuffixSlot(old.suf, old.lv)
      /\ old \in Entries(n)
  BY LayeredEntries
<1>3. LayerOf(old, g).kind = "layer" /\ LayerOf(old, g).ikey = old.ikey
  BY <1>1, LayerOfIs
<1>4. \A x \in Leaves : \A y \in layers : In(x, y)' <=> In(x, y) /\ x # nl
  BY <1>1, LayeredViews
<1>5. \A x \in Leaves : In(x, g)' <=> x = nl
  BY <1>1, LayeredViews
<1>6. \A x \in Leaves : \A z : Covers(x, z)' <=> Covers(x, z)
  BY LayeredViews
<1>7. \A z, k : PlainSays(n, z, k) => PlainSays(n, z, k)'
  <2>1. \A e : e.kind = "plain" => (e \in Entries(n)' <=> e \in Entries(n))
    BY <1>1, <1>2, <1>3
  <2>2. QED
    BY <1>1, <2>1 DEF PlainSays
<1>8. \A k : SufSays(n, k) => SufSays(n, k)'
  <2>1. \A e : e.kind = "ksuf" /\ e \in Entries(n)' => e \in Entries(n)
    BY <1>2, <1>3
  <2>2. SUFFICES ASSUME NEW k, SufSays(n, k) PROVE SufSays(n, k)'
    OBVIOUS
  <2>3. \A e \in Entries(n)' : e.ikey = k[1] /\ e.kind = "ksuf" => db'[k] = IF e.suf = k[2] THEN e.lv ELSE 0
    BY <1>1, <2>1, <2>2 DEF SufSays
  <2>4. ASSUME \A e \in Entries(n)' : ~(e.ikey = k[1] /\ e.kind # "plain") PROVE db'[k] = 0
    <3>1. ASSUME NEW e \in Entries(n), e.ikey = k[1], e.kind # "plain" PROVE FALSE
      <4>1. CASE e = old
        BY <1>2, <1>3, <2>4, <3>1, <4>1
      <4>2. CASE e # old
        BY <1>2, <2>4, <3>1, <4>2
      <4>3. QED
        BY <4>1, <4>2
    <3>2. QED
      BY <1>1, <2>2, <3>1 DEF SufSays
  <2>5. QED
    BY <2>3, <2>4 DEF SufSays
<1>9. \A x \in Leaves : \A z, k : x # nl =>
        (PlainSays(x, z, k) => PlainSays(x, z, k)') /\ (SufSays(x, k) => SufSays(x, k)')
  <2>1. ASSUME NEW x \in Leaves, NEW z, NEW k, x # nl, x # n
        PROVE  (PlainSays(x, z, k) => PlainSays(x, z, k)') /\ (SufSays(x, k) => SufSays(x, k)')
    <3>1. Entries(x)' = Entries(x)
      BY <1>2, <2>1
    <3>2. QED
      BY <1>1, <3>1 DEF PlainSays, SufSays
  <2>2. QED
    BY <1>7, <1>8, <2>1
<1>10. ASSUME NEW k \in Keys, NEW x \in Leaves, In(x, RootLayer)', Covers(x, k[1])'
       PROVE  /\ Len(k) = 1 => PlainSays(x, k[1], k)'
              /\ Len(k) = 2 => SufSays(x, k)'
  <2>1. In(x, RootLayer) /\ Covers(x, k[1]) /\ x # nl
    BY <1>1, <1>4, <1>6, <1>10
  <2>2. /\ Len(k) = 1 => PlainSays(x, k[1], k)
        /\ Len(k) = 2 => SufSays(x, k)
    BY <2>1 DEF IInv, StoreInv, DbInv
  <2>3. QED
    BY <1>9, <2>1, <2>2
<1>11. ASSUME NEW k \in Keys, NEW y \in layers, Len(k) = 2, Attached(y, k[1])', NEW x \in Leaves, In(x, y)',
              Covers(x, k[2])'
       PROVE  PlainSays(x, k[2], k)'
  <2>1. In(x, y) /\ Covers(x, k[2]) /\ x # nl
    BY <1>4, <1>6, <1>11
  <2>2. Attached(y, k[1])
    BY <1>11, LayeredAttached
  <2>3. PlainSays(x, k[2], k)
    BY <1>11, <2>1, <2>2 DEF IInv, StoreInv, DbInv
  <2>4. QED
    BY <1>9, <2>1, <2>3
<1>12. ASSUME NEW k \in Keys, Len(k) = 2, Attached(g, k[1])' PROVE PlainSays(nl, k[2], k)'
  <2>1. k[1] = old.ikey
    BY <1>1, <1>12, LayeredAttached
  <2>2. Covers(n, k[1])
    BY <1>1, <1>2, <2>1 DEF IInv, StoreInv, LeafInv
  <2>3. SufSays(n, k)
    BY <1>1, <1>12, <2>2 DEF IInv, StoreInv, DbInv
  <2>4. db[k] = IF old.suf = k[2] THEN old.lv ELSE 0
    BY <1>1, <1>2, <2>1, <2>3 DEF SufSays
  <2>5. PICK s : s = SuffixSlot(old.suf, old.lv) /\ s.ikey = old.suf /\ s.kind = "plain" /\ s.lv = old.lv
    BY SuffixSlotIs
  <2>6. \A e : e \in Entries(nl)' <=> e = s
    BY <1>2, <2>5
  <2>7. QED
    BY <1>1, <2>4, <2>5, <2>6 DEF PlainSays
<1>13. ASSUME NEW k \in Keys, NEW y \in layers', Len(k) = 2, Attached(y, k[1])', NEW x \in Leaves, In(x, y)',
              Covers(x, k[2])'
       PROVE  PlainSays(x, k[2], k)'
  <2>1. CASE y \in layers
    BY <1>11, <1>13, <2>1
  <2>2. CASE y = g
    <3>1. x = nl
      BY <1>5, <1>13, <2>2
    <3>2. PlainSays(nl, k[2], k)'
      BY <1>12, <1>13, <2>2
    <3>3. QED
      BY <3>1, <3>2
  <2>3. QED
    BY <1>1, <2>1, <2>2
<1>14. QED
  BY <1>10, <1>13 DEF DbInv

LEMMA LayeredStore ==
  ASSUME IInv, NEW p \in Procs, NEW c, NEW d, NEW n, NEW nl, NEW g, NEW old, NEW b,
         Layered(p, c, d, n, nl, g, old, b)
  PROVE  DeadInv' /\ BoundInv' /\ SortInv' /\ LeafInv' /\ LeftInv' /\ AttachInv'
<1>1. /\ TypeOK /\ TypeOK' /\ n \in Leaves /\ nl \in Leaves /\ nl # n /\ NotYet(nl) /\ layers' = layers \cup {g}
      /\ g \in Layers /\ g \notin layers /\ layers \subseteq Layers /\ RootLayer \in layers /\ In(n, RootLayer)
      /\ old \in Slot /\ old.kind = "ksuf" /\ old.ikey = c.key[1] /\ dirty' = dirty \cup {n}
      /\ c.i \in Index(perm[n])
      /\ UNCHANGED <<modstate, deleted, low, next, prev>>
  BY DEF Layered
<1>2. \A x \in Leaves : x # nl => slot'[x] = slot[x] /\ perm'[x] = perm[x] /\ locked'[x] = locked[x] /\ layer'[x] = layer[x]
  BY DEF Layered
<1>3. /\ prev[nl] = None /\ modstate[nl] = "insert" /\ nl \notin deleted
  BY <1>1 DEF NotYet
<1>4. PICK f \in [Slots -> Slot], pm \in Permuters : f = slot'[nl] /\ pm = perm'[nl]
  BY <1>1 DEF TypeOK, LeafTypeOK
<1>5. Injective(pm) /\ pm.size = 1
  <2>1. Founded(f, pm, old, c.key[2], b)
    BY <1>4 DEF Layered
  <2>2. QED
    BY <2>1 DEF Founded
<1>6. DeadInv'
  <2>1. \A x \in Leaves : modstate[x] = "deleted_layer" => x # nl
    BY <1>3
  <2>2. QED
    BY <1>1, <1>2, <2>1 DEF IInv, StoreInv, DeadInv
<1>7. BoundInv'
  <2>1. ASSUME NEW x \in Leaves, prev'[x] # None PROVE slot'[x][0].ikey = low'[x] /\ low'[x] > 0
    <3>1. x # nl /\ prev[x] # None
      BY <1>1, <1>3, <2>1
    <3>2. slot[x][0].ikey = low[x] /\ low[x] > 0
      BY <3>1 DEF IInv, StoreInv, BoundInv
    <3>3. QED
      BY <1>1, <1>2, <3>1, <3>2
  <2>2. QED
    BY <1>1, <2>1 DEF IInv, StoreInv, BoundInv
<1>8. SortInv'
  <2>1. ASSUME NEW x \in Leaves, x # nl PROVE Injective(perm'[x]) /\ SortedBy(x, perm[x])'
    <3>1. Injective(perm[x]) /\ SortedBy(x, perm[x])
      BY DEF IInv, StoreInv, SortInv
    <3>2. slot'[x] = slot[x] /\ perm'[x] = perm[x]
      BY <1>2, <2>1
    <3>3. QED
      BY <3>1, <3>2 DEF SortedBy
  <2>2. SortedBy(nl, perm[nl])'
    <3>1. \A i, j \in Index(pm) : ~(i < j)
      BY <1>5 DEF Index
    <3>2. QED
      BY <1>4, <3>1 DEF SortedBy
  <2>3. QED
    BY <1>4, <1>5, <2>1, <2>2 DEF SortInv
<1>9. \A x \in Leaves : \A y \in layers : In(x, y)' <=> In(x, y) /\ x # nl
  BY <1>1, LayeredViews
<1>10. \A x \in Leaves : In(x, g)' <=> x = nl
  BY <1>1, LayeredViews
<1>11. /\ \A x \in Leaves : x # n /\ x # nl => Entries(x)' = Entries(x)
       /\ \A e : e \in Entries(n)' <=> e = LayerOf(old, g) \/ (e \in Entries(n) /\ e # old)
       /\ \A e : e \in Entries(nl)' <=> e = SuffixSlot(old.suf, old.lv)
       /\ old \in Entries(n)
  BY LayeredEntries
<1>12. Covers(n, old.ikey) /\ old.lv # 0 /\ old.suf \in Nat
  <2>1. old.suf \in Nat
    BY <1>1, SlotType
  <2>2. QED
    BY <1>1, <1>11, <2>1 DEF IInv, StoreInv, LeafInv
<1>13. LeafInv'
  <2>1. SUFFICES ASSUME NEW y \in layers', NEW x \in Leaves, In(x, y)', NEW e \in Entries(x)'
                 PROVE  /\ Covers(x, e.ikey)
                        /\ e.kind # "layer" => e.lv # 0
                        /\ y # RootLayer => e.kind = "plain"
                        /\ e.kind = "layer" => e.lv \in layers' \ {RootLayer}
    <3>1. \A x \in Leaves : \A z : Covers(x, z)' <=> Covers(x, z)
      BY LayeredViews
    <3>2. QED
      BY <3>1 DEF LeafInv
  <2>2. ASSUME y = g
        PROVE  /\ Covers(x, e.ikey)
               /\ e.kind # "layer" => e.lv # 0
               /\ y # RootLayer => e.kind = "plain"
               /\ e.kind = "layer" => e.lv \in layers' \ {RootLayer}
    <3>1. x = nl /\ e = SuffixSlot(old.suf, old.lv)
      BY <1>10, <1>11, <2>1, <2>2
    <3>2. e.ikey = old.suf /\ e.kind = "plain" /\ e.lv = old.lv
      BY <3>1, SuffixSlotIs
    <3>3. Covers(nl, old.suf)
      BY <1>12, LayeredViews
    <3>4. QED
      BY <1>12, <3>1, <3>2, <3>3
  <2>3. ASSUME y \in layers
        PROVE  /\ Covers(x, e.ikey)
               /\ e.kind # "layer" => e.lv # 0
               /\ y # RootLayer => e.kind = "plain"
               /\ e.kind = "layer" => e.lv \in layers' \ {RootLayer}
    <3>1. In(x, y) /\ x # nl
      BY <1>9, <2>1, <2>3
    <3>2. ASSUME e \in Entries(x)
          PROVE  /\ Covers(x, e.ikey)
                 /\ e.kind # "layer" => e.lv # 0
                 /\ y # RootLayer => e.kind = "plain"
                 /\ e.kind = "layer" => e.lv \in layers' \ {RootLayer}
      <4>1. /\ Covers(x, e.ikey)
            /\ e.kind # "layer" => e.lv # 0
            /\ y # RootLayer => e.kind = "plain"
            /\ e.kind = "layer" => e.lv \in layers \ {RootLayer}
        BY <2>3, <3>1, <3>2 DEF IInv, StoreInv, LeafInv
      <4>2. QED
        BY <1>1, <4>1
    <3>3. ASSUME e \notin Entries(x)
          PROVE  /\ Covers(x, e.ikey)
                 /\ e.kind # "layer" => e.lv # 0
                 /\ y # RootLayer => e.kind = "plain"
                 /\ e.kind = "layer" => e.lv \in layers' \ {RootLayer}
      <4>1. x = n /\ e = LayerOf(old, g)
        BY <1>11, <2>1, <3>1, <3>3
      <4>2. e.kind = "layer" /\ e.lv = g /\ e.ikey = old.ikey
        BY <1>1, <4>1, LayerOfIs
      <4>3. y = RootLayer
        BY <1>1, <2>3, <3>1, <4>1, InUnique
      <4>4. QED
        BY <1>1, <1>12, <4>1, <4>2, <4>3
    <3>4. QED
      BY <3>2, <3>3
  <2>4. QED
    BY <1>1, <2>2, <2>3
<1>14. LeftInv'
  <2>1. SUFFICES ASSUME NEW y \in layers', NEW x \in Leaves, In(x, y)', perm'[x].size = 0,
                        ~(x \in dirty' /\ modstate[x] = "insert")
                 PROVE  Below(x, At(x, 0).ikey)'
    BY <1>1 DEF LeftInv
  <2>2. x # nl
    BY <1>4, <1>5, <2>1
  <2>3. y \in layers
    BY <1>1, <1>10, <2>1, <2>2
  <2>4. x # n
    <3>1. perm[n].size # 0
      BY <1>1, IndexNonEmpty
    <3>2. QED
      BY <1>2, <2>1, <2>2, <3>1
  <2>5. In(x, y) /\ perm[x].size = 0 /\ ~(x \in dirty /\ modstate[x] = "insert")
    BY <1>1, <1>2, <1>9, <2>1, <2>2, <2>3
  <2>6. Below(x, At(x, 0).ikey)
    BY <2>3, <2>5 DEF IInv, StoreInv, LeftInv
  <2>7. At(x, 0)' = At(x, 0)
    BY <1>2, <2>2 DEF At
  <2>8. PICK z : z = At(x, 0).ikey
    OBVIOUS
  <2>9. Below(x, z)'
    BY <2>6, <2>8, LayeredViews
  <2>10. QED
    BY <2>7, <2>8, <2>9
<1>15. AttachInv'
  <2>1. SUFFICES ASSUME NEW a \in Nat, NEW z \in Nat, NEW y \in layers', Attached(y, a)', Attached(y, z)'
                 PROVE  a = z
    BY DEF AttachInv
  <2>2. CASE y = g
    BY <2>1, <2>2, LayeredAttached
  <2>3. CASE y \in layers
    <3>1. Attached(y, a) /\ Attached(y, z)
      BY <2>1, <2>3, LayeredAttached
    <3>2. QED
      BY <2>3, <3>1 DEF IInv, StoreInv, AttachInv
  <2>4. QED
    BY <1>1, <2>2, <2>3
<1>16. QED
  BY <1>6, <1>7, <1>8, <1>13, <1>14, <1>15

LEMMA LayeredFrame ==
  ASSUME IInv, NEW p \in Procs, NEW c, NEW d, NEW n, NEW nl, NEW g, NEW old, NEW b,
         Layered(p, c, d, n, nl, g, old, b)
  PROVE  Frame(p)
<1>1. /\ TypeOK /\ TypeOK' /\ n \in Leaves /\ nl \in Leaves /\ nl # n /\ NotYet(nl) /\ layers' = layers \cup {g}
      /\ g \in Layers /\ g \notin layers /\ layers \subseteq Layers /\ locked[n] = p /\ dirty' = dirty \cup {n}
      /\ t'[p] = d
      /\ UNCHANGED <<modstate, deleted, low, next, prev>>
  BY DEF Layered
<1>2. \A x \in Leaves : x # nl => slot'[x] = slot[x] /\ perm'[x] = perm[x] /\ locked'[x] = locked[x] /\ layer'[x] = layer[x]
  BY DEF Layered
<1>3. /\ None \notin Leaves /\ None \notin Procs /\ locked[nl] = None /\ ~Alloc(nl)
      /\ \A q \in Procs : t[q].node # nl
  BY <1>1, ConstantFacts DEF NotYet
<1>4. ThreadFrame(p) /\ d.node = n
  BY LayeredThreads
<1>5. \A x \in Leaves : \A y \in layers : In(x, y)' <=> In(x, y) /\ x # nl
  BY <1>1, LayeredViews
<1>6. \A x \in Leaves : \A y \in Layers : ~In(nl, y)
  BY LayeredViews
<1>7. \A x \in Leaves : Gone(x)' <=> x # nl /\ Gone(x)
  BY LayeredViews
<1>8. LockedFrame(p)
  <2>1. SUFFICES ASSUME NEW x \in Leaves, locked[x] \in Procs \ {p}
                 PROVE  /\ slot'[x] = slot[x] /\ perm'[x] = perm[x] /\ modstate'[x] = modstate[x]
                        /\ locked'[x] = locked[x] /\ layer'[x] = layer[x]
                        /\ x \in dirty' <=> x \in dirty
                        /\ x \in deleted' <=> x \in deleted
                        /\ next'[x] = next[x]
                        /\ t'[p].node # x
    BY DEF LockedFrame
  <2>2. x # nl /\ x # n
    BY <1>1, <1>3, <2>1
  <2>3. QED
    BY <1>1, <1>2, <1>4, <2>2
<1>9. LeafFrame(p)
  <2>1. SUFFICES ASSUME NEW x \in Leaves, Alloc(x)
                 PROVE  /\ Alloc(x)' /\ low'[x] = low[x]
                        /\ prev'[x] = None <=> prev[x] = None
                        /\ layer'[x] = layer[x]
                        /\ next'[x] # next[x] => ~Gone(x)'
                        /\ Gone(x) => Gone(x)'
                        /\ x \in deleted' <=> x \in deleted
    BY DEF LeafFrame
  <2>2. x # nl
    BY <1>3, <2>1
  <2>3. Alloc(x)'
    BY <2>1, LayeredAlloc
  <2>4. QED
    BY <1>1, <1>2, <1>7, <2>2, <2>3
<1>10. ListFrame(p)
  <2>1. SUFFICES ASSUME NEW x \in Leaves, NEW y \in layers, In(x, y)
                 PROVE  /\ In(x, y)'
                        /\ \A z \in Nat : Covers(x, z) => Covers(x, z)'
    BY DEF ListFrame
  <2>2. x # nl
    BY <1>1, <1>6, <2>1
  <2>3. In(x, y)'
    BY <1>5, <2>1, <2>2
  <2>4. \A z : Covers(x, z)' <=> Covers(x, z)
    BY LayeredViews
  <2>5. QED
    BY <2>3, <2>4
<1>11. LayerFrame(p)
  <2>1. ASSUME NEW y \in layers, Dead(y) PROVE Dead(y)'
    BY <1>1, <1>5, <2>1 DEF Dead
  <2>2. \A y \in layers : \A a : Attached(y, a)' <=> Attached(y, a)
    BY LayeredAttached
  <2>3. QED
    BY <1>1, <2>1, <2>2 DEF LayerFrame
<1>12. ReadFrame(p)
  <2>1. ReadsKept(p)
    <3>1. SUFFICES ASSUME NEW q \in Procs \ {p}, t[q].pc \in ReadPc
                   PROVE  /\ modstate'[t[q].node] = modstate[t[q].node]
                          /\ perm'[t[q].node] = perm[t[q].node]
                          /\ slot'[t[q].node] = slot[t[q].node]
      BY DEF ReadsKept, PermSame
    <3>2. t[q].node \in Leaves
      BY <3>1, SearchMine, PcFacts
    <3>3. QED
      BY <1>1, <1>2, <1>3, <3>2
  <2>2. QED
    BY <1>1, <1>4, <2>1, ReadsFrame
<1>13. QED
  BY <1>4, <1>8, <1>9, <1>10, <1>11, <1>12 DEF Frame

LEMMA LayeredOK ==
  ASSUME IInv, NEW p \in Procs, NEW c, NEW d, NEW n, NEW nl, NEW g, NEW old, NEW b,
         Layered(p, c, d, n, nl, g, old, b)
  PROVE  ThreadOK(d)'
<1>1. /\ TypeOK /\ TypeOK' /\ c \in Thread /\ d \in Thread /\ n \in Leaves /\ nl \in Leaves /\ nl # n /\ NotYet(nl)
      /\ g \in Layers /\ g \notin layers /\ layers' = layers \cup {g} /\ RootLayer \in layers /\ layers \subseteq Layers
      /\ c.op = "put" /\ KeyOK(c) /\ HomeOK(c) /\ c.node = n /\ n \notin deleted
      /\ layer[n] = RootLayer /\ In(n, RootLayer) /\ SameLock(c, d) /\ d.pc = "layer_lv" /\ d.other = nl
      /\ UNCHANGED <<modstate, deleted, low, next, prev, db>>
  BY DEF Layered
<1>2. /\ slot'[n] = slot[n] /\ perm'[n] = perm[n] /\ layer'[n] = layer[n] /\ layer'[nl] = g
  BY DEF Layered
<1>3. /\ d.node = n /\ d.op = "put" /\ d.key = c.key /\ d.depth = c.depth
  BY <1>1 DEF SameLock
<1>4. /\ KeyOK(d) /\ HomeOK(d)
  BY <1>1, LockKey
<1>5. KeyOK(d)'
  BY <1>1, <1>4 DEF KeyOK
<1>6. /\ d.depth = 1 /\ Len(d.key) = 2 /\ d.p = c.p /\ d.i = b /\ n \in dirty'
      /\ c.p \in Slots /\ c.i \in Index(perm[n]) /\ perm[n].slot[c.i] = c.p /\ old = slot[n][c.p] /\ old \in Slot
      /\ old.kind = "ksuf" /\ old.ikey = d.key[1]
  BY <1>3 DEF Layered
<1>7. HomeOK(d)'
  <2>1. Covers(n, Ikey(d))
    BY <1>3, <1>4 DEF HomeOK
  <2>2. Covers(n, Ikey(d))'
    <3>1. PICK z : z = Ikey(d)
      OBVIOUS
    <3>2. Covers(n, z)'
      BY <1>1, <2>1, <3>1, LayeredViews
    <3>3. QED
      BY <3>1, <3>2 DEF Ikey
  <2>3. In(n, RootLayer)'
    BY <1>1, LayeredViews
  <2>4. layer'[n] = RootLayer
    BY <1>1, <1>2
  <2>5. In(n, layer[n])'
    BY <2>3, <2>4
  <2>6. Level(d)'
    BY <1>3, <1>6, <2>4 DEF Level
  <2>7. QED
    BY <1>1, <1>3, <2>2, <2>4, <2>5, <2>6 DEF HomeOK
<1>8. PICK f, pm : f = slot'[nl] /\ pm = perm'[nl]
  OBVIOUS
<1>9. /\ pm.size = 1 /\ b \in {0, 1} /\ pm.slot[0] = 1 - b /\ Back(pm) = b
      /\ f[1 - b] = SuffixSlot(old.suf, old.lv) /\ f[b] = SuffixSlot(d.key[2], Empty)
      /\ IF b = 1 THEN old.suf < d.key[2] ELSE old.suf > d.key[2]
  BY <1>3, <1>8 DEF Layered, Founded
<1>10. /\ f[b].ikey = d.key[2] /\ f[b].kind = "plain"
       /\ f[pm.slot[0]].ikey = old.suf /\ f[pm.slot[0]].kind = "plain"
  BY <1>9, SuffixSlotIs
<1>11. /\ perm'[nl].size = 1 /\ d.i \in {0, 1} /\ d.i = Back(perm'[nl])
       /\ slot'[nl][d.i].ikey = d.key[2] /\ slot'[nl][d.i].kind = "plain"
       /\ IF d.i = 1 THEN At(nl, 0)'.ikey < d.key[2] ELSE At(nl, 0)'.ikey > d.key[2]
       /\ At(nl, 0)'.kind = "plain"
  BY <1>6, <1>8, <1>9, <1>10 DEF At
<1>12. /\ next'[nl] = None /\ prev'[nl] = None /\ modstate'[nl] = "insert"
       /\ nl # None /\ layer'[nl] \in layers' \ {RootLayer}
  BY <1>1, <1>2, ConstantFacts DEF NotYet
<1>13. /\ \E j \in Index(perm'[n]) : perm'[n].slot[j] = d.p
       /\ slot'[n][d.p].ikey = d.key[1] /\ slot'[n][d.p].kind = "ksuf" /\ d.p # None
  BY <1>2, <1>6, ConstantFacts
<1>14. TurnOK(d)'
  BY <1>1, <1>3, <1>6, <1>11, <1>12, <1>13, Zenon DEF TurnOK
<1>15. LockOK(d)'
  BY <1>1, <1>3, <1>7, <1>14, TurnPcs DEF LockOK
<1>16. QED
  BY <1>1, <1>5, <1>15, TurnPcs, HolderOK

LEMMA NewLayerStep ==
  ASSUME IInv, NEW p \in Procs, NewLayer(p)
  PROVE  IInv'
<1>1. PICK c, d, n, nl, g, old, b : Layered(p, c, d, n, nl, g, old, b)
  BY NewLayerMine
<1>2. TypeOK' /\ d = t'[p]
  BY <1>1 DEF Layered
<1>3. ThreadOK(t[p])'
  <2>1. ThreadOK(d)'
    BY <1>1, LayeredOK
  <2>2. QED
    BY <1>2, <2>1
<1>4. ListInv' /\ AllocInv' /\ DbInv' /\ LockInv'
  BY <1>1, LayeredList, LayeredAlloc, LayeredDb, LayeredThreads
<1>5. DeadInv' /\ BoundInv' /\ SortInv' /\ LeafInv' /\ LeftInv' /\ AttachInv'
  BY <1>1, LayeredStore
<1>6. Frame(p)
  BY <1>1, LayeredFrame
<1>7. ThreadInv'
  BY <1>2, <1>3, <1>4, <1>6, ThreadInvStep
<1>8. QED
  BY <1>2, <1>4, <1>5, <1>7 DEF IInv, StoreInv

-----------------------------------------------------------------------------
(* The table at the start.                                                 *)

(* The table at the start: one leaf, whose j-th slot has the j-th key.     *)
Place(k) == CHOOSE s \in DOMAIN scene.present : scene.present[s] = k

Opening(ks, m) ==
  /\ ks = scene.present /\ m \in 1..Width /\ m \in Nat /\ DOMAIN ks = 1..m
  /\ \A j \in 1..m : ks[j] \in Keys
  /\ \A i, j \in 1..m : i < j => KeyLess(ks[i], ks[j])
  /\ \A s \in Slots : slot[First][s] = IF s < m THEN KeySlot(ks[s + 1], 0 - (s + 1)) ELSE NewSlot
  /\ perm[First] = MakeSorted(m)
  /\ \A n \in Leaves : n # First => perm[n] = MakeEmpty /\ layer[n] = None
  /\ layer[First] = RootLayer
  /\ \A n \in Leaves : /\ modstate[n] = "insert" /\ locked[n] = None /\ low[n] = 0 /\ next[n] = None
                       /\ prev[n] = None
  /\ dirty = {} /\ deleted = {} /\ layers = {RootLayer}
  /\ \A p \in Procs : t[p] = Idle
  /\ \A k \in Keys : db[k] = IF \E s \in 1..m : ks[s] = k THEN 0 - Place(k) ELSE 0

LEMMA KeySlotType ==
  ASSUME NEW k \in Keys, NEW v \in Int
  PROVE  /\ KeySlot(k, v) \in Slot /\ KeySlot(k, v).ikey = k[1] /\ KeySlot(k, v).lv = v
         /\ Len(k) = 1 => KeySlot(k, v).kind = "plain"
         /\ Len(k) = 2 => KeySlot(k, v).kind = "ksuf" /\ KeySlot(k, v).suf = k[2]
         /\ Len(k) = 1 \/ Len(k) = 2
<1>1. k[1] \in Nat /\ Len(k) \in 1..2 /\ (Len(k) = 2 => k[2] \in Nat)
  BY KeyFacts
<1>2. PICK m \in 1..2 : m = Len(k)
  BY <1>1
<1>3. m = 1 \/ m = 2
  OBVIOUS
<1>4. KeySlot(k, v) = [ikey |-> k[1], kind |-> IF m > 1 THEN "ksuf" ELSE "plain",
                       suf |-> IF m > 1 THEN k[2] ELSE 0, lv |-> v]
  BY <1>2, Zenon DEF KeySlot
<1>5. CASE m = 1
  <2>1. KeySlot(k, v) = [ikey |-> k[1], kind |-> "plain", suf |-> 0, lv |-> v]
    BY <1>4, <1>5
  <2>2. QED
    BY <1>1, <1>2, <1>5, <2>1 DEF Slot
<1>6. CASE m = 2
  <2>1. KeySlot(k, v) = [ikey |-> k[1], kind |-> "ksuf", suf |-> k[2], lv |-> v]
    BY <1>4, <1>6
  <2>2. k[2] \in Nat
    BY <1>1, <1>2, <1>6
  <2>3. QED
    BY <1>1, <1>2, <1>6, <2>1, <2>2 DEF Slot
<1>7. QED
  BY <1>3, <1>5, <1>6

LEMMA SameKeys ==
  ASSUME NEW a \in Seq(Nat), NEW k \in Seq(Nat), NEW m \in 1..2, Len(a) = m, Len(k) = m, a[1] = k[1],
         m = 1 \/ a[2] = k[2]
  PROVE  a = k
<1>1. \A i \in 1..m : i = 1 \/ (i = 2 /\ m = 2)
  OBVIOUS
<1>2. \A i \in 1..m : a[i] = k[i]
  BY <1>1
<1>3. a = [i \in 1..m |-> a[i]]
  OBVIOUS
<1>4. k = [i \in 1..m |-> k[i]]
  OBVIOUS
<1>5. [i \in 1..m |-> a[i]] = [i \in 1..m |-> k[i]]
  BY <1>2
<1>6. QED
  BY <1>3, <1>4, <1>5

LEMMA InitOpening ==
  ASSUME Init
  PROVE  TypeOK /\ \E ks, m : Opening(ks, m)
<1>1. PICK ks, m : ks = scene.present /\ m = Len(ks)
  OBVIOUS
<1>2. scene \in Scenes
  BY DEF Init
<1>3. /\ ks \in Seq(Keys) /\ m \in 1..Width
      /\ \A i, j \in 1..m : i < j => KeyLess(ks[i], ks[j])
  BY <1>1, <1>2, LeafReadAssumption
<1>4. DOMAIN ks = 1..m /\ \A j \in 1..m : ks[j] \in Keys
  BY <1>1, <1>3
<1>5. m \in Nat
  BY <1>3, WidthFacts
<1>6. /\ slot = [n \in Leaves |-> [s \in Slots |-> IF n = First /\ s < m
                                                   THEN KeySlot(ks[s + 1], 0 - (s + 1)) ELSE NewSlot]]
      /\ perm = [n \in Leaves |-> IF n = First THEN MakeSorted(m) ELSE MakeEmpty]
      /\ layer = [n \in Leaves |-> IF n = First THEN RootLayer ELSE None]
  BY <1>1, Zenon DEF Init
<1>7. /\ modstate = [n \in Leaves |-> "insert"]
      /\ locked = [n \in Leaves |-> None]
      /\ dirty = {} /\ deleted = {}
      /\ low = [n \in Leaves |-> 0]
      /\ next = [n \in Leaves |-> None] /\ prev = [n \in Leaves |-> None]
      /\ layers = {RootLayer} /\ gcs = {}
      /\ t = [p \in Procs |-> Idle] /\ ops = 0
  BY Zenon DEF Init
<1>8. db = [k \in Keys |-> IF \E s \in DOMAIN scene.present : scene.present[s] = k THEN 0 - Place(k) ELSE 0]
  BY Zenon DEF Init, Place
<1>9. db = [k \in Keys |-> IF \E s \in 1..m : ks[s] = k THEN 0 - Place(k) ELSE 0]
  BY <1>1, <1>4, <1>8
<1>10. ASSUME NEW s \in Slots, s < m PROVE KeySlot(ks[s + 1], 0 - (s + 1)) \in Slot
  <2>1. s \in Int /\ s >= 0
    BY WidthFacts DEF Slots
  <2>2. s + 1 \in 1..m /\ 0 - (s + 1) \in Int
    BY <1>5, <1>10, <2>1
  <2>3. QED
    BY <1>4, <2>2, KeySlotType
<1>11. NewSlot \in Slot
  BY DEF NewSlot, Slot, Empty
<1>12. slot \in [Leaves -> [Slots -> Slot]]
  BY <1>6, <1>10, <1>11
<1>13. perm \in [Leaves -> Permuters]
  <2>1. m \in 0..Width
    BY <1>3, WidthFacts
  <2>2. MakeSorted(m) \in Permuters /\ MakeEmpty \in Permuters
    BY <2>1, MakeSortedOK, MakeEmptyOK
  <2>3. QED
    BY <1>6, <2>2
<1>14. db \in [Keys -> Int \cup Layers]
  <2>1. ASSUME NEW k \in Keys, \E s \in 1..m : ks[s] = k PROVE 0 - Place(k) \in Int
    <3>1. Place(k) \in DOMAIN scene.present
      BY <1>1, <1>4, <2>1 DEF Place
    <3>2. Place(k) \in 1..m
      BY <1>1, <1>4, <3>1
    <3>3. QED
      BY <1>5, <3>2
  <2>2. QED
    BY <1>9, <2>1
<1>15. LeafTypeOK
  BY <1>6, <1>7, <1>12, <1>13, ConstantFacts DEF LeafTypeOK
<1>16. TypeOK
  BY <1>2, <1>7, <1>14, <1>15, IdleOK DEF TypeOK
<1>17. First \in Leaves
  BY ConstantFacts
<1>18. /\ \A s \in Slots : slot[First][s] = IF s < m THEN KeySlot(ks[s + 1], 0 - (s + 1)) ELSE NewSlot
       /\ perm[First] = MakeSorted(m)
       /\ \A n \in Leaves : n # First => perm[n] = MakeEmpty /\ layer[n] = None
       /\ layer[First] = RootLayer
  BY <1>6, <1>17
<1>19. /\ \A n \in Leaves : /\ modstate[n] = "insert" /\ locked[n] = None /\ low[n] = 0 /\ next[n] = None
                            /\ prev[n] = None
       /\ dirty = {} /\ deleted = {} /\ layers = {RootLayer}
       /\ \A p \in Procs : t[p] = Idle
  BY <1>7
<1>20. \A k \in Keys : db[k] = IF \E s \in 1..m : ks[s] = k THEN 0 - Place(k) ELSE 0
  BY <1>9
<1>21. Opening(ks, m)
  BY <1>1, <1>3, <1>4, <1>5, <1>18, <1>19, <1>20, Zenon DEF Opening
<1>22. QED
  BY <1>16, <1>21

LEMMA OpeningKeys ==
  ASSUME NEW ks, NEW m, Opening(ks, m)
  PROVE  /\ \A i, j \in 1..m : ks[i][1] = ks[j][1] /\ Len(ks[i]) = Len(ks[j]) => i = j
         /\ \A j \in 1..m : db[ks[j]] = 0 - j
         /\ \A k \in Keys : (\A j \in 1..m : ks[j] # k) => db[k] = 0
<1>1. /\ ks = scene.present /\ m \in Nat /\ DOMAIN ks = 1..m
      /\ \A j \in 1..m : ks[j] \in Keys
      /\ \A i, j \in 1..m : i < j => KeyLess(ks[i], ks[j])
      /\ \A k \in Keys : db[k] = IF \E s \in 1..m : ks[s] = k THEN 0 - Place(k) ELSE 0
  BY DEF Opening
<1>2. ASSUME NEW i \in 1..m, NEW j \in 1..m, i < j, ks[i][1] = ks[j][1], Len(ks[i]) = Len(ks[j]) PROVE FALSE
  <2>1. KeyLess(ks[i], ks[j])
    BY <1>1, <1>2
  <2>2. PICK a, e : a = ks[i] /\ e = ks[j]
    OBVIOUS
  <2>3. a[1] \in Nat /\ a[1] = e[1] /\ Len(a) = Len(e)
    BY <1>1, <1>2, <2>2, KeyFacts
  <2>4. ~(a[1] < e[1])
    BY <2>3
  <2>5. Len(a) = 1 /\ Len(e) = 2
    BY <2>1, <2>2, <2>4 DEF KeyLess
  <2>6. PICK u, v \in 1..2 : u = Len(a) /\ v = Len(e)
    BY <1>1, <2>2, KeyFacts
  <2>7. u = v /\ u = 1 /\ v = 2
    BY <2>3, <2>5, <2>6, Zenon
  <2>8. ~(u = v /\ u = 1 /\ v = 2)
    OBVIOUS
  <2>9. QED
    BY <2>7, <2>8, Zenon
<1>3. ASSUME NEW i \in 1..m, NEW j \in 1..m, ks[i][1] = ks[j][1], Len(ks[i]) = Len(ks[j]) PROVE i = j
  <2>1. i < j \/ j < i \/ i = j
    BY <1>1
  <2>2. QED
    BY <1>2, <1>3, <2>1
<1>4. ASSUME NEW j \in 1..m PROVE db[ks[j]] = 0 - j
  <2>1. PICK k \in Keys : k = ks[j]
    BY <1>1
  <2>2. \E s \in DOMAIN scene.present : scene.present[s] = k
    BY <1>1, <2>1
  <2>3. Place(k) \in DOMAIN scene.present /\ scene.present[Place(k)] = k
    BY <2>2 DEF Place
  <2>4. Place(k) = j
    BY <1>1, <1>3, <2>1, <2>3
  <2>5. db[k] = 0 - Place(k)
    BY <1>1, <2>1
  <2>6. QED
    BY <2>1, <2>4, <2>5
<1>5. QED
  BY <1>1, <1>3, <1>4

LEMMA OpeningViews ==
  ASSUME TypeOK, NEW ks, NEW m, Opening(ks, m)
  PROVE  /\ \A n \in Leaves : Linked(n)
         /\ \A n \in Leaves : \A l \in Layers : In(n, l) <=> n = First /\ l = RootLayer
         /\ \A n \in Leaves : Hi(n) = None
         /\ \A n \in Leaves : \A x : Below(n, x)
         /\ \A n \in Leaves : \A x \in Nat : Covers(n, x)
         /\ \A i \in Index(perm[First]) : i + 1 \in 1..m /\ At(First, i) = KeySlot(ks[i + 1], 0 - (i + 1))
         /\ \A e \in Entries(First) : \E j \in 1..m : e = KeySlot(ks[j], 0 - j)
         /\ \A j \in 1..m : KeySlot(ks[j], 0 - j) \in Entries(First)
<1>1. /\ \A n \in Leaves : /\ modstate[n] = "insert" /\ locked[n] = None /\ low[n] = 0 /\ next[n] = None
                           /\ prev[n] = None
      /\ \A n \in Leaves : n # First => perm[n] = MakeEmpty /\ layer[n] = None
      /\ layer[First] = RootLayer /\ First \in Leaves /\ RootLayer \in Layers /\ None \notin Layers
  BY ConstantFacts DEF Opening
<1>2. \A n \in Leaves : Linked(n)
  BY <1>1 DEF Linked
<1>3. \A n \in Leaves : \A l \in Layers : In(n, l) <=> n = First /\ l = RootLayer
  BY <1>1, <1>2 DEF In
<1>4. \A n \in Leaves : Hi(n) = None
  BY <1>1 DEF Hi, Splitting
<1>5. \A n \in Leaves : \A x : Below(n, x)
  BY <1>4 DEF Below
<1>6. \A n \in Leaves : \A x \in Nat : Covers(n, x)
  BY <1>1, <1>5 DEF Covers
<1>7. /\ m \in 0..Width /\ m \in Nat /\ perm[First] = MakeSorted(m)
      /\ \A s \in Slots : slot[First][s] = IF s < m THEN KeySlot(ks[s + 1], 0 - (s + 1)) ELSE NewSlot
  <2>1. m \in 1..Width /\ m \in Nat
    BY DEF Opening
  <2>2. m \in 0..Width
    BY <2>1, WidthFacts
  <2>3. QED
    BY <2>1, <2>2 DEF Opening
<1>8. Index(perm[First]) = 0..(m - 1) /\ \A i \in 0..(m - 1) : perm[First].slot[i] = i
  BY <1>7, MakeSortedOK DEF Index
<1>9. \A i \in 0..(m - 1) : i \in Slots /\ i < m /\ i + 1 \in 1..m
  BY <1>7, WidthFacts DEF Slots
<1>10. \A i \in 0..(m - 1) : slot[First][perm[First].slot[i]] = KeySlot(ks[i + 1], 0 - (i + 1))
  BY <1>7, <1>8, <1>9
<1>11. \A i \in Index(perm[First]) : i + 1 \in 1..m /\ At(First, i) = KeySlot(ks[i + 1], 0 - (i + 1))
  BY <1>8, <1>9, <1>10 DEF At
<1>12. \A s : Ent(First, s) = slot[First][s]
  BY <1>1, EntSlot
<1>13. ASSUME NEW e PROVE e \in Entries(First) <=> \E i \in 0..(m - 1) : e = KeySlot(ks[i + 1], 0 - (i + 1))
  BY <1>8, <1>10, <1>12 DEF Entries
<1>14. ASSUME NEW j \in 1..m PROVE KeySlot(ks[j], 0 - j) \in Entries(First)
  <2>1. PICK i \in 0..(m - 1) : i + 1 = j
    <3>1. j - 1 \in 0..(m - 1) /\ (j - 1) + 1 = j
      BY <1>7
    <3>2. QED
      BY <3>1
  <2>2. QED
    BY <1>13, <2>1
<1>15. ASSUME NEW e \in Entries(First) PROVE \E j \in 1..m : e = KeySlot(ks[j], 0 - j)
  <2>1. PICK i \in 0..(m - 1) : e = KeySlot(ks[i + 1], 0 - (i + 1))
    BY <1>13, <1>15
  <2>2. QED
    BY <1>9, <2>1
<1>16. QED
  BY <1>2, <1>3, <1>4, <1>5, <1>6, <1>11, <1>14, <1>15

LEMMA OpeningEntry ==
  ASSUME TypeOK, NEW ks, NEW m, Opening(ks, m), NEW e \in Entries(First)
  PROVE  \E j \in 1..m : /\ ks[j] \in Keys /\ e.ikey = ks[j][1] /\ e.lv = 0 - j /\ e.ikey \in Nat /\ 0 - j # 0
                         /\ Len(ks[j]) = 1 => e.kind = "plain"
                         /\ Len(ks[j]) = 2 => e.kind = "ksuf" /\ e.suf = ks[j][2]
                         /\ Len(ks[j]) = 1 \/ Len(ks[j]) = 2
<1>1. m \in Nat /\ \A j \in 1..m : ks[j] \in Keys
  BY DEF Opening
<1>2. PICK j \in 1..m : e = KeySlot(ks[j], 0 - j)
  BY OpeningViews
<1>3. PICK k \in Keys, v \in Int : k = ks[j] /\ v = 0 - j /\ v # 0
  BY <1>1
<1>4. /\ e.ikey = k[1] /\ e.lv = v /\ (Len(k) = 1 => e.kind = "plain")
      /\ Len(k) = 2 => e.kind = "ksuf" /\ e.suf = k[2]
      /\ Len(k) = 1 \/ Len(k) = 2
  BY <1>2, <1>3, KeySlotType
<1>5. k[1] \in Nat
  BY KeyFacts
<1>6. QED
  BY <1>3, <1>4, <1>5

LEMMA OpeningDb ==
  ASSUME TypeOK, NEW ks, NEW m, Opening(ks, m)
  PROVE  DbInv /\ AttachInv /\ LeafInv
<1>1. m \in Nat /\ layers = {RootLayer} /\ \A j \in 1..m : ks[j] \in Keys
  BY DEF Opening
<1>2. /\ \A i, j \in 1..m : ks[i][1] = ks[j][1] /\ Len(ks[i]) = Len(ks[j]) => i = j
      /\ \A j \in 1..m : db[ks[j]] = 0 - j
      /\ \A k \in Keys : (\A j \in 1..m : ks[j] # k) => db[k] = 0
  BY OpeningKeys
<1>3. RootLayer \in Layers /\ First \in Leaves
  BY ConstantFacts
<1>4. \A n \in Leaves : In(n, RootLayer) <=> n = First
  BY <1>3, OpeningViews
<1>5. \A l, a : ~Attached(l, a)
  <2>1. ASSUME NEW e \in Entries(First) PROVE e.kind # "layer"
    BY OpeningEntry
  <2>2. QED
    BY <1>4, <2>1 DEF Attached, IsLayer
<1>6. LeafInv
  <2>1. SUFFICES ASSUME NEW e \in Entries(First)
                 PROVE  /\ Covers(First, e.ikey)
                        /\ e.kind # "layer" => e.lv # 0
                        /\ e.kind # "layer"
    BY <1>1, <1>4 DEF LeafInv
  <2>2. PICK j \in 1..m : /\ e.lv = 0 - j /\ e.ikey \in Nat /\ 0 - j # 0
                          /\ e.kind = "plain" \/ e.kind = "ksuf"
    BY OpeningEntry
  <2>3. Covers(First, e.ikey)
    BY <1>3, <2>2, OpeningViews
  <2>4. QED
    BY <2>2, <2>3
<1>7. ASSUME NEW k \in Keys, Len(k) = 1 PROVE PlainSays(First, k[1], k)
  <2>1. ASSUME NEW e \in Entries(First), e.ikey = k[1], e.kind = "plain" PROVE db[k] = e.lv
    <3>1. PICK j \in 1..m : /\ ks[j] \in Keys /\ e.ikey = ks[j][1] /\ e.lv = 0 - j
                            /\ Len(ks[j]) = 2 => e.kind = "ksuf"
                            /\ Len(ks[j]) = 1 \/ Len(ks[j]) = 2
      BY OpeningEntry
    <3>2. Len(ks[j]) = 1
      BY <2>1, <3>1
    <3>3. PICK a \in Keys : a = ks[j] /\ Len(a) = 1 /\ a[1] = k[1]
      BY <2>1, <3>1, <3>2
    <3>4. PICK u \in 1..2 : u = 1
      OBVIOUS
    <3>5. a = k
      <4>1. Len(a) = u /\ Len(k) = u
        BY <1>7, <3>3, <3>4, Zenon
      <4>2. a \in Seq(Nat) /\ k \in Seq(Nat)
        BY KeyFacts
      <4>3. QED
        BY <3>3, <3>4, <4>1, <4>2, SameKeys
    <3>6. QED
      BY <1>2, <3>1, <3>3, <3>5
  <2>2. ASSUME \A e \in Entries(First) : ~(e.ikey = k[1] /\ e.kind = "plain") PROVE db[k] = 0
    <3>1. ASSUME NEW j \in 1..m, ks[j] = k PROVE FALSE
      <4>1. PICK v \in Int : v = 0 - j
        BY <1>1
      <4>2. KeySlot(k, v) \in Entries(First)
        BY <3>1, <4>1, OpeningViews
      <4>3. KeySlot(k, v).ikey = k[1] /\ KeySlot(k, v).kind = "plain"
        BY <1>7, KeySlotType
      <4>4. QED
        BY <2>2, <4>2, <4>3
    <3>2. QED
      BY <1>2, <3>1
  <2>3. QED
    BY <2>1, <2>2 DEF PlainSays
<1>8. ASSUME NEW k \in Keys, Len(k) = 2 PROVE SufSays(First, k)
  <2>1. ASSUME NEW e \in Entries(First), e.ikey = k[1], e.kind = "ksuf"
        PROVE  db[k] = IF e.suf = k[2] THEN e.lv ELSE 0
    <3>1. PICK j \in 1..m : /\ ks[j] \in Keys /\ e.ikey = ks[j][1] /\ e.lv = 0 - j
                            /\ Len(ks[j]) = 1 => e.kind = "plain"
                            /\ Len(ks[j]) = 2 => e.suf = ks[j][2]
                            /\ Len(ks[j]) = 1 \/ Len(ks[j]) = 2
      BY OpeningEntry
    <3>2. Len(ks[j]) = 2
      BY <2>1, <3>1
    <3>3. PICK a \in Keys : a = ks[j] /\ Len(a) = 2 /\ a[1] = k[1] /\ e.suf = a[2]
      BY <2>1, <3>1, <3>2
    <3>4. Len(a) = Len(k)
      BY <1>8, <3>3, Zenon
    <3>5. ASSUME e.suf = k[2] PROVE db[k] = e.lv
      <4>1. a = k
        <5>1. PICK u \in 1..2 : u = 2
          OBVIOUS
        <5>2. Len(a) = u /\ Len(k) = u
          BY <1>8, <3>3, <5>1, Zenon
        <5>3. a \in Seq(Nat) /\ k \in Seq(Nat) /\ a[1] = k[1] /\ a[2] = k[2]
          BY <3>3, <3>5, KeyFacts
        <5>4. QED
          BY <5>2, <5>3, SameKeys
      <4>2. ks[j] = k
        BY <3>3, <4>1, Zenon
      <4>3. db[ks[j]] = 0 - j
        BY <1>2
      <4>4. QED
        BY <3>1, <4>2, <4>3, Zenon
    <3>6. ASSUME e.suf # k[2] PROVE db[k] = 0
      <4>1. ASSUME NEW i \in 1..m, ks[i] = k PROVE FALSE
        <5>1. ks[i][1] = ks[j][1] /\ Len(ks[i]) = Len(ks[j])
          <6>1. ks[i][1] = ks[j][1]
            BY <3>3, <4>1
          <6>2. Len(ks[i]) = Len(ks[j])
            BY <3>3, <3>4, <4>1, Zenon
          <6>3. QED
            BY <6>1, <6>2
        <5>2. i = j
          BY <1>2, <5>1
        <5>3. QED
          BY <3>3, <3>6, <4>1, <5>2
      <4>2. QED
        BY <1>2, <4>1
    <3>7. QED
      BY <3>5, <3>6
  <2>2. ASSUME \A e \in Entries(First) : ~(e.ikey = k[1] /\ e.kind # "plain") PROVE db[k] = 0
    <3>1. ASSUME NEW j \in 1..m, ks[j] = k PROVE FALSE
      <4>1. PICK v \in Int : v = 0 - j
        BY <1>1
      <4>2. KeySlot(k, v) \in Entries(First)
        BY <3>1, <4>1, OpeningViews
      <4>3. KeySlot(k, v).ikey = k[1] /\ KeySlot(k, v).kind = "ksuf"
        BY <1>8, KeySlotType
      <4>4. QED
        BY <2>2, <4>2, <4>3
    <3>2. QED
      BY <1>2, <3>1
  <2>3. QED
    BY <2>1, <2>2 DEF SufSays
<1>9. DbInv
  BY <1>4, <1>5, <1>7, <1>8 DEF DbInv
<1>10. AttachInv
  BY <1>5 DEF AttachInv
<1>11. QED
  BY <1>6, <1>9, <1>10

LEMMA InitInv ==
  ASSUME Init
  PROVE  IInv
<1>1. TypeOK
  BY InitOpening
<1>2. PICK ks, m : Opening(ks, m)
  BY InitOpening
<1>3. /\ \A n \in Leaves : /\ modstate[n] = "insert" /\ locked[n] = None /\ low[n] = 0 /\ next[n] = None
                           /\ prev[n] = None
      /\ dirty = {} /\ deleted = {} /\ layers = {RootLayer}
      /\ \A p \in Procs : t[p] = Idle
  BY <1>2 DEF Opening
<1>4. /\ First \in Leaves /\ RootLayer \in Layers /\ None \notin Procs /\ None \notin Layers
      /\ Idle.pc = "idle" /\ Idle.node = None /\ Idle.other = None /\ ThreadOK(Idle)
  BY ConstantFacts, IdleOK
<1>5. /\ \A n \in Leaves : Linked(n)
      /\ \A n \in Leaves : \A l \in Layers : In(n, l) <=> n = First /\ l = RootLayer
      /\ \A n \in Leaves : \A x : Below(n, x)
  BY <1>1, <1>2, OpeningViews
<1>6. LockInv
  BY <1>3, <1>4, PcFacts DEF LockInv, Owns
<1>7. DeadInv
  BY <1>3 DEF DeadInv
<1>8. /\ layer[First] = RootLayer
      /\ \A n \in Leaves : n # First => perm[n] = MakeEmpty /\ layer[n] = None
  BY <1>2 DEF Opening
<1>9. AllocInv
  <2>1. \A n \in Leaves : Alloc(n) <=> n = First
    BY <1>3, <1>4, <1>8 DEF Alloc
  <2>2. \A n \in Leaves : n # First => perm[n].size = 0
    BY <1>8, MakeEmptyOK
  <2>3. QED
    BY <1>3, <1>4, <1>5, <1>8, <2>1, <2>2 DEF AllocInv
<1>10. ListInv
  BY <1>3, <1>4, <1>5 DEF ListInv
<1>11. BoundInv
  BY <1>3 DEF BoundInv
<1>12. SortInv
  <2>1. ASSUME NEW n \in Leaves, n # First PROVE Injective(perm[n]) /\ SortedBy(n, perm[n])
    <3>1. perm[n] = MakeEmpty
      BY <1>8, <2>1
    <3>2. Index(perm[n]) = {}
      BY <3>1, MakeEmptyOK DEF Index
    <3>3. QED
      BY <3>1, <3>2, MakeEmptyOK DEF SortedBy
  <2>2. Injective(perm[First])
    <3>1. m \in 0..Width /\ perm[First] = MakeSorted(m)
      <4>1. m \in 1..Width /\ perm[First] = MakeSorted(m)
        BY <1>2 DEF Opening
      <4>2. QED
        BY <4>1, WidthFacts
    <3>2. QED
      BY <3>1, MakeSortedOK
  <2>3. SortedBy(First, perm[First])
    <3>1. SUFFICES ASSUME NEW i \in Index(perm[First]), NEW j \in Index(perm[First]), i < j
                   PROVE  Less(At(First, i), At(First, j))
      BY DEF SortedBy, At
    <3>2. i \in Int /\ j \in Int
      <4>1. perm[First] \in Permuters
        BY <1>1, <1>4, LeafType
      <4>2. QED
        BY <4>1, IndexType
    <3>3. /\ i + 1 \in 1..m /\ At(First, i) = KeySlot(ks[i + 1], 0 - (i + 1))
          /\ j + 1 \in 1..m /\ At(First, j) = KeySlot(ks[j + 1], 0 - (j + 1))
      BY <1>1, <1>2, OpeningViews
    <3>4. i + 1 < j + 1 /\ 0 - (i + 1) \in Int /\ 0 - (j + 1) \in Int
      BY <3>1, <3>2
    <3>5. KeyLess(ks[i + 1], ks[j + 1]) /\ ks[i + 1] \in Keys /\ ks[j + 1] \in Keys
      BY <1>2, <3>3, <3>4 DEF Opening
    <3>6. PICK a \in Keys, v \in Int : a = ks[i + 1] /\ v = 0 - (i + 1)
      BY <3>4, <3>5
    <3>7. PICK e \in Keys, w \in Int : e = ks[j + 1] /\ w = 0 - (j + 1)
      BY <3>4, <3>5
    <3>8. Less(KeySlot(a, v), KeySlot(e, w))
      <4>1. KeyLess(a, e)
        BY <3>5, <3>6, <3>7
      <4>2. KeySlot(a, v).ikey = a[1] /\ (Len(a) = 1 => KeySlot(a, v).kind = "plain")
        BY KeySlotType
      <4>3. KeySlot(e, w).ikey = e[1] /\ (Len(e) = 2 => KeySlot(e, w).kind = "ksuf")
        BY KeySlotType
      <4>4. QED
        BY <4>1, <4>2, <4>3 DEF KeyLess, Less
    <3>9. QED
      BY <3>3, <3>6, <3>7, <3>8
  <2>4. QED
    BY <2>1, <2>2, <2>3 DEF SortInv
<1>13. LeftInv
  BY <1>5 DEF LeftInv
<1>14. DbInv /\ AttachInv /\ LeafInv
  BY <1>1, <1>2, OpeningDb
<1>15. ThreadInv
  BY <1>3, <1>4 DEF ThreadInv
<1>16. QED
  BY <1>1, <1>6, <1>7, <1>9, <1>10, <1>11, <1>12, <1>13, <1>14, <1>15 DEF IInv, StoreInv

-----------------------------------------------------------------------------
(* Every step keeps the invariant.                                         *)

LEMMA SearchInv ==
  ASSUME IInv, NEW p \in Procs, Search(p)
  PROVE  IInv'
<1>1. CASE ReachLeaf(p)
  BY <1>1, ReachLeafStep
<1>2. CASE ReadPermutation(p)
  BY <1>2, ReadPermutationStep
<1>3. CASE RereadPermutation(p)
  BY <1>3, RereadStep
<1>4. CASE Probe(p)
  BY <1>4, ProbeStep
<1>5. CASE ReadValue(p)
  BY <1>5, ReadValueStep
<1>6. CASE ReadMatch(p)
  BY <1>6, ReadMatchStep
<1>7. CASE GetCheck(p)
  BY <1>7, GetCheckStep
<1>8. CASE GetDone(p)
  BY <1>8, GetDoneStep
<1>9. CASE LockedDescend(p)
  BY <1>9, LockedDescendStep
<1>10. CASE Lock(p)
  BY <1>10, LockStepAll
<1>11. CASE Advance(p)
  BY <1>11, AdvanceStep
<1>12. CASE Walk(p)
  BY <1>12, WalkStep
<1>13. QED
  BY <1>1, <1>2, <1>3, <1>4, <1>5, <1>6, <1>7, <1>8, <1>9, <1>10, <1>11, <1>12, Zenon DEF Search

LEMMA PutInv ==
  ASSUME IInv, NEW p \in Procs, Put(p)
  PROVE  IInv'
<1>1. CASE InsertMark(p)
  BY <1>1, InsertMarkStep
<1>2. CASE InsertHere(p)
  BY <1>2, InsertHereStep
<1>3. CASE AssignLv(p)
  BY <1>3, AssignLvStep
<1>4. CASE AssignIkey(p)
  BY <1>4, AssignIkeyStep
<1>5. CASE AssignKeylenx(p)
  BY <1>5, AssignKeylenxStep
<1>6. CASE AssignKsuf(p)
  BY <1>6, AssignKsufStep
<1>7. CASE StoreNew(p)
  BY <1>7, StoreNewStep
<1>8. CASE Update(p)
  BY <1>8, UpdateStep
<1>9. CASE FinishInsert(p)
  BY <1>9, FinishInsertStep
<1>10. CASE Unlock(p)
  BY <1>10, UnlockStep
<1>11. CASE NewLayer(p)
  BY <1>11, NewLayerStep
<1>12. CASE LayerLv(p)
  BY <1>12, LayerLvStep
<1>13. CASE LayerKeylenx(p)
  BY <1>13, LayerKeylenxStep
<1>14. CASE LayerUnlock(p)
  BY <1>14, LayerUnlockStep
<1>15. CASE SplitInto(p)
  BY <1>15, SplitIntoStep
<1>16. CASE SplitTree(p)
  BY <1>16, SplitTreeStep
<1>17. CASE SplitMark(p)
  BY <1>17, SplitMarkStep
<1>18. CASE SplitStrip(p)
  BY <1>18, SplitStripStep
<1>19. CASE SplitRelease(p)
  BY <1>19, SplitReleaseStep
<1>20. QED
  BY <1>1, <1>2, <1>3, <1>4, <1>5, <1>6, <1>7, <1>8, <1>9, <1>10, <1>11, <1>12, <1>13, <1>14, <1>15,
     <1>16, <1>17, <1>18, <1>19, Zenon DEF Put

LEMMA RemoveInv ==
  ASSUME IInv, NEW p \in Procs, Remove(p)
  PROVE  IInv'
<1>1. CASE RemoveMissing(p)
  BY <1>1, RemoveMissingStep
<1>2. CASE RemoveFound(p)
  BY <1>2, RemoveFoundStep
<1>3. CASE RemoveMark(p)
  BY <1>3, RemoveMarkStep
<1>4. CASE FinishRemove(p)
  BY <1>4, FinishRemoveStep
<1>5. CASE DeleteMark(p)
  BY <1>5, DeleteMarkStep
<1>6. CASE DeleteUnlink(p)
  BY <1>6, DeleteUnlinkStep
<1>7. CASE DeleteTree(p)
  BY <1>7, DeleteTreeStep
<1>8. CASE GcLayer(p)
  BY <1>8, GcLayerStep
<1>9. CASE GcLock(p)
  BY <1>9, GcLockStep
<1>10. QED
  BY <1>1, <1>2, <1>3, <1>4, <1>5, <1>6, <1>7, <1>8, <1>9, Zenon DEF Remove

LEMMA NextInv ==
  ASSUME IInv, Next
  PROVE  IInv'
<1>1. PICK p \in Procs : \/ \E w \in scene.todo : Start(p, w[1], w[2])
                         \/ \E k \in gcs : StartGc(p, k)
                         \/ Search(p) \/ Put(p) \/ Remove(p)
  BY Zenon DEF Next
<1>2. CASE \E w \in scene.todo : Start(p, w[1], w[2])
  BY <1>2, StartStep
<1>3. CASE \E k \in gcs : StartGc(p, k)
  BY <1>3, StartGcStep
<1>4. CASE Search(p)
  BY <1>4, SearchInv
<1>5. CASE Put(p)
  BY <1>5, PutInv
<1>6. CASE Remove(p)
  BY <1>6, RemoveInv
<1>7. QED
  BY <1>1, <1>2, <1>3, <1>4, <1>5, <1>6, Zenon

LEMMA StutterViews ==
  ASSUME UNCHANGED vars
  PROVE  /\ slot' = slot /\ perm' = perm /\ modstate' = modstate /\ locked' = locked /\ dirty' = dirty
         /\ deleted' = deleted /\ layer' = layer /\ low' = low /\ next' = next /\ prev' = prev /\ layers' = layers
         /\ gcs' = gcs /\ t' = t /\ scene' = scene /\ ops' = ops /\ db' = db
         /\ \A n : (Linked(n)' <=> Linked(n)) /\ (Alloc(n)' <=> Alloc(n)) /\ (Splitting(n)' <=> Splitting(n))
         /\ \A n, l : In(n, l)' <=> In(n, l)
         /\ \A n : (Gone(n)' <=> Gone(n)) /\ Hi(n)' = Hi(n) /\ Entries(n)' = Entries(n)
         /\ \A n, x : (Covers(n, x)' <=> Covers(n, x)) /\ (Below(n, x)' <=> Below(n, x))
         /\ \A n, i : At(n, i)' = At(n, i)
         /\ \A l, a : Attached(l, a)' <=> Attached(l, a)
         /\ \A l : Dead(l)' <=> Dead(l)
<1>1. /\ slot' = slot /\ perm' = perm /\ modstate' = modstate /\ locked' = locked /\ dirty' = dirty
      /\ deleted' = deleted /\ layer' = layer /\ low' = low /\ next' = next /\ prev' = prev /\ layers' = layers
      /\ gcs' = gcs /\ t' = t /\ scene' = scene /\ ops' = ops /\ db' = db
  BY DEF vars
<1>2. \A n : (Linked(n)' <=> Linked(n)) /\ (Alloc(n)' <=> Alloc(n)) /\ (Splitting(n)' <=> Splitting(n))
  BY <1>1 DEF Linked, Alloc, Splitting
<1>3. \A n, l : In(n, l)' <=> In(n, l)
  BY <1>1, <1>2 DEF In
<1>4. \A n : (Gone(n)' <=> Gone(n)) /\ Hi(n)' = Hi(n)
  BY <1>1, <1>2, <1>3 DEF Gone, Hi
<1>5. \A n, x : (Covers(n, x)' <=> Covers(n, x)) /\ (Below(n, x)' <=> Below(n, x))
  BY <1>1, <1>4 DEF Covers, Below
<1>6. \A n, i : At(n, i)' = At(n, i)
  BY <1>1 DEF At
<1>7. \A n, s : Ent(n, s)' = Ent(n, s)
  BY <1>1 DEF Ent, Turning
<1>8. \A n : Entries(n)' = Entries(n)
  BY <1>1, <1>7 DEF Entries, Index
<1>9. \A l, a : Attached(l, a)' <=> Attached(l, a)
  BY <1>3, <1>8 DEF Attached, IsLayer
<1>10. \A l : Dead(l)' <=> Dead(l)
  BY <1>1, <1>3 DEF Dead
<1>11. QED
  BY <1>1, <1>2, <1>3, <1>4, <1>5, <1>6, <1>8, <1>9, <1>10

LEMMA StutterStore ==
  ASSUME StoreInv, UNCHANGED vars
  PROVE  StoreInv'
<1>1. /\ slot' = slot /\ perm' = perm /\ modstate' = modstate /\ locked' = locked /\ dirty' = dirty
      /\ deleted' = deleted /\ layer' = layer /\ low' = low /\ next' = next /\ prev' = prev /\ layers' = layers
      /\ gcs' = gcs /\ t' = t /\ scene' = scene /\ ops' = ops /\ db' = db
  BY StutterViews
<1>2. TypeOK' /\ LockInv' /\ DeadInv'
  BY <1>1 DEF StoreInv, TypeOK, LeafTypeOK, LockInv, Owns, DeadInv
<1>3. AllocInv'
  BY <1>1 DEF StoreInv, AllocInv, Alloc, Linked, In
<1>4. ListInv'
  BY <1>1 DEF StoreInv, ListInv, Linked, In
<1>5. BoundInv' /\ SortInv'
  BY <1>1 DEF StoreInv, BoundInv, SortInv, Injective, SortedBy, Less, Index
<1>6. LeafInv'
  BY <1>1, StutterViews DEF StoreInv, LeafInv
<1>7. LeftInv'
  <2>1. \A n : Below(n, At(n, 0).ikey)' <=> Below(n, At(n, 0).ikey)
    BY <1>1 DEF Below, At, Hi, Splitting
  <2>2. \A n, l : In(n, l)' <=> In(n, l)
    BY StutterViews
  <2>3. QED
    BY <1>1, <2>1, <2>2 DEF StoreInv, LeftInv
<1>8. DbInv'
  <2>1. \A n, x, k : (PlainSays(n, x, k)' <=> PlainSays(n, x, k)) /\ (SufSays(n, k)' <=> SufSays(n, k))
    BY <1>1, StutterViews DEF PlainSays, SufSays
  <2>2. QED
    BY <1>1, <2>1, StutterViews DEF StoreInv, DbInv
<1>9. AttachInv'
  BY <1>1, StutterViews DEF StoreInv, AttachInv
<1>10. QED
  BY <1>2, <1>3, <1>4, <1>5, <1>6, <1>7, <1>8, <1>9 DEF StoreInv

LEMMA StutterThread ==
  ASSUME UNCHANGED vars, NEW c
  PROVE  ThreadOK(c)' <=> ThreadOK(c)
<1>1. /\ slot' = slot /\ perm' = perm /\ modstate' = modstate /\ locked' = locked /\ dirty' = dirty
      /\ deleted' = deleted /\ layer' = layer /\ low' = low /\ next' = next /\ prev' = prev /\ layers' = layers
      /\ gcs' = gcs /\ t' = t /\ scene' = scene /\ ops' = ops /\ db' = db
  BY StutterViews
<1>2. KeyOK(c)' <=> KeyOK(c)
  BY <1>1 DEF KeyOK
<1>3. \A l : LayerRef(c, l)' <=> LayerRef(c, l)
  BY <1>1, StutterViews DEF LayerRef
<1>4. RootOK(c)' <=> RootOK(c)
  BY <1>3 DEF RootOK
<1>5. SearchOK(c)' <=> SearchOK(c)
  <2>1. \A n : (In(n, c.root)' <=> In(n, c.root)) /\ (Gone(n)' <=> Gone(n))
    BY StutterViews
  <2>2. In(next[c.node], c.root)' <=> In(next[c.node], c.root)
    BY <1>1 DEF In, Linked
  <2>3. Gone(next[c.node])' <=> Gone(next[c.node])
    BY <1>1 DEF Gone, In, Linked
  <2>4. Covers(c.node, Ikey(c))' <=> Covers(c.node, Ikey(c))
    BY <1>1 DEF Covers, Below, Hi, Splitting, Ikey
  <2>5. QED
    BY <1>1, <2>1, <2>2, <2>3, <2>4 DEF SearchOK, Ikey
<1>6. PlaceType(c)' <=> PlaceType(c)
  BY DEF PlaceType, FoundPlace
<1>7. \A j : CmpAt(c, j)' = CmpAt(c, j) /\ MatchAt(c, j)' = MatchAt(c, j) /\ LvAt(c, j)' = LvAt(c, j)
  BY <1>1 DEF CmpAt, MatchAt, LvAt, Compare, KsufMatches, Ikey, HasSuffix
<1>8. ReadOK(c)' <=> ReadOK(c)
  <2>1. Regime(c)' <=> Regime(c)
    BY <1>1 DEF Regime
  <2>2. SortedBy(c.node, c.perm)' <=> SortedBy(c.node, c.perm)
    BY <1>1 DEF SortedBy
  <2>3. \A j : LayerRef(c, LvAt(c, j))' <=> LayerRef(c, LvAt(c, j))
    BY <1>1, <1>7, StutterViews DEF LayerRef
  <2>4. QED
    BY <1>7, <2>1, <2>2, <2>3 DEF ReadOK
<1>9. PlaceOK(c)' <=> PlaceOK(c)
  BY <1>7 DEF PlaceOK
<1>10. HomeOK(c)' <=> HomeOK(c)
  <2>1. In(c.node, layer[c.node])' <=> In(c.node, layer[c.node])
    BY <1>1 DEF In, Linked
  <2>2. Covers(c.node, Ikey(c))' <=> Covers(c.node, Ikey(c))
    BY <1>1 DEF Covers, Below, Hi, Splitting, Ikey
  <2>3. PICK l : l = layer[c.node] /\ l = layer'[c.node]
    BY <1>1
  <2>4. Attached(l, c.key[1])' <=> Attached(l, c.key[1])
    BY StutterViews
  <2>5. Level(c)' <=> Level(c)
    BY <2>3, <2>4 DEF Level
  <2>6. QED
    BY <1>1, <2>1, <2>2, <2>5 DEF HomeOK
<1>11. \A s : Compare(c, s)' = Compare(c, s) /\ KsufMatches(c, s)' = KsufMatches(c, s)
  BY DEF Compare, KsufMatches, Ikey, HasSuffix
<1>12. \A n, i : At(n, i)' = At(n, i)
  BY StutterViews
<1>13. Position(c)' <=> Position(c)
  BY <1>1 DEF Position, At, Compare, Ikey, HasSuffix
<1>14. FoundAt(c)' <=> FoundAt(c)
  BY <1>1 DEF FoundAt, At, Compare, KsufMatches, Ikey, HasSuffix
<1>15. FoundOK(c)' <=> FoundOK(c)
  BY <1>1, <1>13, <1>14 DEF FoundOK
<1>16. NewOK(c)' <=> NewOK(c)
  BY <1>1, <1>13 DEF NewOK, SlotIs, Ikey, HasSuffix
<1>17. TurnOK(c)' <=> TurnOK(c)
  BY <1>1 DEF TurnOK, At
<1>18. MidOK(c)' <=> MidOK(c)
  BY <1>1, <1>13 DEF MidOK, At, SlotIs, Ikey, HasSuffix
<1>19. GcAt(c)' <=> GcAt(c)
  BY <1>1 DEF GcAt, At
<1>20. Dead(At(c.node, c.i).lv)' <=> Dead(At(c.node, c.i).lv)
  BY <1>1 DEF Dead, At, In, Linked
<1>21. RemoveOK(c)' <=> RemoveOK(c)
  BY <1>1, <1>14, <1>19, <1>20 DEF RemoveOK
<1>22. GcOK(c)' <=> GcOK(c)
  BY <1>1, <1>12, <1>19 DEF GcOK
<1>23. DeleteOK(c)' <=> DeleteOK(c)
  BY <1>1 DEF DeleteOK, Linked
<1>24. UnlockOK(c)' <=> UnlockOK(c)
  BY <1>1 DEF UnlockOK
<1>25. LockOK(c)' <=> LockOK(c)
  BY <1>1, <1>10, <1>15, <1>16, <1>17, <1>18, <1>21, <1>22, <1>23, <1>24 DEF LockOK
<1>26. QED
  BY <1>2, <1>4, <1>5, <1>6, <1>8, <1>9, <1>25 DEF ThreadOK

LEMMA StutterInv ==
  ASSUME IInv, UNCHANGED vars
  PROVE  IInv'
<1>1. StoreInv'
  BY StutterStore DEF IInv
<1>2. ThreadInv'
  <2>1. SUFFICES ASSUME NEW p \in Procs PROVE ThreadOK(t[p])'
    BY DEF ThreadInv
  <2>2. PICK c : c = t[p] /\ c = t'[p]
    BY StutterViews
  <2>3. ThreadOK(c)
    BY <2>2 DEF IInv, ThreadInv
  <2>4. ThreadOK(c)'
    BY <2>3, StutterThread
  <2>5. QED
    BY <2>2, <2>4
<1>3. QED
  BY <1>1, <1>2 DEF IInv

(* IInv is an invariant of the search, insert, remove and gc_layer code    *)
(* that LeafRead models: the leaves agree with the table, and whatever a   *)
(* thread has read of a leaf is still usable or its version check will     *)
(* fail.                                                                   *)
(* IInv is an invariant of the search, insert, remove and gc_layer code    *)
(* that LeafRead models: the leaves agree with the table, and whatever a   *)
(* thread has read of a leaf is still usable or its version check will     *)
(* fail.                                                                   *)
THEOREM InvariantHolds == Spec => []IInv
<1>1. Init => IInv
  BY InitInv
<1>2. IInv /\ [Next]_vars => IInv'
  BY NextInv, StutterInv
<1>3. QED
  BY <1>1, <1>2, PTL DEF Spec

(* ReadsLinearizable for every instance: find_unlocked                     *)
(* (src/masstree_get.hh:22-57) answers a value that the key had at some    *)
(* moment of the lookup, whatever the writers do to the leaf between its   *)
(* loads.                                                                  *)
THEOREM Linearizable == Spec => []ReadsLinearizable
<1>1. IInv => ReadsLinearizable
  BY DEF IInv, ThreadInv, ThreadOK, ReadsLinearizable
<1>2. QED
  BY <1>1, InvariantHolds, PTL

(* LockedFindExact for every instance: when find_locked                    *)
(* (src/masstree_get.hh:121-169) has the lock, its cursor says exactly     *)
(* whether the table has the key and which slot holds its value.           *)
THEOREM FindExact == Spec => []LockedFindExact
<1>1. IInv => LockedFindExact
  <2>1. SUFFICES ASSUME IInv, NEW p \in Procs, t[p].pc = "found", t[p].op # "gc"
                 PROVE  /\ (t[p].state = 1) <=> (db[t[p].key] # 0)
                        /\ t[p].state = 1 => slot[t[p].node][t[p].p].lv = db[t[p].key]
    BY DEF LockedFindExact
  <2>2. QED
    BY <2>1, FoundSays
<1>2. QED
  BY <1>1, InvariantHolds, PTL
=============================================================================
