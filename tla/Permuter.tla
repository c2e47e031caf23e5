------------------------------ MODULE Permuter ------------------------------
(***************************************************************************)
(* The permutation of a leaf's slots (kpermuter<W> in src/kpermuter.hh).   *)
(* A permuter lists all Width slots: the first `size` are the keys in use, *)
(* in key order, the rest are free, and a new key takes the slot at the    *)
(* back.  The class packs this into one integer, so that a writer          *)
(* publishes a new order with one store; how it is packed is left out.     *)
(***************************************************************************)
EXTENDS Integers

CONSTANT Width

ASSUME WidthAssumption == Width \in Nat \ {0}

Slots == 0..(Width - 1)

Permuters == [size : 0..Width, slot : [Slots -> Slots]]

(* Free slots are given out in the order 0, 1, ..., Width - 1.             *)
MakeEmpty == [size |-> 0, slot |-> [i \in Slots |-> Width - 1 - i]]

MakeSorted(n) ==
  [size |-> n, slot |-> [i \in Slots |-> IF i < n THEN i ELSE Width - 1 - (i - n)]]

Back(p) == p.slot[Width - 1]

(* The slots in use.                                                       *)
Live(p) == {p.slot[i] : i \in 0..(p.size - 1)}

SetSize(p, n) == [p EXCEPT !.size = n]

(* insert_from_back: the slot at the back becomes the i-th key.            *)
InsertFromBack(p, i) ==
  [size |-> p.size + 1,
   slot |-> [j \in Slots |-> IF j < i THEN p.slot[j]
                             ELSE IF j = i THEN Back(p) ELSE p.slot[j - 1]]]

(* insert_selected: the free slot at index si becomes the di-th key.       *)
InsertSelected(p, di, si) ==
  [size |-> p.size + 1,
   slot |-> [j \in Slots |-> IF j < di \/ j > si THEN p.slot[j]
                             ELSE IF j = di THEN p.slot[si] ELSE p.slot[j - 1]]]

(* remove: the freed slot becomes the first free one.                      *)
RemoveAt(p, i) ==
  [size |-> p.size - 1,
   slot |-> [j \in Slots |-> IF j < i \/ j >= p.size THEN p.slot[j]
                             ELSE IF j = p.size - 1 THEN p.slot[i] ELSE p.slot[j + 1]]]

(* remove_to_back: the freed slot is the next one to be given out.         *)
RemoveToBack(p, i) ==
  [size |-> p.size - 1,
   slot |-> [j \in Slots |-> IF j < i THEN p.slot[j]
                             ELSE IF j = Width - 1 THEN p.slot[i] ELSE p.slot[j + 1]]]

Exchange(p, i, j) ==
  [p EXCEPT !.slot = [@ EXCEPT ![i] = p.slot[j], ![j] = p.slot[i]]]

ExchangeValues(p, x, y) ==
  [p EXCEPT !.slot = [i \in Slots |-> IF @[i] = x THEN y ELSE IF @[i] = y THEN x ELSE @[i]]]

(* rotate works on all slots from index i on, free ones included.          *)
Rotate(p, i, j) ==
  [p EXCEPT !.slot = [k \in Slots |-> IF k < i THEN @[k]
                                      ELSE @[i + ((k - i + j - i) % (Width - i))]]]
=============================================================================
