------------------------------ MODULE LeafList ------------------------------
(***************************************************************************)
(* What the leaf list of a tree layer promises (src/btree_leaflink.hh):    *)
(* one list of leaves, in which a split puts the new leaf right behind the *)
(* split one and a removal takes one leaf out, never the first; each takes *)
(* effect in one step.                                                     *)
(***************************************************************************)
CONSTANTS Leaves, First, NoLeaf

VARIABLE after   \* [leaves in the list -> the next one, NoLeaf for the last]

LinkSplit(n, nr) ==
  /\ nr \notin DOMAIN after
  /\ after' = [m \in DOMAIN after \cup {nr} |->
                 IF m = n THEN nr ELSE IF m = nr THEN after[n] ELSE after[m]]

Unlink(n) ==
  after' = [m \in DOMAIN after \ {n} |-> IF after[m] = n THEN after[n] ELSE after[m]]

Init == after = [n \in {First} |-> NoLeaf]

Next ==
  \/ \E n \in DOMAIN after, nr \in Leaves : LinkSplit(n, nr)
  \/ \E n \in DOMAIN after \ {First} : Unlink(n)

Spec == Init /\ [][Next]_after
=============================================================================
