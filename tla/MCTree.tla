------------------------------- MODULE MCTree -------------------------------
(***************************************************************************)
(* Trees of one layer with leaves of two keys and internodes of two        *)
(* separators, and the operations that run on them.                        *)
(***************************************************************************)
EXTENDS TreeGc, TLC

(* Threads are interchangeable.                                            *)
Symmetry == Permutations(Procs)

Root(n) == [n EXCEPT !.root = TRUE]
Meta(n) == [n EXCEPT !.meta = TRUE]
Scene(tree, max, todo) == [tree |-> tree, slot |-> 1, max |-> max, todo |-> todo]

(* Every node is full: one more key splits a leaf and the root.            *)
Grow ==
  Scene(1 :> Root(Internode(<<4, 7>>, <<2, 3, 4>>, None, 1))
        @@ 2 :> Leaf({1, 3}, 0, None, 3, 1) @@ 3 :> Leaf({4, 6}, 4, 2, 4, 1)
        @@ 4 :> Leaf({7, 8}, 7, 3, None, 1),
        3, {<<"put", 2>>, <<"put", 5>>, <<"put", 9>>, <<"get", 6>>})

(* Every leaf but the first goes with its key, and internodes follow.      *)
Shrink ==
  Scene(1 :> Root(Internode(<<4>>, <<2, 3>>, None, 2))
        @@ 2 :> Internode(<<2>>, <<4, 5>>, 1, 1) @@ 3 :> Internode(<<6>>, <<6, 7>>, 1, 1)
        @@ 4 :> Leaf({1}, 0, None, 5, 2) @@ 5 :> Leaf({2}, 2, 4, 6, 2)
        @@ 6 :> Leaf({4}, 4, 5, 7, 3) @@ 7 :> Leaf({6}, 6, 6, None, 3),
        4, {<<"remove", 2>>, <<"remove", 4>>, <<"remove", 6>>, <<"put", 4>>, <<"get", 4>>})

(* A leaf right under a root two levels up, after an internode went.       *)
Uneven ==
  Scene(1 :> Root(Internode(<<4>>, <<2, 3>>, None, 2))
        @@ 2 :> Leaf({1, 2}, 0, None, 4, 1) @@ 3 :> Internode(<<6>>, <<4, 5>>, 1, 1)
        @@ 4 :> Leaf({4, 5}, 4, 2, 5, 3) @@ 5 :> Leaf({6}, 6, 4, None, 3),
        3, {<<"put", 3>>, <<"put", 2>>, <<"remove", 6>>, <<"put", 7>>, <<"get", 2>>})

(* One leaf left under a root that has lost its separators.                *)
Single(keys) == 1 :> Root(Internode(<<>>, <<2>>, None, 1))
                @@ 2 :> Leaf(keys, 0, None, None, 1)
Collect == Scene(Single({1}), 4, {<<"gc", 0>>, <<"remove", 1>>, <<"put", 1>>, <<"get", 1>>})
CollectSplit == Scene(Single({1, 2}), 3, {<<"gc", 0>>, <<"put", 3>>, <<"get", 2>>})

Pair(left) == 1 :> Root(Internode(<<4>>, <<2, 3>>, None, 1))
              @@ 2 :> Leaf(left, 0, None, 3, 1) @@ 3 :> Leaf({4}, 4, 2, None, 1)
CollectPair == Scene(Pair({1}), 4, {<<"gc", 0>>, <<"remove", 4>>, <<"put", 2>>, <<"remove", 1>>})

(* The first leaf is empty, and two removals are about to take the others  *)
(* from the internode beside it.                                           *)
CollectUneven ==
  Scene(1 :> Root(Internode(<<4>>, <<2, 3>>, None, 2))
        @@ 2 :> Leaf({}, 0, None, 4, 1) @@ 3 :> Internode(<<6>>, <<4, 5>>, 1, 1)
        @@ 4 :> Leaf({4}, 4, 2, 5, 3) @@ 5 :> Leaf({6}, 6, 4, None, 3),
        3, {<<"gc", 0>>, <<"remove", 4>>, <<"remove", 6>>})

(* The same in a directory, where the root keeps the metadata.             *)
MetaLeaf == Scene([Single({1}) EXCEPT ![1] = Meta(@)], 3, {<<"gc", 0>>, <<"get", 1>>})
MetaTree ==
  Scene(1 :> Meta(Root(Internode(<<>>, <<2>>, None, 2)))
        @@ 2 :> Internode(<<3>>, <<3, 4>>, 1, 1)
        @@ 3 :> Leaf({1}, 0, None, 4, 2) @@ 4 :> Leaf({3}, 3, 3, None, 2),
        3, {<<"gc", 0>>, <<"get", 1>>, <<"get", 3>>})
MetaPair == Scene([Pair({1}) EXCEPT ![1] = Meta(@)], 3, {<<"gc", 0>>, <<"remove", 4>>, <<"get", 4>>})

(* A collection that meets an insert that splits the first leaf.           *)
SplitMeetsGc == Scene(Pair({1, 2}), 2, {<<"gc", 0>>, <<"put", 3>>})

MCScenes == {Grow, Shrink, Uneven, Collect, CollectSplit, CollectPair, CollectUneven,
             MetaLeaf, MetaTree, MetaPair, SplitMeetsGc}
=============================================================================
