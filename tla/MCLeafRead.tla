----------------------------- MODULE MCLeafRead -----------------------------
(***************************************************************************)
(* Lookups against writers on leaves of three slots.                       *)
(***************************************************************************)
EXTENDS LeafRead, TLC

(* Threads are interchangeable.                                            *)
Symmetry == Permutations(Procs)

MCKeys == {<<1>>, <<2, 1>>, <<2, 2>>, <<3>>, <<4>>, <<5>>, <<6>>}

(* Layers, slots that change hands and a split, on a full leaf.            *)
Mixed == [present |-> <<<<1>>, <<2, 1>>, <<3>>>>, max |-> 3,
          todo |-> {<<"get", <<2, 1>>>>, <<"get", <<3>>>>, <<"put", <<2, 1>>>>,
                    <<"put", <<2, 2>>>>, <<"remove", <<2, 1>>>>, <<"put", <<4>>>>,
                    <<"remove", <<4>>>>}]

(* A layer that is made, emptied and collected.                            *)
Layered == [present |-> <<<<2, 1>>>>, max |-> 4,
            todo |-> {<<"get", <<2, 1>>>>, <<"put", <<2, 1>>>>, <<"put", <<2, 2>>>>,
                      <<"remove", <<2, 1>>>>, <<"remove", <<2, 2>>>>}]

(* A split in the middle, then slot 0 of the right leaf, then its removal. *)
Split == [present |-> <<<<1>>, <<3>>, <<5>>>>, max |-> 4,
          todo |-> {<<"get", <<3>>>>, <<"get", <<5>>>>, <<"put", <<4>>>>, <<"remove", <<3>>>>,
                    <<"put", <<6>>>>, <<"remove", <<5>>>>}]

MCScenes == {Mixed, Layered, Split}
=============================================================================
