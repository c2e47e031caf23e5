--------------------------- MODULE LhmConcurrent ----------------------------
(***************************************************************************)
(* Several threads calling the namespace at once: what a concurrent reader *)
(* can rely on while calls are half way.                                   *)
(***************************************************************************)
EXTENDS LhmNamespace

(* The directories that can be reached from the table root along edges.    *)
ChildDirs(d) == {edge[d][h].dir : h \in {x \in Hashes : edge[d][x] # NoNode}}

Reachable ==
  LET below[k \in Nat] ==
        IF k = 0 THEN {Root}
        ELSE below[k - 1] \cup UNION {ChildDirs(d) : d \in below[k - 1]}
  IN below[MaxDirs]

(* The slots at which looking the directory d up by name succeeds.         *)
ResolvesAt(d) ==
  {s \in Reachable \X Names :
     \E r \in Child(s[1], s[2]) : r.kind = "dir" /\ r.node.dir = d}

Linked(d) == {s \in Dirs \X Hashes : edge[s[1]][s[2]] # NoNode /\ edge[s[1]][s[2]].dir = d}

(* The directories whose rename is past the attach and not yet over.       *)
InRename == {th[p].node.dir : p \in {q \in Procs : th[q].pc \in
               {"rename_meta", "rename_meta_end", "rename_detach"}}}

(* Those of them that move to another parent under the same name.         *)
KeepingName ==
  {d \in InRename : \E p \in Procs : /\ th[p].pc # "idle" /\ th[p].call.op = "rename"
                                    /\ th[p].node # NoNode /\ th[p].node.dir = d
                                    /\ Last(th[p].call.src) = Last(th[p].call.dst)}

(***************************************************************************)
(* Properties.                                                             *)
(***************************************************************************)

(* No directory that mkdir made is ever cut off: rename_directory_o1 links *)
(* the new edge before it removes the old one, so that at every moment the *)
(* directory and all that was created below it can be reached from the     *)
(* root.  (Calls that remove directories are left out of the runs that     *)
(* check this.)                                                            *)
AlwaysReachable == \A d \in 1..(nextDir - 1) : d \in Reachable

(* A reader finds a directory in one place only.  Between attach and      *)
(* detach both edges exist, but directory_meta fits only one of them; only *)
(* a move that keeps the last component shows the directory twice.  (Once  *)
(* the directory's root has split, remove_layer_edge no longer recognises  *)
(* the old edge: see SingleParent.)                                        *)
AtMostOneName ==
  \A d \in {x \in 1..(nextDir - 1) : gen[x] = 0} :
    Cardinality(ResolvesAt(d)) <= IF d \in KeepingName THEN 2 ELSE 1

(* Every layer pointer leads to a directory_meta (MetaFound), and while    *)
(* nobody is renaming the directory, that directory_meta has the name the  *)
(* edge stands for, the one the last rename wrote.  (A split that copies   *)
(* the directory_meta while a rename is rewriting it copies a torn name:   *)
(* the name is promised of directories whose root has not split.)          *)
NameFollowsEdge ==
  /\ MetaFound
  /\ \A d \in Reachable \ ({Root} \cup InRename) : gen[d] = 0 =>
       \A s \in Linked(d) :
         meta[d][0].name # NoName /\ Hash[meta[d][0].name] = s[2]
=============================================================================
