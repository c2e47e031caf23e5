--------------------------- MODULE LhmSequential ----------------------------
(***************************************************************************)
(* One thread calling the namespace, compared with FsTree: what lookup     *)
(* answers between two calls is a tree, and every call changes it exactly  *)
(* as the contract says.  "view" is sampled whenever the thread is between *)
(* two calls; nobody can look in the middle of one.                        *)
(***************************************************************************)
EXTENDS LhmNamespace

CONSTANT MaxDepth   \* longest path that can exist: MaxDirs + 1

VARIABLE view

AllPaths == BoundedSeq(Names \ TooLong, MaxDepth) \ {<<>>}

(* The paths over the names of each scene.                                 *)
PathsOf == [x \in Scenes |-> BoundedSeq(x.names \ TooLong, MaxDepth) \ {<<>>}]

(* locate_directory_root on a quiescent store: the directory the hashes    *)
(* lead to, or -1.                                                         *)
LocateDirectoryRoot ==
  LET down(d, h) == IF d = -1 \/ edge[d][h] = NoNode THEN -1 ELSE edge[d][h].dir
      at[path \in AllPaths \cup {<<>>}] ==
        IF path = <<>> THEN Root ELSE down(at[Front(path)], Hash[Last(path)])
  IN at

(* lookup_entry_from_parsed on a quiescent store.                          *)
LookupEntry(path) ==
  LET d == LocateDirectoryRoot[Front(path)]
  IN IF d = -1 THEN NotFound ELSE CHOOSE r \in Child(d, Last(path)) : TRUE

View ==
  LET found == {<<q, LookupEntry(q)>> : q \in PathsOf[scene]}
      there == {x \in found : x[2].kind # "none"}
  IN [q \in {x[1] : x \in there} |->
        LET r == LookupEntry(q) IN [kind |-> r.kind, ref |-> r.ref]]

Quiet == \A p \in Procs : th[p].pc = "idle"

SeqInit == Init /\ view = View

SeqNext == Next /\ view' = IF Quiet' THEN View' ELSE view

SeqSpec == SeqInit /\ [][SeqNext]_<<vars, view>>

Tree == INSTANCE FsTree WITH fs <- view, Paths <- AllPaths

(***************************************************************************)
(* Properties.                                                             *)
(***************************************************************************)

(* mkdir, creat_file, remove and rename_path together implement the tree:  *)
(* between calls, what lookup_entry answers changes only by one whole      *)
(* operation of the contract, and a call that fails half way leaves no     *)
(* trace.                                                                  *)
ImplementsTree == Tree!Spec

(* What the contract says of a call made in the present view.              *)
Expected(c) ==
  CASE c.op = "mkdir" -> Tree!CanCreate(c.src) /\ Fits(Last(c.src))
    [] c.op = "creat" -> Tree!CanCreate(c.src) /\ Fits(Last(c.src))
    [] c.op = "remove" -> Tree!CanRemove(c.src)
    [] c.op = "rename" -> \/ c.src # <<>> /\ c.src = c.dst
                          \/ c.src # <<>> /\ Tree!CanRename(c.src, c.dst)
                               /\ Fits(Last(c.dst))

ExpectedView(c) ==
  LET created(kind) ==
        [q \in DOMAIN view \cup {c.src} |->
           IF q = c.src THEN [kind |-> kind, ref |-> c.ref] ELSE view[q]]
  IN CASE c.op = "mkdir" -> created("dir")
       [] c.op = "creat" -> created("file")
       [] c.op = "remove" -> [q \in DOMAIN view \ {c.src} |-> view[q]]
       [] c.op = "rename" -> IF c.src = c.dst THEN view
                             ELSE Tree!AfterRename(c.src, c.dst)

Completes(p) == th[p].pc # "idle" /\ th'[p].pc = "idle"

(* Another object of the same directory has the hash of the path's last    *)
(* component.                                                              *)
Collides(path) ==
  path # <<>> /\ \E q \in DOMAIN view : /\ q # path /\ Front(q) = Front(path)
                                       /\ Hash[Last(q)] = Hash[Last(path)]

(* The Boolean a call returns is right: where no names collide, it is true *)
(* exactly when the contract allows the call, and then the call did what   *)
(* it was asked to, with the inode_ref it was given.                       *)
ResultExact ==
  [][\A p \in Procs :
       LET c == th[p].call IN
       Completes(p) /\ ~Collides(c.src) /\ ~Collides(c.dst) =>
       /\ th'[p].ok <=> Expected(c)
       /\ view' = IF th'[p].ok THEN ExpectedView(c) ELSE view]_<<vars, view>>

(* Between calls a directory hangs under one parent only: rename_path has  *)
(* taken the old edge away whenever it has attached the new one, as        *)
(* codex.md section 9.5 says.                                              *)
SingleParent ==
  Quiet => \A d \in Dirs :
             Cardinality({s \in Dirs \X Hashes :
                            edge[s[1]][s[2]] # NoNode /\ edge[s[1]][s[2]].dir = d}) <= 1

=============================================================================
