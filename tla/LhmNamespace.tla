---------------------------- MODULE LhmNamespace ----------------------------
(***************************************************************************)
(* The LHM file-system namespace (src/lhm_namespace.hh) on top of the      *)
(* edge primitives added to Masstree's cursor (create_layer_with_meta,     *)
(* attach_existing_layer, remove_layer_edge, find_locked_edge).            *)
(*                                                                         *)
(* A directory is one Masstree layer.  Its children are slots indexed by   *)
(* the hash of their name: a layer slot ("edge") points at the root node   *)
(* of the child directory, a value slot ("file") holds a namespace_entry.  *)
(* The name and inode of a directory live in the directory_meta behind its *)
(* root node.  When the leaf root of a directory overflows, make_split     *)
(* puts a new internode root above it; edges keep pointing at the old leaf *)
(* and readers climb parent pointers (canonicalize_directory_root).        *)
(*                                                                         *)
(* Every call is a sequence of steps of one process: an unlocked read of a *)
(* slot, or one critical section under a leaf's lock, is one step.         *)
(* conflict_buckets_ has no lock at all (codex.md, open point of item 9):  *)
(* one access to it is one step here, and what is claimed of chains is     *)
(* claimed of threads that use it one at a time (BucketsSerialized).       *)
(***************************************************************************)
EXTENDS SequencesExt

CONSTANTS
  Procs,       \* threads calling the namespace
  Names,       \* path components
  Hashes,      \* values of hash_component on Names
  Hash,        \* [Names -> Hashes]; two names may collide
  TooLong,     \* names that exceed kMaxEntryNameBytes
  Refs,        \* inode_ref values the callers pass
  MaxDirs, MaxBuckets,  \* bounds of the scenes' dirs and buckets
  MaxGen,      \* bound: how often the root of a directory is replaced
  Scenes,      \* the instances a run goes through: leaf_width of
               \* namespace_table_params (width), what each thread may call
               \* (calls), the names in those calls (names), and bounds on
               \* directories and conflict buckets ever created (dirs, buckets)
  NoName, NoNode, NoEntry, NoMeta

Root == 0
Dirs == 0..MaxDirs
Buckets == 1..MaxBuckets

(* A node that is or was the root of a directory: gen 0 is the leaf root   *)
(* made by mkdir, gen g the internode root made by the g-th split of a     *)
(* root.  No root is ever replaced by one below it: remove_leaf collapses  *)
(* roots only in layers with a key prefix, and gives edges none.           *)
Gens == 0..MaxGen
Node == [dir : Dirs, gen : Gens]

(* namespace_entry: a file, or the marker of a conflict chain whose ref is *)
(* the bucket number.                                                      *)
FileEntries == [kind : {"file"}, ref : Nat, name : Names]
Entry == FileEntries \cup [kind : {"chain"}, ref : Buckets, name : {NoName}]

FileEntry(ref, name) == [kind |-> "file", ref |-> ref, name |-> name]
ChainMarker(b) == [kind |-> "chain", ref |-> b, name |-> NoName]

Meta == [name : Names \cup {NoName}, ref : Nat]

Call == [op : {"mkdir", "creat", "remove", "rename"},
         src : Seq(Names), dst : Seq(Names), ref : Refs]

NoCall == [op |-> "none", src |-> <<>>, dst |-> <<>>, ref |-> 0]

ASSUME NamespaceAssumption ==
  /\ Hash \in [Names -> Hashes]
  /\ TooLong \subseteq Names
  /\ Refs \subseteq Nat
  /\ MaxDirs \in Nat
  /\ MaxBuckets \in Nat
  /\ MaxGen \in Nat \ {0}
  /\ \A x \in Scenes :
       /\ x.width \in Nat \ {0} /\ x.dirs \in 0..MaxDirs /\ x.buckets \in 0..MaxBuckets
       /\ x.names \subseteq Names
       /\ \A p \in Procs : \A c \in x.calls[p] :
            c \in Call /\ ToSet(c.src) \cup ToSet(c.dst) \subseteq x.names
  /\ NoName \notin Names
  /\ NoNode \notin Node
  /\ NoEntry \notin Entry
  /\ NoMeta \notin Meta

VARIABLES
  edge,        \* [Dirs -> [Hashes -> Node or NoNode]]: raw layer pointers
  file,        \* [Dirs -> [Hashes -> Entry or NoEntry]]: 8-byte value slots
  gen,         \* [Dirs -> Gens]: generation of the directory's present root
  meta,        \* [Dirs -> [Gens -> Meta]]: directory_meta behind each root
  nextDir,     \* next directory to be allocated
  bucket,      \* conflict_buckets_: [Buckets -> Seq(FileEntries)], <<>> if absent
  nextBucket,  \* next_conflict_bucket_id_
  th,          \* [Procs -> Thread]: the call each thread is in
  scene        \* the member of Scenes

store == <<edge, file, gen, meta, nextDir, bucket, nextBucket>>
vars == <<edge, file, gen, meta, nextDir, bucket, nextBucket, th, scene>>

(***************************************************************************)
(* Paths.  "/" is the empty sequence; a path is parsed into its components *)
(* and their hashes (PathKey::parse_absolute_path).                        *)
(***************************************************************************)
HashesOf(path) == [i \in 1..Len(path) |-> Hash[path[i]]]
Fits(name) == name \notin TooLong

(***************************************************************************)
(* Slots.                                                                  *)
(***************************************************************************)

(* canonicalize_directory_root: climb from any root the directory had.     *)
Canonical(n) == [dir |-> n.dir, gen |-> gen[n.dir]]

(* The slots an edge search for hash h in directory d may stop at: the     *)
(* comparator calls a value and a layer with the same ikey equal, so the   *)
(* binary search returns either one if both exist.                         *)
Hits(d, h) ==
  (IF edge[d][h] # NoNode THEN {"edge"} ELSE {})
  \cup (IF file[d][h] # NoEntry THEN {"file"} ELSE {})

SlotCount(d) ==
  Cardinality({h \in Hashes : edge[d][h] # NoNode})
  + Cardinality({h \in Hashes : file[d][h] # NoEntry})

(* Inserting into directory d: a full leaf root splits.  An internode root *)
(* splits when a full leaf below it does and every internode on the way up *)
(* is full; how full they are is left open.                                *)
GensAfterInsert(d) ==
  CASE SlotCount(d) < scene.width \/ gen[d] = MaxGen -> {gen[d]}
    [] SlotCount(d) >= scene.width /\ gen[d] = 0 -> {1}
    [] OTHER -> {gen[d], gen[d] + 1}

(* make_split copies the directory_meta of the old root behind the new one.*)
(* Mutant: it does not.                                                    *)
MutMetaAfterInsert(d, g, mm) == mm
MetaAfterInsert(d, g, mm) ==
  IF g = gen[d] THEN mm ELSE [mm EXCEPT ![d][g] = mm[d][gen[d]]]

InsertInto(d, mm) ==
  \E g \in GensAfterInsert(d) :
    gen' = [gen EXCEPT ![d] = g] /\ meta' = MetaAfterInsert(d, g, mm)

(* lookup_child_from_parent_root, given the slot the search stopped at.    *)
NotFound == [kind |-> "none", ref |-> 0, node |-> NoNode]

ChildAt(d, name, hit) ==
  LET h == Hash[name]
      n == Canonical(edge[d][h])
      dm == meta[n.dir][n.gen]
      e == file[d][h]
      named == {x \in ToSet(bucket[e.ref]) : x.name = name}
  IN CASE hit = "edge" ->
            IF dm # NoMeta /\ dm.name = name
            THEN [kind |-> "dir", ref |-> dm.ref, node |-> n]
            ELSE NotFound
       [] hit = "file" /\ e.kind = "file" ->
            IF e.name = name
            THEN [kind |-> "file", ref |-> e.ref, node |-> NoNode]
            ELSE NotFound
       [] hit = "file" /\ e.kind = "chain" ->
            IF named # {}
            THEN [kind |-> "file", ref |-> (CHOOSE x \in named : TRUE).ref,
                  node |-> NoNode]
            ELSE NotFound
       [] OTHER -> NotFound

(* Every answer an unlocked lookup of name in directory d may give.        *)
Child(d, name) ==
  IF Hits(d, Hash[name]) = {} THEN {NotFound}
  ELSE {ChildAt(d, name, hit) : hit \in Hits(d, Hash[name])}

(***************************************************************************)
(* Threads.  pc names the next step; a walk (locate_directory_root) goes   *)
(* down from the table root one hash at a time and then continues at       *)
(* "next".                                                                 *)
(***************************************************************************)
PCs == {"idle", "enter", "walk", "mkdir_probe", "mkdir_make", "creat_probe",
        "creat_insert", "creat_chain", "creat_append", "creat_mark", "remove",
        "rename_source", "rename_old", "rename_edge", "rename_name", "rename_target", "rename_attach", "rename_meta",
        "rename_meta_end", "rename_detach", "file_target", "file_parent",
        "file_scan", "file_dest"}

Thread == [pc : PCs, call : Call \cup {NoCall}, next : PCs, cur : Dirs,
           rest : Seq(Hashes), old : Dirs, new : Dirs, node : Node \cup {NoNode},
           seen : Entry \cup {NoEntry}, plan : Seq(FileEntries), i : Nat,
           ok : BOOLEAN]

Idle == [pc |-> "idle", call |-> NoCall, next |-> "idle", cur |-> Root, rest |-> <<>>,
         old |-> Root, new |-> Root, node |-> NoNode, seen |-> NoEntry,
         plan |-> <<>>, i |-> 0, ok |-> FALSE]

(* The thread record t on its way to the directory at the end of hashes    *)
(* rest below directory d.                                                 *)
Walking(t, d, rest, next) ==
  [t EXCEPT !.pc = IF rest = <<>> THEN next ELSE "walk",
            !.next = next, !.cur = d, !.rest = rest]

WalkTo(t, path, next) == Walking(t, Root, HashesOf(path), next)

Goto(p, t) == th' = [th EXCEPT ![p] = t]

(* The call ends; only its result stays readable.                          *)
Return(p, result) == Goto(p, [Idle EXCEPT !.ok = result])

At(p, pc) == th[p].pc = pc

(* Mutant: a directory may be moved below itself.                          *)
MutRenameRejected(c) == c.src = <<>> \/ c.dst = <<>>

(* rename_path: rejected before anything is looked up.                     *)
RenameRejected(c) ==
  \/ c.src = <<>> \/ c.dst = <<>>
  \/ c.src # c.dst /\ IsPrefix(c.src, c.dst)

Invoke(p, c) ==
  /\ At(p, "idle")
  /\ Goto(p, [Idle EXCEPT !.pc = "enter", !.call = c])
  /\ UNCHANGED store

(* The checks every call makes on its arguments before it walks.           *)
Enter(p) ==
  LET t == th[p]
      c == t.call
      single == <<FileEntry(c.ref, IF c.src = <<>> THEN NoName ELSE Last(c.src))>>
      creatable == c.src # <<>> /\ Fits(Last(c.src))
  IN
  /\ At(p, "enter")
  /\ UNCHANGED store
  /\ \/ /\ c.op = "mkdir"
        /\ IF creatable THEN Goto(p, WalkTo(t, Front(c.src), "mkdir_probe"))
           ELSE Return(p, FALSE)
     \/ /\ c.op = "creat"
        /\ IF creatable
           THEN Goto(p, WalkTo([t EXCEPT !.plan = single, !.i = 1],
                               Front(c.src), "creat_probe"))
           ELSE Return(p, FALSE)
     \/ /\ c.op = "remove"
        /\ IF c.src # <<>>
           THEN Goto(p, WalkTo([t EXCEPT !.plan = single, !.i = 1],
                               Front(c.src), "remove"))
           ELSE Return(p, FALSE)
     \/ /\ c.op = "rename"
        /\ CASE RenameRejected(c) -> Return(p, FALSE)
             [] ~RenameRejected(c) /\ c.src = c.dst -> Return(p, TRUE)
             [] OTHER -> Goto(p, WalkTo(t, Front(c.src), "rename_source"))

(* The lookup of a rename's destination found nothing.  rename_path looks  *)
(* the new parent up by name before it scans, then repeats the lookup for  *)
(* every record of the scan before it creates the first one.               *)
NoTarget(t) ==
  CASE t.next = "file_target" /\ Front(t.call.dst) = <<>> ->
         WalkTo(t, Front(t.call.src), "file_scan")
    [] t.next = "file_target" /\ Front(t.call.dst) # <<>> ->
         WalkTo(t, Front(Front(t.call.dst)), "file_parent")
    [] t.next = "file_dest" /\ t.i < Len(t.plan) ->
         WalkTo([t EXCEPT !.i = t.i + 1], Front(t.call.dst), "file_dest")
    [] t.next = "file_dest" /\ t.i = Len(t.plan) /\ Fits(Last(t.call.dst)) ->
         WalkTo([t EXCEPT !.i = 1], Front(t.call.dst), "creat_probe")
    [] OTHER -> Idle

(* locate_directory_root: the names of the directories on the way are not  *)
(* compared, only the hashes of their edges.                               *)
Walk(p) ==
  LET t == th[p]
      h == Head(t.rest)
  IN
  /\ At(p, "walk")
  /\ UNCHANGED store
  /\ \/ /\ "edge" \in Hits(t.cur, h)
        /\ Goto(p, Walking(t, edge[t.cur][h].dir, Tail(t.rest), t.next))
     \/ /\ Hits(t.cur, h) # {"edge"}
        /\ Goto(p, NoTarget(t))

(***************************************************************************)
(* mkdir: create_directory_from_parsed and create_layer_with_meta.         *)
(***************************************************************************)
MkdirProbe(p) ==
  LET t == th[p] IN
  /\ At(p, "mkdir_probe")
  /\ UNCHANGED store
  /\ IF Hits(t.cur, Hash[Last(t.call.src)]) # {} THEN Return(p, FALSE)
     ELSE Goto(p, [t EXCEPT !.pc = "mkdir_make"])

MkdirMake(p) ==
  LET t == th[p]
      name == Last(t.call.src)
      made == [meta EXCEPT ![nextDir][0] = [name |-> name, ref |-> t.call.ref]]
  IN
  /\ At(p, "mkdir_make")
  /\ UNCHANGED <<file, bucket, nextBucket>>
  /\ \/ /\ Hits(t.cur, Hash[name]) # {}
        /\ Return(p, FALSE)
        /\ UNCHANGED <<edge, gen, meta, nextDir>>
     \/ /\ Hits(t.cur, Hash[name]) = {}
        /\ nextDir \in Dirs
        /\ edge' = [edge EXCEPT ![t.cur][Hash[name]] = [dir |-> nextDir, gen |-> 0]]
        /\ InsertInto(t.cur, made)
        /\ nextDir' = nextDir + 1
        /\ Return(p, TRUE)

(***************************************************************************)
(* creat: create_entry_from_parsed and insert_into_conflict_chain.  A file *)
(* rename runs the same steps once for every item of its plan.             *)
(***************************************************************************)
CreatTarget(t) == IF t.call.op = "rename" THEN t.call.dst ELSE t.call.src

CreatProbe(p) ==
  LET t == th[p]
      h == Hash[Last(CreatTarget(t))]
  IN
  /\ At(p, "creat_probe")
  /\ UNCHANGED store
  /\ \/ "edge" \in Hits(t.cur, h) /\ Return(p, FALSE)
     \/ /\ "file" \in Hits(t.cur, h)
        /\ Goto(p, [t EXCEPT !.pc = "creat_chain", !.seen = file[t.cur][h]])
     \/ /\ Hits(t.cur, h) = {}
        /\ Goto(p, [t EXCEPT !.pc = "creat_insert"])

(* Item t.i of the plan was created: the next one, then the removals.      *)
Created(p) ==
  LET t == th[p] IN
  CASE t.i < Len(t.plan) ->
         Goto(p, WalkTo([t EXCEPT !.i = t.i + 1, !.seen = NoEntry],
                        Front(CreatTarget(t)), "creat_probe"))
    [] t.i = Len(t.plan) /\ t.call.op = "rename" ->
         Goto(p, WalkTo([t EXCEPT !.i = 1, !.seen = NoEntry],
                        Front(t.call.src), "remove"))
    [] OTHER -> Return(p, TRUE)

CreatInsert(p) ==
  LET t == th[p]
      name == Last(CreatTarget(t))
      h == Hash[name]
  IN
  /\ At(p, "creat_insert")
  /\ UNCHANGED <<edge, nextDir, bucket, nextBucket>>
  /\ \/ /\ file[t.cur][h] # NoEntry
        /\ Return(p, FALSE)
        /\ UNCHANGED <<file, gen, meta>>
     \/ /\ file[t.cur][h] = NoEntry
        /\ file' = [file EXCEPT ![t.cur][h] = FileEntry(t.plan[t.i].ref, name)]
        /\ InsertInto(t.cur, meta)
        /\ Created(p)

NameTaken(chain, name) == \E e \in ToSet(chain) : e.name = name

(* insert_into_conflict_chain.  The slot held a conflict chain when it was *)
(* probed: its bucket is searched for the name, then the file is appended. *)
CreatSearch(p) ==
  LET t == th[p]
      chain == bucket[t.seen.ref]
      taken == chain = <<>> \/ NameTaken(chain, Last(CreatTarget(t)))
  IN
  /\ At(p, "creat_chain") /\ t.seen.kind = "chain"
  /\ UNCHANGED store
  /\ \/ taken /\ Return(p, FALSE)
     \/ ~taken /\ Goto(p, [t EXCEPT !.pc = "creat_append"])

CreatAppend(p) ==
  LET t == th[p] IN
  /\ At(p, "creat_append")
  /\ bucket' = [bucket EXCEPT ![t.seen.ref] =
                   Append(@, FileEntry(t.plan[t.i].ref, Last(CreatTarget(t))))]
  /\ Created(p)
  /\ UNCHANGED <<edge, file, gen, meta, nextDir, nextBucket>>

(* The slot held a file when it was probed: a bucket with both files ...   *)
CreatChain(p) ==
  LET t == th[p]
      name == Last(CreatTarget(t))
  IN
  /\ At(p, "creat_chain") /\ t.seen.kind = "file"
  /\ UNCHANGED <<edge, file, gen, meta, nextDir>>
  /\ \/ /\ t.seen.name = name
        /\ Return(p, FALSE)
        /\ UNCHANGED <<bucket, nextBucket>>
     \/ /\ t.seen.name # name
        /\ nextBucket \in Buckets
        /\ nextBucket' = nextBucket + 1
        /\ bucket' = [bucket EXCEPT ![nextBucket] =
                         <<t.seen, FileEntry(t.plan[t.i].ref, name)>>]
        /\ Goto(p, [t EXCEPT !.pc = "creat_mark", !.seen = ChainMarker(nextBucket)])

(* ... and its marker.  The marker is stored through cursor(table_, key),  *)
(* that is under the same hash in the table root, whatever directory was   *)
(* probed; find_insert reserves a slot there, and may split, even when the *)
(* key is not found.  The table root has no directory_meta to copy.        *)
CreatMark(p) ==
  LET t == th[p]
      h == Hash[Last(CreatTarget(t))]
  IN
  /\ At(p, "creat_mark")
  /\ UNCHANGED <<edge, meta, nextDir, nextBucket>>
  /\ \/ /\ file[Root][h] = NoEntry
        /\ \E g \in GensAfterInsert(Root) : gen' = [gen EXCEPT ![Root] = g]
        /\ bucket' = [bucket EXCEPT ![t.seen.ref] = <<>>]
        /\ Return(p, FALSE)
        /\ UNCHANGED file
     \/ /\ file[Root][h] # NoEntry
        /\ file' = [file EXCEPT ![Root][h] = t.seen]
        /\ Created(p)
        /\ UNCHANGED <<gen, bucket>>

(***************************************************************************)
(* remove: remove_entry, one critical section on the slot's leaf.          *)
(***************************************************************************)

(* Item t.i of the plan was removed.                                       *)
Removed(p) ==
  LET t == th[p] IN
  IF t.i < Len(t.plan)
  THEN Goto(p, WalkTo([t EXCEPT !.i = t.i + 1], Front(t.call.src), "remove"))
  ELSE Return(p, TRUE)

HasName(n, name) == meta[n.dir][n.gen] # NoMeta /\ meta[n.dir][n.gen].name = name

(* Mutant: directory_has_entries is not asked.                             *)
MutRemovable(n, name) == HasName(n, name)
Removable(n, name) == HasName(n, name) /\ SlotCount(n.dir) = 0

(* A directory goes if its name matches and it has no children; its nodes  *)
(* are neither marked deleted nor freed.  The children are looked for      *)
(* without their locks while the edge's leaf is locked: what is created    *)
(* below afterwards is as lost as if it were created after the removal.    *)
RemoveDirectory(p) ==
  LET t == th[p]
      name == Last(t.call.src)
      removable == Removable(Canonical(edge[t.cur][Hash[name]]), name)
  IN
  /\ At(p, "remove") /\ "edge" \in Hits(t.cur, Hash[name])
  /\ UNCHANGED <<file, gen, meta, nextDir, bucket, nextBucket>>
  /\ \/ /\ removable
        /\ edge' = [edge EXCEPT ![t.cur][Hash[name]] = NoNode]
        /\ Removed(p)
     \/ /\ ~removable
        /\ Return(p, FALSE)
        /\ UNCHANGED edge

RemoveFile(p) ==
  LET t == th[p]
      name == Last(t.call.src)
      e == file[t.cur][Hash[name]]
  IN
  /\ At(p, "remove") /\ "file" \in Hits(t.cur, Hash[name]) /\ e.kind = "file"
  /\ UNCHANGED <<edge, gen, meta, nextDir, bucket, nextBucket>>
  /\ \/ /\ e.name = name
        /\ file' = [file EXCEPT ![t.cur][Hash[name]] = NoEntry]
        /\ Removed(p)
     \/ /\ e.name # name
        /\ Return(p, FALSE)
        /\ UNCHANGED file

(* Mutant: the last survivor stays in the chain.                           *)
MutSlotAfter(left, e) == IF left = <<>> THEN NoEntry ELSE e
SlotAfter(left, e) ==
  CASE Len(left) = 0 -> NoEntry
    [] Len(left) = 1 -> left[1]
    [] OTHER -> e

(* A file of a conflict chain: the last one takes the slot with it, and    *)
(* when one survivor is left it moves back into the slot.                  *)
RemoveChained(p) ==
  LET t == th[p]
      name == Last(t.call.src)
      h == Hash[name]
      e == file[t.cur][h]
      chain == bucket[e.ref]
  IN
  /\ At(p, "remove") /\ "file" \in Hits(t.cur, h) /\ e.kind = "chain"
  /\ UNCHANGED <<edge, gen, meta, nextDir, nextBucket>>
  /\ \/ /\ \A x \in ToSet(chain) : x.name # name
        /\ Return(p, FALSE)
        /\ UNCHANGED <<file, bucket>>
     \/ \E k \in 1..Len(chain) :
        /\ chain[k].name = name
        /\ LET left == RemoveAt(chain, k) IN
           /\ bucket' = [bucket EXCEPT ![e.ref] = IF Len(left) > 1 THEN left ELSE <<>>]
           /\ file' = [file EXCEPT ![t.cur][h] = SlotAfter(left, e)]
        /\ Removed(p)

RemoveMissing(p) ==
  /\ At(p, "remove") /\ Hits(th[p].cur, Hash[Last(th[p].call.src)]) = {}
  /\ UNCHANGED store
  /\ Return(p, FALSE)

RemoveEntry(p) ==
  RemoveDirectory(p) \/ RemoveFile(p) \/ RemoveChained(p) \/ RemoveMissing(p)

(***************************************************************************)
(* rename: rename_path.  The kind of the source decides the path taken.    *)
(***************************************************************************)
RenameSource(p) ==
  LET t == th[p] IN
  /\ At(p, "rename_source")
  /\ UNCHANGED store
  /\ \E r \in Child(t.cur, Last(t.call.src)) :
       \/ r.kind = "none" /\ Return(p, FALSE)
       \/ r.kind = "dir" /\ ~Fits(Last(t.call.dst)) /\ Return(p, FALSE)
       \/ /\ r.kind = "dir" /\ Fits(Last(t.call.dst))
          /\ Goto(p, WalkTo(t, Front(t.call.src), "rename_old"))
       \/ /\ r.kind = "file"
          /\ Goto(p, WalkTo(t, Front(t.call.dst), "file_target"))

(* rename_directory_o1_from_parsed: both parents, the source edge, the     *)
(* destination name, then attach, rewrite the meta, detach.                *)
RenameOldParent(p) ==
  LET t == th[p] IN
  /\ At(p, "rename_old")
  /\ UNCHANGED store
  /\ Goto(p, WalkTo([t EXCEPT !.old = t.cur], Front(t.call.dst), "rename_edge"))

(* The edge is read under its leaf's lock, the name behind it afterwards.  *)
RenameEdge(p) ==
  LET t == th[p]
      hits == Hits(t.old, Hash[Last(t.call.src)])
      n == Canonical(edge[t.old][Hash[Last(t.call.src)]])
  IN
  /\ At(p, "rename_edge")
  /\ UNCHANGED store
  /\ \/ "edge" \in hits /\ Goto(p, [t EXCEPT !.pc = "rename_name", !.new = t.cur, !.node = n])
     \/ hits # {"edge"} /\ Return(p, FALSE)

RenameName(p) ==
  LET t == th[p]
      named == HasName(t.node, Last(t.call.src))
  IN
  /\ At(p, "rename_name")
  /\ UNCHANGED store
  /\ \/ named /\ Goto(p, [t EXCEPT !.pc = "rename_target"])
     \/ ~named /\ Return(p, FALSE)

RenameTarget(p) ==
  LET t == th[p] IN
  /\ At(p, "rename_target")
  /\ UNCHANGED store
  /\ \E r \in Child(t.new, Last(t.call.dst)) :
       \/ r.kind # "none" /\ Return(p, FALSE)
       \/ r.kind = "none" /\ Goto(p, [t EXCEPT !.pc = "rename_attach"])

(* Mutant: the slot is not checked again under the lock.                   *)
MutRenameAttach(p) ==
  LET t == th[p]
      h == Hash[Last(t.call.dst)]
  IN
  /\ At(p, "rename_attach")
  /\ edge' = [edge EXCEPT ![t.new][h] = t.node]
  /\ InsertInto(t.new, meta)
  /\ Goto(p, [t EXCEPT !.pc = "rename_meta"])
  /\ UNCHANGED <<file, nextDir, bucket, nextBucket>>

(* attach_existing_layer                                                   *)
RenameAttach(p) ==
  LET t == th[p]
      h == Hash[Last(t.call.dst)]
  IN
  /\ At(p, "rename_attach")
  /\ UNCHANGED <<file, nextDir, bucket, nextBucket>>
  /\ \/ /\ Hits(t.new, h) # {}
        /\ Return(p, FALSE)
        /\ UNCHANGED <<edge, gen, meta>>
     \/ /\ Hits(t.new, h) = {}
        /\ edge' = [edge EXCEPT ![t.new][h] = t.node]
        /\ InsertInto(t.new, meta)
        /\ Goto(p, [t EXCEPT !.pc = "rename_meta"])

(* The assignment to *meta is not atomic: a concurrent reader may compare  *)
(* with a half-written name that is neither the old nor the new one.       *)
RenameMetaBegin(p) ==
  LET t == th[p] IN
  /\ At(p, "rename_meta")
  /\ meta' = [meta EXCEPT ![t.node.dir][t.node.gen].name = NoName]
  /\ Goto(p, [t EXCEPT !.pc = "rename_meta_end"])
  /\ UNCHANGED <<edge, file, gen, nextDir, bucket, nextBucket>>

RenameMetaEnd(p) ==
  LET t == th[p] IN
  /\ At(p, "rename_meta_end")
  /\ meta' = [meta EXCEPT ![t.node.dir][t.node.gen].name = Last(t.call.dst)]
  /\ Goto(p, [t EXCEPT !.pc = "rename_detach"])
  /\ UNCHANGED <<edge, file, gen, nextDir, bucket, nextBucket>>

(* Mutant: a move that keeps the last component detaches nothing.          *)
MutRenameDetach(p) ==
  LET t == th[p]
      h == Hash[Last(t.call.src)]
  IN
  /\ At(p, "rename_detach")
  /\ edge' = IF Last(t.call.src) = Last(t.call.dst) THEN edge
             ELSE [edge EXCEPT ![t.old][h] = NoNode]
  /\ Return(p, TRUE)
  /\ UNCHANGED <<file, gen, meta, nextDir, bucket, nextBucket>>

(* The raw pointer in the slot is compared with the canonical root that    *)
(* RenameEdge found.                                                       *)
RenameDetach(p) ==
  LET t == th[p]
      h == Hash[Last(t.call.src)]
      same == "edge" \in Hits(t.old, h) /\ edge[t.old][h] = t.node
  IN
  /\ At(p, "rename_detach")
  /\ UNCHANGED <<file, gen, meta, nextDir, bucket, nextBucket>>
  /\ \/ /\ same
        /\ edge' = [edge EXCEPT ![t.old][h] = NoNode]
        /\ Return(p, TRUE)
     \/ /\ ~same \/ Hits(t.old, h) # {"edge"}
        /\ Return(p, FALSE)
        /\ UNCHANGED edge

(* A file: look for the destination, look the new parent up by name, scan  *)
(* the values under the source's hash path, look for the destination once  *)
(* more per record, then create and remove record by record.               *)
FileTarget(p) ==
  LET t == th[p] IN
  /\ t.pc \in {"file_target", "file_dest"}
  /\ UNCHANGED store
  /\ \E r \in Child(t.cur, Last(t.call.dst)) :
       \/ r.kind # "none" /\ Return(p, FALSE)
       \/ r.kind = "none" /\ Goto(p, NoTarget(t))

FileParent(p) ==
  LET t == th[p] IN
  /\ At(p, "file_parent")
  /\ UNCHANGED store
  /\ \E r \in Child(t.cur, Last(Front(t.call.dst))) :
       \/ r.kind # "dir" /\ Return(p, FALSE)
       \/ r.kind = "dir" /\ Goto(p, WalkTo(t, Front(t.call.src), "file_scan"))

(* scan_subtree: every file of a chain is returned, whatever its name.     *)
(* (A directory that a racing mkdir put under the file's hash meanwhile    *)
(* would add the files below it; that case is left out.)                   *)
FileScan(p) ==
  LET t == th[p]
      e == file[t.cur][Hash[Last(t.call.src)]]
      found == CASE e = NoEntry -> <<>>
                 [] e # NoEntry /\ e.kind = "file" -> <<e>>
                 [] OTHER -> bucket[e.ref]
  IN
  /\ At(p, "file_scan")
  /\ UNCHANGED store
  /\ \/ found = <<>> /\ Return(p, FALSE)
     \/ /\ found # <<>>
        /\ Goto(p, WalkTo([t EXCEPT !.plan = found, !.i = 1],
                          Front(t.call.dst), "file_dest"))

-----------------------------------------------------------------------------
Init ==
  /\ edge = [d \in Dirs |-> [h \in Hashes |-> NoNode]]
  /\ file = [d \in Dirs |-> [h \in Hashes |-> NoEntry]]
  /\ gen = [d \in Dirs |-> 0]
  /\ meta = [d \in Dirs |-> [g \in Gens |-> NoMeta]]
  /\ nextDir = 1
  /\ bucket = [b \in Buckets |-> <<>>]
  /\ nextBucket = 1
  /\ th = [p \in Procs |-> Idle]
  /\ scene \in Scenes

(* Bound: a call starts only if directories and buckets are left for it.   *)
Making == {p \in Procs : th[p].pc # "idle" /\ th[p].call.op = "mkdir"}
Chaining == {p \in Procs : th[p].pc # "idle" /\ th[p].call.op \in {"creat", "rename"}}

MayInvoke(c) ==
  /\ c.op = "mkdir" => nextDir + Cardinality(Making) <= scene.dirs
  /\ c.op \in {"creat", "rename"} => nextBucket + Cardinality(Chaining) <= scene.buckets

StartCall(p) == \E c \in scene.calls[p] : MayInvoke(c) /\ Invoke(p, c)
Mkdir(p) == MkdirProbe(p) \/ MkdirMake(p)
Creat(p) ==
  \/ CreatProbe(p) \/ CreatInsert(p) \/ CreatSearch(p) \/ CreatAppend(p)
  \/ CreatChain(p) \/ CreatMark(p)
RenameDirectory(p) ==
  \/ RenameOldParent(p) \/ RenameEdge(p) \/ RenameName(p) \/ RenameTarget(p) \/ RenameAttach(p)
  \/ RenameMetaBegin(p) \/ RenameMetaEnd(p) \/ RenameDetach(p)
RenameFile(p) == FileTarget(p) \/ FileParent(p) \/ FileScan(p)

Step(p) ==
  \/ StartCall(p) \/ Enter(p) \/ Walk(p) \/ Mkdir(p) \/ Creat(p) \/ RemoveEntry(p)
  \/ RenameSource(p) \/ RenameDirectory(p) \/ RenameFile(p)

Next == (\E p \in Procs : Step(p)) /\ UNCHANGED scene

Spec == Init /\ [][Next]_vars

(* No two threads are at conflict_buckets_ at once, which nothing in the   *)
(* code sees to.                                                           *)
InBuckets(p) ==
  \/ th[p].pc \in {"creat_chain", "creat_append", "creat_mark"}
  \/ /\ th[p].pc = "remove"
     /\ LET e == file[th[p].cur][Hash[Last(th[p].call.src)]] IN e # NoEntry /\ e.kind = "chain"

BucketsSerialized == \A p, q \in Procs : InBuckets(p) /\ InBuckets(q) => p = q

(***************************************************************************)
(* Properties of the store that every thread relies on, in every state.    *)
(***************************************************************************)

(* Every layer pointer leads to a directory_meta, also when the root it    *)
(* points at has been replaced by a split (canonicalize_directory_root):   *)
(* lookup, remove and rename never take the "no meta" exit.                *)
MetaFound ==
  \A d \in Dirs, h \in Hashes :
    edge[d][h] # NoNode =>
      LET n == Canonical(edge[d][h]) IN meta[n.dir][n.gen] # NoMeta

(* A chain marker is backed by a bucket of at least two files with         *)
(* different names, all with the hash of the marker's slot: remove takes   *)
(* the marker away before the bucket runs out, and no creat or rename      *)
(* leaves a marker without its bucket.                                     *)
ChainsBacked ==
  \A d \in Dirs, h \in Hashes :
    file[d][h] # NoEntry /\ file[d][h].kind = "chain" =>
      LET chain == bucket[file[d][h].ref] IN
      /\ Len(chain) >= 2
      /\ \A i, j \in 1..Len(chain) : i # j => chain[i].name # chain[j].name
      /\ \A i \in 1..Len(chain) : Hash[chain[i].name] = h
=============================================================================
