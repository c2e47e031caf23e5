------------------------------- MODULE FsTree -------------------------------
(***************************************************************************)
(* What a file-system namespace promises: a tree of named objects, changed *)
(* by operations that take effect in one step.  This is the contract that  *)
(* mkdir, creat_file, remove and rename_path of src/lhm_namespace.hh are   *)
(* compared with; "/" is the empty path and always exists.                 *)
(***************************************************************************)
EXTENDS SequencesExt

CONSTANTS
  Paths,     \* the paths operations may name
  Refs       \* inode references

VARIABLE fs     \* a function from the paths that exist to their objects

Object == [kind : {"dir", "file"}, ref : Refs]

IsDirectory(path) ==
  path = <<>> \/ (path \in DOMAIN fs /\ fs[path].kind = "dir")

CanCreate(path) ==
  path # <<>> /\ path \notin DOMAIN fs /\ IsDirectory(Front(path))

CanRemove(path) ==
  path \in DOMAIN fs /\ \A q \in DOMAIN fs : ~IsStrictPrefix(path, q)

(* A directory cannot be moved into itself.                                *)
CanRename(src, dst) ==
  /\ src \in DOMAIN fs /\ dst # <<>> /\ dst \notin DOMAIN fs
  /\ IsDirectory(Front(dst))
  /\ ~IsPrefix(src, dst)

(* Where the object at path q goes when src is renamed to dst.             *)
Moved(src, dst, q) ==
  IF IsPrefix(src, q) THEN dst \o SubSeq(q, Len(src) + 1, Len(q)) ELSE q

AfterRename(src, dst) ==
  [q \in {Moved(src, dst, r) : r \in DOMAIN fs} |->
     fs[CHOOSE r \in DOMAIN fs : Moved(src, dst, r) = q]]

Create(path, object) ==
  CanCreate(path) /\ fs' = [q \in DOMAIN fs \cup {path} |->
                              IF q = path THEN object ELSE fs[q]]
Delete(path) ==
  CanRemove(path) /\ fs' = [q \in DOMAIN fs \ {path} |-> fs[q]]

(* Bound: no object moves out of Paths.                                    *)
Rename(src, dst) ==
  /\ CanRename(src, dst)
  /\ \A q \in DOMAIN fs : Moved(src, dst, q) \in Paths
  /\ fs' = AfterRename(src, dst)

Init == fs = [q \in {} |-> 0]

(* Every operation that succeeds changes the tree.                         *)
Next ==
  /\ fs' # fs
  /\ \/ \E path \in Paths, object \in Object : Create(path, object)
     \/ \E path \in DOMAIN fs : Delete(path)
     \/ \E src \in DOMAIN fs, dst \in Paths : Rename(src, dst)

Spec == Init /\ [][Next]_fs
=============================================================================
