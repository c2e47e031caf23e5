----------------------------- MODULE TreeLocks ------------------------------
(***************************************************************************)
(* The tree of one layer: the descent to a leaf without locks, splits that *)
(* lock upwards, the removal of empty leaves and of the internodes above   *)
(* them, and the collection of the whole layer, which locks downwards      *)
(* (reach_leaf and locked_parent in src/masstree_struct.hh,                *)
(* src/masstree_split.hh, src/masstree_remove.hh).                         *)
(*                                                                         *)
(* Changes a thread makes to a node between marking it dirty and unlocking *)
(* it are one step: a reader that looks at the node in between finds the   *)
(* version changed.  The keys of a leaf are a set (module LeafRead has the *)
(* slots) and the list pointers change in one step (module LeafLink has    *)
(* the protocol).  `slot` stands for what leads into the layer: the        *)
(* table's root pointer, or a slot of a leaf one layer up.                 *)
(***************************************************************************)
EXTENDS Integers, Sequences, FiniteSets

CONSTANTS
  Procs,          \* threads
  Nodes,          \* nodes ever allocated: each is used once
  None,           \* the null pointer
  LeafWidth, InternodeWidth,
  Keys,           \* natural numbers
  Scenes          \* bounds: a starting tree (tree), the node that what leads
                  \* into the layer points at (slot), the operations to choose
                  \* from (todo) and how many of them are started (max)

ASSUME TreeLocksAssumption ==
  /\ None \notin Nodes /\ Keys \subseteq Nat
  /\ LeafWidth \in Nat \ {0, 1} /\ InternodeWidth \in Nat \ {0, 1}

VARIABLES
  nd,             \* [Nodes -> node]
  lock,           \* [Nodes -> Procs \cup {None}]: who holds lock_bit
  dirty,          \* [Nodes -> {"no", "inserting", "splitting"}]
  slot,           \* the layer's root as the pointer into the layer has it
  outer,          \* who holds the leaf that has the pointer
  t,              \* [Procs -> a thread's cursor and local variables]
  db,             \* the keys that were inserted and not removed (history)
  scene, ops      \* the member of Scenes, and the operations started

vars == <<nd, lock, dirty, slot, outer, t, db, scene, ops>>

(* A leaf has keys, a bound and neighbours, an internode has separators    *)
(* and one child more than separators; `used` is whether it was ever       *)
(* allocated, deadlayer is modstate_deleted_layer.                         *)
Blank == [kind |-> "none", keys |-> {}, bound |-> 0, prev |-> None, next |-> None,
          sep |-> <<>>, child |-> <<>>, parent |-> None, height |-> 0,
          root |-> FALSE, deleted |-> FALSE, meta |-> FALSE, deadlayer |-> FALSE]

Leaf(keys, bound, prev, next, parent) ==
  [Blank EXCEPT !.kind = "leaf", !.keys = keys, !.bound = bound, !.prev = prev,
                !.next = next, !.parent = parent]

Internode(sep, child, parent, height) ==
  [Blank EXCEPT !.kind = "internode", !.sep = sep, !.child = child, !.parent = parent,
                !.height = height]

(* root is the cursor's root_; node, sub and held belong to the descent;   *)
(* n, par, kid, into and x to a split or a removal on its way up (into is  *)
(* the leaf that gets the key); rep and top to a removal; seq is split type 2.           *)
Idle == [pc |-> "idle", op |-> "none", key |-> 0, root |-> None, node |-> None,
         held |-> "same", dead |-> FALSE, sub |-> None, n |-> None, par |-> None,
         kid |-> None, more |-> None, into |-> None, x |-> 0, rep |-> None,
         top |-> None, seq |-> FALSE, ret |-> "none"]

Unused == {n \in Nodes : nd[n].kind = "none"}
Fresh == CHOOSE n \in Unused : TRUE

MaybeParent(n) == IF nd[n].parent = None THEN n ELSE nd[n].parent

(* key_bound upper: how many separators are not above the key.             *)
Upper(k, sep) == Cardinality({i \in DOMAIN sep : sep[i] <= k})
ChildFor(n, k) == nd[n].child[Upper(k, nd[n].sep) + 1]

InsertAt(s, i, e) == SubSeq(s, 1, i - 1) \o <<e>> \o SubSeq(s, i, Len(s))
RemoveIndex(s, i) == SubSeq(s, 1, i - 1) \o SubSeq(s, i + 1, Len(s))

(* A change of a node's version as the threads that hold one see it.       *)
Seen(n, how) ==
  [q \in Procs |-> IF t[q].node = n /\ t[q].held # "split" THEN [t[q] EXCEPT !.held = how]
                                                           ELSE t[q]]

(* unlock: a split takes the root bit away.                                *)
Unlocked(n) == [nd[n] EXCEPT !.root = @ /\ dirty[n] # "splitting"]

-----------------------------------------------------------------------------
(* The descent.                                                            *)

(* fix_root, or find_locked's repair of the slot: a stale root pointer is  *)
(* moved one step up.                                                      *)
Start(p, o, k) ==
  /\ t[p].pc = "idle" /\ ops < scene.max /\ slot # None
  /\ ops' = ops + 1
  /\ slot' = IF nd[slot].root \/ outer # None THEN slot ELSE MaybeParent(slot)
  /\ t' = [t EXCEPT ![p] = [Idle EXCEPT !.pc = "root", !.op = o, !.key = k,
                                        !.root = slot', !.node = slot']]
  /\ UNCHANGED <<nd, lock, dirty, outer, db, scene>>

(* A stable version of a node; the true root has the root bit.             *)
FindRoot(p) ==
  LET n == t[p].node IN
  /\ t[p].pc = "root" /\ dirty[n] = "no"
  /\ t' = [t EXCEPT ![p] =
             IF nd[n].root THEN [t[p] EXCEPT !.pc = "descend", !.held = "same",
                                             !.dead = nd[n].deleted]
                           ELSE [t[p] EXCEPT !.node = MaybeParent(n)]]
  /\ UNCHANGED <<nd, lock, dirty, slot, outer, db, scene, ops>>

Retry(c) == [c EXCEPT !.pc = "root", !.node = c.root]

ReadChild(p) ==
  LET c == t[p]
      m == ChildFor(c.node, c.key)
  IN
  /\ c.pc = "descend" /\ nd[c.node].kind = "internode"
  /\ t' = [t EXCEPT ![p] = IF m = None THEN Retry(c) ELSE [c EXCEPT !.pc = "child", !.sub = m]]
  /\ UNCHANGED <<nd, lock, dirty, slot, outer, db, scene, ops>>

(* The child's stable version is taken, then the parent must not have      *)
(* changed; if it has split and the key lies right of its last separator,  *)
(* the search starts over.                                                 *)
LastLess(n, k) == nd[n].sep = <<>> \/ k > nd[n].sep[Len(nd[n].sep)]

CheckParent(p) ==
  LET c == t[p] IN
  /\ c.pc = "child" /\ dirty[c.sub] = "no"
  /\ \/ /\ c.held = "same"
        /\ t' = [t EXCEPT ![p] = [c EXCEPT !.pc = "descend", !.node = c.sub, !.held = "same",
                                           !.dead = nd[c.sub].deleted, !.sub = None]]
     \/ /\ c.held # "same" /\ dirty[c.node] = "no"
        /\ t' = [t EXCEPT ![p] =
                   IF c.held = "split" /\ LastLess(c.node, c.key) THEN Retry(c)
                   ELSE [c EXCEPT !.pc = "descend", !.held = "same", !.sub = None]]
  /\ UNCHANGED <<nd, lock, dirty, slot, outer, db, scene, ops>>

(* At a leaf: a lookup checks the version, a writer locks and checks it.   *)
AtLeaf(c) == c.pc = "descend" /\ nd[c.node].kind = "leaf"

LeafDeleted(p) ==
  /\ AtLeaf(t[p]) /\ t[p].dead
  /\ t' = [t EXCEPT ![p] = Retry(t[p])]
  /\ UNCHANGED <<nd, lock, dirty, slot, outer, db, scene, ops>>

LeafGet(p) ==
  /\ AtLeaf(t[p]) /\ ~t[p].dead /\ t[p].op = "get"
  /\ t' = [t EXCEPT ![p].pc = IF t[p].held = "same" THEN "got" ELSE "advance"]
  /\ UNCHANGED <<nd, lock, dirty, slot, outer, db, scene, ops>>

LeafLock(p) ==
  LET c == t[p] IN
  /\ AtLeaf(c) /\ ~c.dead /\ c.op # "get" /\ lock[c.node] = None
  /\ \/ /\ c.held # "same"
        /\ t' = [t EXCEPT ![p].pc = "advance"] /\ UNCHANGED lock
     \/ /\ c.held = "same" /\ nd[c.node].deadlayer
        /\ t' = [t EXCEPT ![p] = Idle] /\ UNCHANGED lock
     \/ /\ c.held = "same" /\ ~nd[c.node].deadlayer
        /\ lock' = [lock EXCEPT ![c.node] = p]
        /\ t' = [t EXCEPT ![p].pc = "locked"]
  /\ UNCHANGED <<nd, dirty, slot, outer, db, scene, ops>>

(* advance_to_key.  The last key of an empty leaf is that of some slot     *)
(* used before, so the comparison may go either way.                       *)
BeyondLast(n, k) == IF nd[n].keys = {} THEN {TRUE, FALSE} ELSE {\A j \in nd[n].keys : j < k}

Advance(p) ==
  LET c == t[p] IN
  /\ c.pc = "advance" /\ dirty[c.node] = "no"
  /\ \E beyond \in BeyondLast(c.node, c.key) :
       t' = [t EXCEPT ![p].pc = IF c.held = "split" /\ beyond THEN "walk" ELSE "descend",
                      ![p].held = "same", ![p].dead = nd[c.node].deleted]
  /\ UNCHANGED <<nd, lock, dirty, slot, outer, db, scene, ops>>

MutGoesRight(c) ==
  ~c.dead /\ nd[c.node].next # None /\ c.key > nd[nd[c.node].next].bound
GoesRight(c) ==
  ~c.dead /\ nd[c.node].next # None /\ c.key >= nd[nd[c.node].next].bound

Walk(p) ==
  LET c == t[p]
      n == nd[c.node].next
  IN
  /\ c.pc = "walk"
  /\ \/ /\ GoesRight(c) /\ dirty[n] = "no"
        /\ t' = [t EXCEPT ![p].node = n, ![p].held = "same", ![p].dead = nd[n].deleted]
     \/ /\ ~GoesRight(c)
        /\ t' = [t EXCEPT ![p].pc = "descend"]
  /\ UNCHANGED <<nd, lock, dirty, slot, outer, db, scene, ops>>

GetDone(p) ==
  /\ t[p].pc = "got"
  /\ t' = [t EXCEPT ![p] = Idle]
  /\ UNCHANGED <<nd, lock, dirty, slot, outer, db, scene, ops>>

-----------------------------------------------------------------------------
(* locked_parent: the parent is read, locked, and read again.              *)

ReadParent(p) ==
  LET c == t[p] IN
  /\ c.pc = "parent"
  /\ t' = [t EXCEPT ![p].par = nd[c.n].parent,
                    ![p].pc = IF nd[c.n].parent = None THEN c.ret ELSE "lock_parent"]
  /\ UNCHANGED <<nd, lock, dirty, slot, outer, db, scene, ops>>

MutSameParent(c) == TRUE
SameParent(c) == nd[c.n].parent = c.par

LockParent(p) ==
  LET c == t[p] IN
  /\ c.pc = "lock_parent" /\ lock[c.par] = None
  /\ IF SameParent(c)
     THEN lock' = [lock EXCEPT ![c.par] = p] /\ t' = [t EXCEPT ![p].pc = c.ret]
     ELSE t' = [t EXCEPT ![p].pc = "parent"] /\ UNCHANGED lock
  /\ UNCHANGED <<nd, dirty, slot, outer, db, scene, ops>>

-----------------------------------------------------------------------------
(* Inserts and splits.                                                     *)

(* The key is there already, or the leaf has room for it.                  *)
PutHere(p) ==
  LET n == t[p].node IN
  /\ t[p].pc = "locked" /\ t[p].op = "put"
  /\ t[p].key \in nd[n].keys \/ Cardinality(nd[n].keys) < LeafWidth
  /\ nd' = [nd EXCEPT ![n] = [Unlocked(n) EXCEPT !.keys = @ \cup {t[p].key}]]
  /\ lock' = [lock EXCEPT ![n] = None]
  /\ db' = db \cup {t[p].key}
  /\ t' = [t EXCEPT ![p] = Idle]
  /\ UNCHANGED <<dirty, slot, outer, scene, ops>>

(* split_into for a leaf: which keys, the new one counted, go right.       *)
Rank(k, keys) == Cardinality({j \in keys : j < k})
LeafMid(n, k) ==
  CASE Rank(k, nd[n].keys) = 0 /\ nd[n].prev = None -> 1
    [] Rank(k, nd[n].keys) = LeafWidth /\ nd[n].next = None -> LeafWidth
    [] OTHER -> LeafWidth \div 2 + 1
GoRight(n, k) ==
  LET all == nd[n].keys \cup {k} IN {j \in all : Rank(j, all) >= LeafMid(n, k)}

(* make_split up to the first locked_parent: the new leaf has the keys     *)
(* (the inserted one stays invisible) and is linked behind the old one.    *)
SplitLeaf(p) ==
  LET n == t[p].node
      k == t[p].key
      nr == Fresh
      right == GoRight(n, k)
      x == CHOOSE j \in right : \A i \in right : j <= i
      after == nd[n].next
      linked == [nd EXCEPT ![nr] = [Leaf(right \ {k}, x, n, after, None) EXCEPT
                                      !.root = nd[n].root],
                           ![n].next = nr]
  IN
  /\ t[p].pc = "locked" /\ t[p].op = "put"
  /\ k \notin nd[n].keys /\ Cardinality(nd[n].keys) = LeafWidth
  /\ nd' = IF after = None THEN linked ELSE [linked EXCEPT ![after].prev = nr]
  /\ lock' = [lock EXCEPT ![nr] = p]
  /\ t' = [t EXCEPT ![p].pc = "parent", ![p].ret = "link", ![p].n = n, ![p].kid = nr,
                    ![p].x = x, ![p].into = IF k \in right THEN nr ELSE n,
                    ![p].seq = k \in right /\ LeafMid(n, k) = LeafWidth]
  /\ UNCHANGED <<dirty, slot, outer, db, scene, ops>>

NextPc(c) == IF nd[c.n].kind = "leaf" THEN "strip" ELSE "unlock"

(* The layer's root split: a new root above it, with its metadata.  A      *)
(* parent more than one level up gets an internode in between.             *)
LinkNewInternode(p) ==
  LET c == t[p]
      nn == Fresh
      kp == Upper(c.x, nd[c.par].sep) + 1
      made == [Internode(<<c.x>>, <<c.n, c.kid>>, c.par, nd[c.n].height + 1) EXCEPT
                 !.root = c.par = None, !.meta = c.par = None /\ nd[c.n].meta]
      under == [nd EXCEPT ![nn] = made, ![c.n].parent = nn, ![c.kid].parent = nn]
  IN
  /\ c.pc = "link"
  /\ c.par # None => nd[c.par].height > nd[c.n].height + 1
  /\ nd' = IF c.par = None THEN under ELSE [under EXCEPT ![c.par].child[kp] = nn]
  /\ dirty' = IF c.par = None THEN dirty ELSE [dirty EXCEPT ![c.par] = "inserting"]
  /\ t' = [(IF c.par = None THEN t ELSE Seen(c.par, "insert"))
           EXCEPT ![p].pc = NextPc(c), ![p].more = None]
  /\ UNCHANGED <<lock, slot, outer, db, scene, ops>>

LinkRoom(p) ==
  LET c == t[p]
      kp == Upper(c.x, nd[c.par].sep)
  IN
  /\ c.pc = "link" /\ c.par # None /\ nd[c.par].height <= nd[c.n].height + 1
  /\ Len(nd[c.par].sep) < InternodeWidth
  /\ nd' = [nd EXCEPT ![c.par].sep = InsertAt(@, kp + 1, c.x),
                      ![c.par].child = InsertAt(@, kp + 2, c.kid), ![c.kid].parent = c.par]
  /\ dirty' = [dirty EXCEPT ![c.par] = "inserting"]
  /\ t' = [Seen(c.par, "insert") EXCEPT ![p].pc = NextPc(c), ![p].more = None]
  /\ UNCHANGED <<lock, slot, outer, db, scene, ops>>

(* split_into for an internode: with the new separator in place there are  *)
(* InternodeWidth + 1; the one at `mid` moves up, the ones right of it go  *)
(* to the new internode, which starts locked.  Keys inserted in sequence   *)
(* (split type 2) leave the old internode full.                            *)
InternodeMid(c) == IF c.seq THEN InternodeWidth ELSE (InternodeWidth + 1) \div 2

LinkSplit(p) ==
  LET c == t[p]
      kp == Upper(c.x, nd[c.par].sep)
      nr == Fresh
      sep == InsertAt(nd[c.par].sep, kp + 1, c.x)
      child == InsertAt(nd[c.par].child, kp + 2, c.kid)
      m == InternodeMid(c)
      moved == {child[i] : i \in (m + 2)..Len(child)}
      made == Internode(SubSeq(sep, m + 2, Len(sep)), SubSeq(child, m + 2, Len(child)),
                        nd[c.par].parent, nd[c.par].height)
  IN
  /\ c.pc = "link" /\ c.par # None /\ nd[c.par].height <= nd[c.n].height + 1
  /\ Len(nd[c.par].sep) = InternodeWidth
  /\ nd' = [n \in Nodes |->
              CASE n = nr -> made
                [] n = c.par -> [nd[n] EXCEPT !.sep = SubSeq(sep, 1, m),
                                              !.child = SubSeq(child, 1, m + 1)]
                [] n \in moved -> [nd[n] EXCEPT !.parent = nr]
                [] n = c.kid /\ n \notin moved -> [nd[n] EXCEPT !.parent = c.par]
                [] OTHER -> nd[n]]
  /\ lock' = [lock EXCEPT ![nr] = p]
  /\ dirty' = [dirty EXCEPT ![c.par] = "splitting", ![nr] = "inserting"]
  /\ t' = [Seen(c.par, "split") EXCEPT ![p].pc = NextPc(c), ![p].more = nr,
                                       ![p].x = sep[m + 1]]
  /\ UNCHANGED <<slot, outer, db, scene, ops>>

(* Only now that the parent has the new leaf does the old one give up its  *)
(* keys.                                                                   *)
Strip(p) ==
  LET c == t[p] IN
  /\ c.pc = "strip"
  /\ nd' = [nd EXCEPT ![c.n].keys = {j \in @ : j < nd[c.kid].bound}]
  /\ dirty' = [dirty EXCEPT ![c.n] = "splitting"]
  /\ t' = [Seen(c.n, "split") EXCEPT ![p].pc = "unlock"]
  /\ UNCHANGED <<lock, slot, outer, db, scene, ops>>

(* Hand over hand: the two halves are unlocked, except the leaf that gets  *)
(* the key; if the parent split too, it is next, else it is unlocked.      *)
HandOver(p) ==
  LET c == t[p]
      free == ({c.n, c.kid} \cup (IF c.more = None THEN {c.par} ELSE {})) \ {c.into, None}
  IN
  /\ c.pc = "unlock"
  /\ nd' = [n \in Nodes |-> IF n \in free THEN Unlocked(n) ELSE nd[n]]
  /\ lock' = [n \in Nodes |-> IF n \in free THEN None ELSE lock[n]]
  /\ dirty' = [n \in Nodes |-> IF n \in free THEN "no" ELSE dirty[n]]
  /\ t' = [t EXCEPT ![p] = IF c.more = None THEN [c EXCEPT !.pc = "finish"]
                           ELSE [c EXCEPT !.pc = "parent", !.n = c.par, !.kid = c.more]]
  /\ UNCHANGED <<slot, outer, db, scene, ops>>

FinishInsert(p) ==
  LET n == t[p].into IN
  /\ t[p].pc = "finish"
  /\ nd' = [nd EXCEPT ![n] = [Unlocked(n) EXCEPT !.keys = @ \cup {t[p].key}]]
  /\ lock' = [lock EXCEPT ![n] = None] /\ dirty' = [dirty EXCEPT ![n] = "no"]
  /\ db' = db \cup {t[p].key}
  /\ t' = [t EXCEPT ![p] = Idle]
  /\ UNCHANGED <<slot, outer, scene, ops>>

-----------------------------------------------------------------------------
(* Removes.                                                                *)

(* The key is not there, or it is not the last one of a leaf that may go:  *)
(* the layer's first leaf stays.                                           *)
RemoveKey(p) ==
  LET n == t[p].node
      left == nd[n].keys \ {t[p].key}
  IN
  /\ t[p].pc = "locked" /\ t[p].op = "remove"
  /\ t[p].key \notin nd[n].keys \/ left # {} \/ nd[n].prev = None
  /\ nd' = [nd EXCEPT ![n].keys = left]
  /\ lock' = [lock EXCEPT ![n] = None]
  /\ t' = [t EXCEPT ![p] = Idle]
  /\ db' = db \ {t[p].key}
  /\ UNCHANGED <<dirty, slot, outer, scene, ops>>

(* remove_leaf: the empty leaf is marked deleted and leaves the list.      *)
RemoveLeaf(p) ==
  LET n == t[p].node
      a == nd[n].prev
      b == nd[n].next
      unlinked == [nd EXCEPT ![n].keys = {}, ![n].deleted = TRUE, ![a].next = b]
  IN
  /\ t[p].pc = "locked" /\ t[p].op = "remove"
  /\ nd[n].keys = {t[p].key} /\ a # None
  /\ nd' = IF b = None THEN unlinked ELSE [unlinked EXCEPT ![b].prev = a]
  /\ dirty' = [dirty EXCEPT ![n] = "splitting"]
  /\ t' = [Seen(n, "split") EXCEPT ![p].pc = "parent", ![p].ret = "drop", ![p].n = n,
                                   ![p].x = nd[n].bound, ![p].rep = None]
  /\ db' = db \ {t[p].key}
  /\ UNCHANGED <<lock, slot, outer, scene, ops>>

(* The parent loses the child, or has it replaced by its only grandchild.  *)
(* A parent without a first child now starts at its first separator, and   *)
(* so must the separator above it.                                         *)
Dropped(c) ==
  LET kp == Upper(c.x, nd[c.par].sep)
      p == nd[c.par]
  IN  CASE c.rep # None \/ kp = 0 -> [p EXCEPT !.child[kp + 1] = c.rep]
        [] OTHER -> [p EXCEPT !.sep = RemoveIndex(@, kp), !.child = RemoveIndex(@, kp + 1)]

MutMustRedirect(c) == FALSE
MustRedirect(c) ==
  /\ Upper(c.x, nd[c.par].sep) <= 1
  /\ Dropped(c).sep # <<>> /\ Dropped(c).child[1] = None

DropChild(p) ==
  LET c == t[p]
      dropped == [nd EXCEPT ![c.par] = Dropped(c)]
  IN
  /\ c.pc = "drop"
  /\ nd' = IF c.rep = None THEN dropped ELSE [dropped EXCEPT ![c.rep].parent = c.par]
  /\ dirty' = [dirty EXCEPT ![c.par] = "inserting"]
  /\ t' = [Seen(c.par, "insert") EXCEPT ![p] =
             IF MustRedirect(c) THEN [c EXCEPT !.pc = "parent", !.ret = "redirect",
                                               !.top = c.n, !.n = c.par, !.into = c.par]
                                ELSE [c EXCEPT !.pc = "dropped"]]
  /\ UNCHANGED <<lock, slot, outer, db, scene, ops>>

(* redirect, one level: the separator that leads to the internode is moved *)
(* up to its new first key, without a mark; a keyless edge goes further    *)
(* up.  `into` is the internode where the redirect began: it stays locked. *)
(* A root has no parent to redirect; the code would use a null pointer.    *)
Redirect(p) ==
  LET c == t[p]
      kp == Upper(c.x, nd[c.par].sep)
      on == kp = 0 \/ (kp = 1 /\ nd[c.par].child[1] = None)
      new == nd[c.into].sep[1]
      free == (IF c.n = c.into THEN {} ELSE {c.n}) \cup (IF on THEN {} ELSE {c.par})
  IN
  /\ c.pc = "redirect" /\ c.par # None
  /\ nd' = IF kp > 0 THEN [nd EXCEPT ![c.par].sep[kp] = new] ELSE nd
  /\ lock' = [n \in Nodes |-> IF n \in free THEN None ELSE lock[n]]
  /\ t' = [t EXCEPT ![p] =
             IF on THEN [c EXCEPT !.pc = "parent", !.n = c.par]
             ELSE [c EXCEPT !.pc = "dropped", !.n = c.top, !.par = c.into, !.x = new]]
  /\ UNCHANGED <<dirty, slot, outer, db, scene, ops>>

(* The node that was dropped is unlocked; an internode with one child left *)
(* goes too, unless it is the root.                                        *)
Dropping(p) ==
  LET c == t[p]
      stays == nd[c.par].sep # <<>> \/ nd[c.par].root
      free == IF stays THEN {c.n, c.par} ELSE {c.n}
  IN
  /\ c.pc = "dropped"
  /\ nd' = [n \in Nodes |->
              CASE n \in free -> Unlocked(n)
                [] n = c.par /\ ~stays -> [nd[n] EXCEPT !.deleted = TRUE, !.child = <<None>>]
                [] OTHER -> nd[n]]
  /\ lock' = [n \in Nodes |-> IF n \in free THEN None ELSE lock[n]]
  /\ dirty' = [n \in Nodes |-> IF n \in free THEN "no"
                               ELSE IF n = c.par THEN "splitting" ELSE dirty[n]]
  /\ t' = IF stays THEN [t EXCEPT ![p] = Idle]
          ELSE [Seen(c.par, "split") EXCEPT ![p] =
                  [c EXCEPT !.pc = "parent", !.ret = "drop", !.n = c.par, !.into = None,
                            !.rep = nd[c.par].child[1]]]
  /\ UNCHANGED <<slot, outer, db, scene, ops>>

-----------------------------------------------------------------------------
TreeInit ==
  /\ scene \in Scenes
  /\ nd = [n \in Nodes |-> IF n \in DOMAIN scene.tree THEN scene.tree[n] ELSE Blank]
  /\ lock = [n \in Nodes |-> None] /\ dirty = [n \in Nodes |-> "no"]
  /\ slot = scene.slot /\ outer = None
  /\ db = UNION {nd[n].keys : n \in Nodes}
  /\ t = [p \in Procs |-> Idle] /\ ops = 0

Descend(p) ==
  \/ FindRoot(p) \/ ReadChild(p) \/ CheckParent(p) \/ LeafDeleted(p) \/ LeafGet(p)
  \/ LeafLock(p) \/ Advance(p) \/ Walk(p) \/ GetDone(p)

Change(p) ==
  \/ ReadParent(p) \/ LockParent(p)
  \/ PutHere(p) \/ SplitLeaf(p) \/ LinkNewInternode(p) \/ LinkRoom(p) \/ LinkSplit(p)
  \/ Strip(p) \/ HandOver(p) \/ FinishInsert(p)
  \/ RemoveKey(p) \/ RemoveLeaf(p) \/ DropChild(p) \/ Redirect(p) \/ Dropping(p)

TreeNext ==
  \E p \in Procs : (\E w \in scene.todo : w[1] # "gc" /\ Start(p, w[1], w[2]))
                   \/ Descend(p) \/ Change(p)

-----------------------------------------------------------------------------
(* Properties.                                                             *)

(* The leaves of the layer's list, first to last.                          *)
Covers(n, k) ==
  /\ nd[n].kind = "leaf" /\ ~nd[n].deleted
  /\ nd[n].prev = None \/ nd[n].bound <= k
  /\ nd[n].next = None \/ k < nd[nd[n].next].bound

(* A writer that has locked the leaf its descent led to, version           *)
(* unchanged, holds the one leaf of the layer that is responsible for its  *)
(* key, whatever splits and removals the descent ran into (reach_leaf,     *)
(* advance_to_key and find_locked).                                        *)
RouteExact == \A p \in Procs : t[p].pc = "locked" => Covers(t[p].node, t[p].key)

(* gc_layer has dropped the first leaf of the layer, which no removal does *)
(* (remove_leaf keeps a leaf without prev_).                               *)
FirstLeafDropped ==
  \E n \in Nodes : nd[n].kind = "leaf" /\ nd[n].deleted /\ nd[n].prev = None

(* When a split or a removal has locked the parent of its node, the key it *)
(* came with leads from there to the node (the masstree_invariant checks   *)
(* of remove_leaf and redirect), although other threads have moved         *)
(* separators and parents meanwhile.  Only a split meets a node without a  *)
(* parent, unless gc_layer has dropped the first leaf.                     *)
ParentFindsChild ==
  \A p \in Procs : t[p].pc \in {"link", "drop", "redirect"} =>
    IF t[p].par = None THEN t[p].pc = "link" \/ FirstLeafDropped
    ELSE ChildFor(t[p].par, t[p].x)
           \in {t[p].n} \cup (IF t[p].pc = "link" THEN {t[p].kid} ELSE {})

(* Where a descent that nobody disturbs ends.                              *)
TrueRoot ==
  LET up[n \in Nodes] == IF nd[n].root \/ nd[n].parent = None THEN n ELSE up[nd[n].parent]
  IN  up[slot]
Leads(k) ==
  LET down[n \in Nodes \cup {None}] ==
        IF n = None \/ nd[n].kind = "leaf" THEN n ELSE down[ChildFor(n, k)]
  IN  down[TrueRoot]

(* Whenever no operation is under way, the tree leads each key to the leaf *)
(* of the list that covers it, and the keys found there are exactly those  *)
(* that were inserted and not removed - unless gc_layer has dropped the    *)
(* first leaf (masstree_remove.hh:85-102).  It does that only when no other*)
(* leaf is in the list, so a layer without any leaf remains.               *)
TreeAgrees ==
  /\ (slot # None /\ ~FirstLeafDropped /\ \A p \in Procs : t[p].pc = "idle") =>
       \A k \in Keys : /\ Leads(k) # None /\ Covers(Leads(k), k)
                       /\ k \in nd[Leads(k)].keys <=> k \in db
  /\ FirstLeafDropped => \A n \in Nodes : nd[n].kind = "leaf" => nd[n].deleted
=============================================================================
