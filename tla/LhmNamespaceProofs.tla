------------------------- MODULE LhmNamespaceProofs -------------------------
(***************************************************************************)
(* What holds of the namespace's store for any number of threads, names,   *)
(* hashes, directories and calls, as long as the threads use               *)
(* conflict_buckets_ one at a time (BucketsSerialized).  A step of one     *)
(* thread is shown to leave the store right (StoreOK), the thread itself   *)
(* right (ThreadOK), and to take nothing from the other threads that they  *)
(* remember (Grows, Private).                                              *)
(***************************************************************************)
EXTENDS LhmNamespace, SequenceTheorems, TLAPS

(* Every variable has its type.                                            *)
StoreTypeOK ==
  /\ edge \in [Dirs -> [Hashes -> Node \cup {NoNode}]]
  /\ file \in [Dirs -> [Hashes -> Entry \cup {NoEntry}]]
  /\ gen \in [Dirs -> Gens]
  /\ meta \in [Dirs -> [Gens -> Meta \cup {NoMeta}]]
  /\ nextDir \in 1..(MaxDirs + 1)
  /\ bucket \in [Buckets -> Seq(FileEntries)]
  /\ nextBucket \in 1..(MaxBuckets + 1)

TypeOK == StoreTypeOK /\ th \in [Procs -> Thread] /\ scene \in Scenes

(* A directory that exists has its directory_meta, behind the root it was  *)
(* made with and behind the present one, and one that does not exist is    *)
(* untouched; layer pointers lead to directories that exist.               *)
MetaKept ==
  /\ \A d \in Dirs : IF d >= nextDir THEN gen[d] = 0
                     ELSE d = Root \/ (meta[d][0] # NoMeta /\ meta[d][gen[d]] # NoMeta)
  /\ \A d \in Dirs, h \in Hashes :
       edge[d][h] # NoNode => edge[d][h].dir \in 1..(nextDir - 1)

(* The names in a bucket are different; a bucket is not touched before its *)
(* number is handed out.                                                   *)
BucketsDistinct ==
  \A b \in Buckets :
    /\ b >= nextBucket => bucket[b] = <<>>
    /\ \A i, j \in 1..Len(bucket[b]) : i # j => bucket[b][i].name # bucket[b][j].name

(* All files of bucket b have the hash h.                                  *)
AllHash(b, h) == \A i \in 1..Len(bucket[b]) : Hash[bucket[b][i].name] = h

(* A file lies in the slot of its hash, a marker in the root's slot of its *)
(* bucket's hash, and the bucket has two files at least.                   *)
SlotOK(d, h, e) ==
  /\ e.kind = "file" => Hash[e.name] = h
  /\ e.kind = "chain" => /\ d = Root /\ e.ref < nextBucket
                         /\ Len(bucket[e.ref]) >= 2 /\ AllHash(e.ref, h)

SlotsOK == \A d \in Dirs, h \in Hashes : file[d][h] # NoEntry => SlotOK(d, h, file[d][h])

(* The step a thread is in, or is walking to.                              *)
Stage(t) == IF t.pc = "walk" THEN t.next ELSE t.pc

CreatSteps == {"creat_probe", "creat_insert", "creat_chain", "creat_append", "creat_mark"}
RenameSteps ==
  {"rename_source", "rename_old", "rename_edge", "rename_name", "rename_target",
   "rename_attach", "rename_meta", "rename_meta_end", "rename_detach", "file_target", "file_parent",
   "file_scan", "file_dest"}
NodeSteps == {"rename_name", "rename_target", "rename_attach", "rename_meta",
              "rename_meta_end", "rename_detach"}

(* The steps of a thread that is between two accesses to a bucket.         *)
ChainSteps == {"creat_append", "creat_mark"}

(* The steps at which a walk ends.                                         *)
Landings == {"mkdir_probe", "creat_probe", "remove", "rename_source", "rename_old",
             "rename_edge", "file_target", "file_parent", "file_scan", "file_dest"}

(* The arguments of the call a thread is in are the ones its step reads.   *)
CallOK(t) ==
  /\ t.pc # "idle" => t.call \in Call
  /\ t.pc = "walk" => t.rest # <<>> /\ t.next \in Landings
  /\ t.pc \in {"file_target", "file_dest"} => t.next = t.pc
  /\ Stage(t) \notin {"idle", "enter"} =>
       /\ t.call.src # <<>>
       /\ t.call.op = "rename" => t.call.dst # <<>>
  /\ Stage(t) \in CreatSteps => t.call.op \in {"creat", "rename"}
  /\ Stage(t) \in RenameSteps => t.call.op = "rename"
  /\ Stage(t) \in CreatSteps \cup {"file_dest"} => t.i \in 1..Len(t.plan)

(* What a thread knows of the bucket it has searched or made.              *)
BucketKnown(t) ==
  /\ t.seen \in Entry /\ t.seen.kind = "chain" /\ t.seen.ref < nextBucket
  /\ AllHash(t.seen.ref, Hash[Last(CreatTarget(t))])
  /\ t.pc = "creat_append" => /\ bucket[t.seen.ref] # <<>>
                              /\ ~NameTaken(bucket[t.seen.ref], Last(CreatTarget(t)))
  /\ t.pc = "creat_mark" => Len(bucket[t.seen.ref]) >= 2

(* What a thread remembers of the store still fits: its directories exist, *)
(* the directory it moves has its directory_meta, and the entry it found   *)
(* in the slot of the file it creates has the hash of that file.           *)
MemoryOK(t) ==
  /\ t.cur < nextDir /\ t.old < nextDir /\ t.new < nextDir
  /\ t.pc \in NodeSteps =>
       /\ t.node \in Node /\ t.node.dir \in 1..(nextDir - 1)
       /\ meta[t.node.dir][t.node.gen] # NoMeta
  /\ t.pc = "creat_chain" =>
       /\ t.seen \in Entry
       /\ t.seen.kind = "file" => Hash[t.seen.name] = Hash[Last(CreatTarget(t))]
       /\ t.seen.kind = "chain" => /\ t.seen.ref < nextBucket
                                   /\ AllHash(t.seen.ref, Hash[Last(CreatTarget(t))])
  /\ t.pc \in ChainSteps => BucketKnown(t)

StoreOK == StoreTypeOK /\ MetaKept /\ BucketsDistinct /\ SlotsOK
ThreadOK(t) == t \in Thread /\ CallOK(t) /\ MemoryOK(t)

(* The inductive invariant.                                                *)
Inv == TypeOK /\ StoreOK /\ \A p \in Procs : ThreadOK(th[p])

-----------------------------------------------------------------------------
(* Sequences                                                               *)

(* The first and the last part of a path.                                  *)
LEMMA FrontLast ==
  ASSUME NEW S, NEW s \in Seq(S), s # <<>>
  PROVE  Front(s) \in Seq(S) /\ Last(s) \in S
  BY DEF Front, Last

(* Parsing gives one hash per component.                                   *)
LEMMA HashesOfType ==
  ASSUME NEW path \in Seq(Names)
  PROVE  HashesOf(path) \in Seq(Hashes)
<1>1. Hash \in [Names -> Hashes]
  BY NamespaceAssumption
<1>2. \A i \in 1..Len(path) : Hash[path[i]] \in Hashes
  BY <1>1
<1>3. Len(path) \in Nat
  OBVIOUS
<1> QED
  BY <1>2, <1>3 DEF HashesOf

(* What is left of a chain when its k-th file is removed.                  *)
LEMMA RemoveAtFacts ==
  ASSUME NEW S, NEW s \in Seq(S), NEW k \in 1..Len(s)
  PROVE  /\ RemoveAt(s, k) \in Seq(S)
         /\ Len(RemoveAt(s, k)) = Len(s) - 1
         /\ \A i \in 1..(Len(s) - 1) : RemoveAt(s, k)[i] = s[IF i < k THEN i ELSE i + 1]
<1> DEFINE a == SubSeq(s, 1, k - 1)
           b == SubSeq(s, k + 1, Len(s))
<1>1. /\ a \in Seq(S) /\ Len(a) = k - 1 /\ \A i \in 1..(k - 1) : a[i] = s[i]
      /\ b \in Seq(S) /\ Len(b) = Len(s) - k /\ \A i \in 1..(Len(s) - k) : b[i] = s[k + i]
  OBVIOUS
<1>2. RemoveAt(s, k) = a \o b
  BY DEF RemoveAt
<1> HIDE DEF a, b
<1>3. /\ a \o b \in Seq(S) /\ Len(a \o b) = Len(s) - 1
      /\ \A i \in 1..(Len(s) - 1) : (a \o b)[i] = IF i < k THEN a[i] ELSE b[i - (k - 1)]
  <2>1. /\ a \o b \in Seq(S) /\ Len(a \o b) = Len(a) + Len(b)
        /\ \A i \in 1..(Len(a) + Len(b)) :
             (a \o b)[i] = IF i <= Len(a) THEN a[i] ELSE b[i - Len(a)]
    BY <1>1, ConcatProperties
  <2>2. k \in Nat /\ Len(s) \in Nat /\ Len(a) + Len(b) = Len(s) - 1
    BY <1>1
  <2> QED
    BY <1>1, <2>1, <2>2
<1>4. \A i \in 1..(Len(s) - 1) : (a \o b)[i] = s[IF i < k THEN i ELSE i + 1]
  <2> SUFFICES ASSUME NEW i \in 1..(Len(s) - 1) PROVE (a \o b)[i] = s[IF i < k THEN i ELSE i + 1]
    OBVIOUS
  <2>1. CASE i < k
    BY <2>1, <1>1, <1>3
  <2>2. CASE ~(i < k)
    <3>1. i - (k - 1) \in 1..(Len(s) - k) /\ k + (i - (k - 1)) = i + 1
      BY <2>2
    <3> QED
      BY <2>2, <3>1, <1>1, <1>3
  <2> QED
    BY <2>1, <2>2
<1> QED
  BY <1>2, <1>3, <1>4

-----------------------------------------------------------------------------
(* Threads                                                                 *)

(* The record of a thread on its way: where it goes, and what it keeps.    *)
LEMMA WalkingFields ==
  ASSUME NEW t \in Thread, NEW d \in Dirs, NEW rest \in Seq(Hashes), NEW next \in PCs
  PROVE  LET r == Walking(t, d, rest, next)
         IN  /\ r \in Thread
             /\ r.pc = IF rest = <<>> THEN next ELSE "walk"
             /\ r.next = next /\ r.cur = d /\ r.rest = rest
             /\ r.call = t.call /\ r.old = t.old /\ r.new = t.new /\ r.node = t.node
             /\ r.seen = t.seen /\ r.plan = t.plan /\ r.i = t.i /\ r.ok = t.ok
<1> DEFINE r == Walking(t, d, rest, next)
           q == IF rest = <<>> THEN next ELSE "walk"
<1>1. q \in PCs
  BY DEF PCs
<1> HIDE DEF q
<1>2. r = [t EXCEPT !.pc = q, !.next = next, !.cur = d, !.rest = rest]
  BY DEF Walking, q
<1>3. r \in Thread
  BY <1>1, <1>2, Zenon DEF Thread
<1>4. /\ r.pc = q /\ r.next = next /\ r.cur = d /\ r.rest = rest
      /\ r.call = t.call /\ r.old = t.old /\ r.new = t.new /\ r.node = t.node
      /\ r.seen = t.seen /\ r.plan = t.plan /\ r.i = t.i /\ r.ok = t.ok
  BY <1>2 DEF Thread
<1> QED
  BY <1>3, <1>4 DEF q

(* The types of the fields of a thread.                                    *)
LEMMA ThreadFields ==
  ASSUME NEW t \in Thread
  PROVE  /\ t.pc \in PCs /\ t.call \in Call \cup {NoCall} /\ t.next \in PCs
         /\ t.cur \in Dirs /\ t.rest \in Seq(Hashes) /\ t.old \in Dirs /\ t.new \in Dirs
         /\ t.node \in Node \cup {NoNode} /\ t.seen \in Entry \cup {NoEntry}
         /\ t.plan \in Seq(FileEntries) /\ t.i \in Nat /\ t.ok \in BOOLEAN
  BY DEF Thread

(* The types of the fields of a call.                                      *)
LEMMA CallFields ==
  ASSUME NEW c \in Call
  PROVE  /\ c.op \in {"mkdir", "creat", "remove", "rename"}
         /\ c.src \in Seq(Names) /\ c.dst \in Seq(Names) /\ c.ref \in Nat
  BY NamespaceAssumption, Zenon DEF Call

(* A thread may set out for the step next if its call has what that step   *)
(* needs.                                                                  *)
MayGo(t, next) ==
  /\ t.call \in Call /\ t.call.src # <<>> /\ next \in Landings
  /\ t.call.op = "rename" => t.call.dst # <<>>
  /\ next = "creat_probe" => t.call.op \in {"creat", "rename"}
  /\ next \in RenameSteps => t.call.op = "rename"
  /\ next \in {"creat_probe", "file_dest"} => t.i \in 1..Len(t.plan)

(* A walk may start at any directory that exists.                          *)
LEMMA WalkingOK ==
  ASSUME StoreTypeOK, NEW t \in Thread, NEW d \in Dirs, d < nextDir,
         NEW rest \in Seq(Hashes), NEW next, MayGo(t, next),
         t.old < nextDir, t.new < nextDir
  PROVE  /\ ThreadOK(Walking(t, d, rest, next))
         /\ Walking(t, d, rest, next).pc \notin ChainSteps
<1> DEFINE r == Walking(t, d, rest, next)
<1>1. next \in PCs
  BY DEF MayGo, Landings, PCs
<1>2. /\ r \in Thread
      /\ r.pc = IF rest = <<>> THEN next ELSE "walk"
      /\ r.next = next /\ r.cur = d /\ r.rest = rest
      /\ r.call = t.call /\ r.old = t.old /\ r.new = t.new /\ r.node = t.node
      /\ r.seen = t.seen /\ r.plan = t.plan /\ r.i = t.i
  BY <1>1, WalkingFields
<1> HIDE DEF r
<1>3. Stage(r) = next /\ next \in Landings
  BY <1>2 DEF Stage, MayGo, Landings
<1>4. CallOK(r)
  BY <1>2, <1>3 DEF CallOK, MayGo, Landings, CreatSteps, RenameSteps
<1>5. r.pc \notin NodeSteps /\ r.pc # "creat_chain" /\ r.pc \notin ChainSteps
  BY <1>2, <1>3 DEF Landings, NodeSteps, ChainSteps
<1>6. MemoryOK(r)
  BY <1>2, <1>5 DEF MemoryOK
<1> QED
  BY <1>2, <1>4, <1>5, <1>6 DEF ThreadOK, r

(* The table root is a directory from the beginning.                       *)
LEMMA RootExists ==
  ASSUME StoreTypeOK
  PROVE  Root \in Dirs /\ Root < nextDir
  BY NamespaceAssumption DEF Root, Dirs, StoreTypeOK

(* ... and from the root along a path.                                     *)
LEMMA WalkToOK ==
  ASSUME StoreTypeOK, NEW t \in Thread, NEW path \in Seq(Names), NEW next, MayGo(t, next),
         t.old < nextDir, t.new < nextDir
  PROVE  ThreadOK(WalkTo(t, path, next)) /\ WalkTo(t, path, next).pc \notin ChainSteps
  BY RootExists, HashesOfType, WalkingOK DEF WalkTo


(* A thread that has made no call yet.                                     *)
LEMMA IdleType == Idle \in Thread
<1>1. Root \in Dirs
  BY NamespaceAssumption DEF Root, Dirs
<1>2. /\ "idle" \in PCs /\ NoCall \in Call \cup {NoCall} /\ NoNode \in Node \cup {NoNode}
      /\ NoEntry \in Entry \cup {NoEntry} /\ <<>> \in Seq(Hashes)
      /\ <<>> \in Seq(FileEntries)
  BY DEF PCs
<1> QED
  BY <1>1, <1>2 DEF Idle, Thread

(* A thread that is in no call.                                            *)
LEMMA QuietOK ==
  ASSUME StoreTypeOK, NEW t \in Thread, t.pc = "idle",
         t.cur = Root, t.old = Root, t.new = Root
  PROVE  ThreadOK(t)
  BY RootExists
     DEF ThreadOK, CallOK, MemoryOK, Stage, CreatSteps, RenameSteps, NodeSteps, ChainSteps

(* A thread before its first call and after one that returned.             *)
LEMMA IdleOK ==
  ASSUME StoreTypeOK
  PROVE  /\ ThreadOK(Idle)
         /\ \A r \in BOOLEAN : /\ ThreadOK([Idle EXCEPT !.ok = r])
                              /\ [Idle EXCEPT !.ok = r].pc \notin ChainSteps
<1>1. Idle.pc = "idle" /\ Idle.cur = Root /\ Idle.old = Root /\ Idle.new = Root
  BY DEF Idle
<1>2. ASSUME NEW r \in BOOLEAN
      PROVE  ThreadOK([Idle EXCEPT !.ok = r]) /\ [Idle EXCEPT !.ok = r].pc \notin ChainSteps
  <2> DEFINE t == [Idle EXCEPT !.ok = r]
  <2>1. /\ t \in Thread /\ t.pc = "idle"
        /\ t.cur = Root /\ t.old = Root /\ t.new = Root
    BY <1>1, IdleType DEF Thread
  <2>2. ThreadOK(t)
    BY <2>1, QuietOK, Zenon
  <2>3. t.pc \notin ChainSteps
    BY <2>1 DEF ChainSteps
  <2> QED
    BY <2>2, <2>3
<1> QED
  BY <1>1, <1>2, IdleType, QuietOK

-----------------------------------------------------------------------------
(* Steps                                                                   *)

(* What a step of one thread leaves to the others.                         *)
DirsGrow ==
  /\ nextDir <= nextDir'
  /\ \A d \in Dirs \ {Root}, g \in Gens : meta[d][g] # NoMeta => meta'[d][g] # NoMeta

BucketsGrow ==
  /\ nextBucket <= nextBucket'
  /\ \A b \in Buckets, h \in Hashes : b < nextBucket /\ AllHash(b, h) => AllHash(b, h)'

Grows == DirsGrow /\ BucketsGrow

(* A step of p that changes a bucket finds no other thread between two     *)
(* accesses to one.                                                        *)
Private(p) == bucket' = bucket \/ \A q \in Procs \ {p} : th[q].pc \notin ChainSteps

(* The name of the file that a thread creates.                             *)
LEMMA TargetName ==
  ASSUME NEW t \in Thread, CallOK(t), Stage(t) \in CreatSteps
  PROVE  /\ CreatTarget(t) \in Seq(Names) /\ CreatTarget(t) # <<>>
         /\ Last(CreatTarget(t)) \in Names /\ Hash[Last(CreatTarget(t))] \in Hashes
<1>1. t.call \in Call /\ t.call.src # <<>> /\ (t.call.op = "rename" => t.call.dst # <<>>)
  BY DEF CallOK, Stage, CreatSteps
<1>2. CreatTarget(t) \in Seq(Names) /\ CreatTarget(t) # <<>>
  BY <1>1, CallFields DEF CreatTarget
<1>3. Last(CreatTarget(t)) \in Names
  BY <1>2, FrontLast
<1> QED
  BY <1>2, <1>3, NamespaceAssumption

(* A thread that takes no step still finds what it remembers.              *)
LEMMA OthersOK ==
  ASSUME StoreTypeOK, StoreTypeOK', Grows, NEW t \in Thread, ThreadOK(t),
         bucket' = bucket \/ t.pc \notin ChainSteps
  PROVE  ThreadOK(t)'
<1>1. CallOK(t)
  BY DEF ThreadOK
<1>2. t.cur < nextDir' /\ t.old < nextDir' /\ t.new < nextDir'
  BY ThreadFields DEF ThreadOK, MemoryOK, Grows, DirsGrow, StoreTypeOK, Dirs
<1>3. ASSUME t.pc \in NodeSteps
      PROVE  /\ t.node \in Node /\ t.node.dir \in 1..(nextDir' - 1)
             /\ meta'[t.node.dir][t.node.gen] # NoMeta
  <2>1. /\ t.node \in Node /\ t.node.dir \in 1..(nextDir - 1)
        /\ meta[t.node.dir][t.node.gen] # NoMeta
    BY <1>3 DEF ThreadOK, MemoryOK
  <2>2. t.node.dir \in Dirs \ {Root} /\ t.node.gen \in Gens
    BY <2>1 DEF Node, Root
  <2>3. nextDir \in Nat /\ nextDir' \in Nat /\ nextDir <= nextDir'
    BY NamespaceAssumption DEF StoreTypeOK, Grows, DirsGrow
  <2> QED
    BY <2>1, <2>2, <2>3 DEF Grows, DirsGrow
<1>4. ASSUME t.pc = "creat_chain"
      PROVE  /\ t.seen \in Entry
             /\ t.seen.kind = "file" => Hash[t.seen.name] = Hash[Last(CreatTarget(t))]
             /\ t.seen.kind = "chain" => /\ t.seen.ref < nextBucket'
                                         /\ AllHash(t.seen.ref, Hash[Last(CreatTarget(t))])'
  <2>1. /\ t.seen \in Entry
        /\ t.seen.kind = "file" => Hash[t.seen.name] = Hash[Last(CreatTarget(t))]
        /\ t.seen.kind = "chain" => /\ t.seen.ref < nextBucket
                                    /\ AllHash(t.seen.ref, Hash[Last(CreatTarget(t))])
    BY <1>4 DEF ThreadOK, MemoryOK
  <2>2. Hash[Last(CreatTarget(t))] \in Hashes
    BY <1>1, <1>4, TargetName DEF Stage, CreatSteps
  <2>3. ASSUME t.seen.kind = "chain" PROVE t.seen.ref \in Buckets
    BY <2>1, <2>3 DEF Entry, FileEntries
  <2>4. nextBucket \in Nat /\ nextBucket' \in Nat /\ nextBucket <= nextBucket'
    BY NamespaceAssumption DEF StoreTypeOK, Grows, BucketsGrow
  <2>5. \A b \in Buckets : b \in Nat
    BY NamespaceAssumption DEF Buckets
  <2> QED
    BY <2>1, <2>2, <2>3, <2>4, <2>5 DEF Grows, BucketsGrow
<1>5. ASSUME t.pc \in ChainSteps PROVE BucketKnown(t)'
  <2>1. BucketKnown(t) /\ bucket' = bucket
    BY <1>5 DEF ThreadOK, MemoryOK
  <2>2. t.seen.ref \in Buckets
    BY <2>1 DEF BucketKnown, Entry, FileEntries
  <2>3. t.seen.ref < nextBucket'
    <3>1. nextBucket \in Nat /\ nextBucket' \in Nat /\ nextBucket <= nextBucket'
      BY NamespaceAssumption DEF StoreTypeOK, Grows, BucketsGrow
    <3>2. \A b \in Buckets : b \in Nat
      BY NamespaceAssumption DEF Buckets
    <3> QED
      BY <2>1, <2>2, <3>1, <3>2 DEF BucketKnown
  <2> QED
    BY <2>1, <2>3 DEF BucketKnown, AllHash, CreatTarget, NameTaken
<1>6. MemoryOK(t)'
  BY <1>2, <1>3, <1>4, <1>5 DEF MemoryOK, AllHash, CreatTarget
<1> QED
  BY <1>1, <1>6 DEF ThreadOK, CallOK, Stage

(* A step keeps the invariant if the store and the thread that moves do.   *)
LEMMA StepTo ==
  ASSUME Inv, scene' = scene, NEW p \in Procs, NEW t \in Thread, Goto(p, t),
         Grows, Private(p), StoreOK', ThreadOK(t)'
  PROVE  Inv'
<1>1. th \in [Procs -> Thread] /\ StoreTypeOK /\ StoreTypeOK' /\ scene' \in Scenes
  BY DEF Inv, TypeOK, StoreOK
<1>2. th' \in [Procs -> Thread] /\ \A q \in Procs : th'[q] = IF q = p THEN t ELSE th[q]
  BY <1>1 DEF Goto
<1>3. ASSUME NEW q \in Procs, q # p
      PROVE  th[q] \in Thread /\ ThreadOK(th[q]) /\ (bucket' = bucket \/ th[q].pc \notin ChainSteps)
  BY <1>1, <1>3 DEF Inv, Private
<1>4. ASSUME NEW q \in Procs PROVE ThreadOK(th[q])'
  <2>1. \A u \in Thread : u = th'[q] => ThreadOK(u)'
    <3>1. CASE q = p
      BY <1>2, <3>1
    <3>2. CASE q # p
      <4>1. \A u \in Thread : u = th[q] => ThreadOK(u)'
        BY <1>1, <1>3, <3>2, OthersOK
      <4> QED
        BY <1>2, <3>2, <4>1
    <3> QED
      BY <3>1, <3>2
  <2>2. th'[q] \in Thread
    BY <1>2
  <2> QED
    BY <2>1, <2>2
       DEF ThreadOK, CallOK, MemoryOK, BucketKnown, Stage, AllHash, CreatTarget, NameTaken
<1> QED
  BY <1>1, <1>2, <1>4 DEF Inv, TypeOK

(* ... also one whose thread was right before it.                          *)
LEMMA StepOK ==
  ASSUME Inv, scene' = scene, NEW p \in Procs, NEW t, Goto(p, t),
         Grows, Private(p), StoreOK', ThreadOK(t),
         bucket' = bucket \/ t.pc \notin ChainSteps
  PROVE  Inv'
<1>1. t \in Thread /\ StoreTypeOK /\ StoreTypeOK'
  BY DEF ThreadOK, Inv, TypeOK, StoreOK
<1>2. ThreadOK(t)'
  BY <1>1, OthersOK
<1> QED
  BY <1>1, <1>2, StepTo

(* A thread that uses a bucket is the only one.                            *)
LEMMA Serial ==
  ASSUME BucketsSerialized, NEW p \in Procs, InBuckets(p)
  PROVE  Private(p)
  BY DEF BucketsSerialized, InBuckets, Private, ChainSteps

(* Steps that leave the directories alone, or the files.                   *)
LEMMA DirsKept ==
  ASSUME StoreOK, UNCHANGED <<edge, gen, meta, nextDir>>
  PROVE  DirsGrow /\ MetaKept'
<1>1. nextDir \in Nat
  BY NamespaceAssumption DEF StoreOK, StoreTypeOK
<1> QED
  BY <1>1 DEF DirsGrow, StoreOK, MetaKept

(* Steps that leave the files and the buckets alone.                       *)
LEMMA FilesKept ==
  ASSUME StoreOK, UNCHANGED <<file, bucket, nextBucket>>
  PROVE  BucketsGrow /\ BucketsDistinct' /\ SlotsOK'
<1>1. nextBucket \in Nat
  BY NamespaceAssumption DEF StoreOK, StoreTypeOK
<1> QED
  BY <1>1 DEF BucketsGrow, StoreOK, BucketsDistinct, SlotsOK, SlotOK, AllHash

(* Steps that only read.                                                   *)
LEMMA ReadOK ==
  ASSUME Inv, scene' = scene, NEW p \in Procs, NEW t, Goto(p, t),
         UNCHANGED store, ThreadOK(t)
  PROVE  Inv'
<1>1. StoreOK /\ StoreTypeOK'
  BY DEF Inv, StoreOK, StoreTypeOK, store
<1>2. StoreOK' /\ Grows
  BY <1>1, DirsKept, FilesKept DEF StoreOK, Grows, store
<1>3. bucket' = bucket /\ Private(p)
  BY DEF store, Private
<1> QED
  BY <1>2, <1>3, StepOK

(* Steps that end a call.                                                  *)
LEMMA EndOK ==
  ASSUME Inv, scene' = scene, NEW p \in Procs, NEW r \in BOOLEAN, Return(p, r),
         Grows, Private(p), StoreOK'
  PROVE  Inv'
<1>1. StoreTypeOK
  BY DEF Inv, TypeOK
<1> QED
  BY <1>1, IdleOK, StepOK DEF Return

(* A call that fails without a write.                                      *)
LEMMA ReturnOK ==
  ASSUME Inv, scene' = scene, NEW p \in Procs, NEW r \in BOOLEAN, Return(p, r),
         UNCHANGED store
  PROVE  Inv'
<1>1. StoreTypeOK
  BY DEF Inv, TypeOK
<1> QED
  BY <1>1, IdleOK, ReadOK DEF Return

(* The thread that takes a step.                                           *)
LEMMA Actor ==
  ASSUME Inv, NEW p \in Procs
  PROVE  /\ th[p] \in Thread /\ CallOK(th[p]) /\ MemoryOK(th[p])
         /\ StoreTypeOK /\ StoreOK
         /\ th[p].old < nextDir /\ th[p].new < nextDir /\ th[p].cur < nextDir
  BY DEF Inv, TypeOK, ThreadOK, MemoryOK

(* The paths of a call past its first checks.                              *)
LEMMA SourceName ==
  ASSUME NEW t \in Thread, CallOK(t), Stage(t) \notin {"idle", "enter"}
  PROVE  /\ t.call \in Call /\ t.call.src \in Seq(Names) /\ t.call.src # <<>>
         /\ Front(t.call.src) \in Seq(Names)
         /\ Last(t.call.src) \in Names /\ Hash[Last(t.call.src)] \in Hashes
<1>1. t.call \in Call /\ t.call.src # <<>>
  BY DEF CallOK, Stage
<1>2. t.call.src \in Seq(Names)
  BY <1>1, CallFields
<1> QED
  BY <1>1, <1>2, FrontLast, NamespaceAssumption

(* The destination of a rename past its first checks.                      *)
LEMMA DestName ==
  ASSUME NEW t \in Thread, CallOK(t), Stage(t) \in RenameSteps
  PROVE  /\ t.call \in Call /\ t.call.op = "rename" /\ t.call.dst \in Seq(Names)
         /\ t.call.dst # <<>> /\ Front(t.call.dst) \in Seq(Names)
         /\ Last(t.call.dst) \in Names /\ Hash[Last(t.call.dst)] \in Hashes
<1>1. t.call \in Call /\ t.call.op = "rename" /\ t.call.dst # <<>>
  BY DEF CallOK, Stage, RenameSteps
<1>2. t.call.dst \in Seq(Names)
  BY <1>1, CallFields
<1> QED
  BY <1>1, <1>2, FrontLast, NamespaceAssumption

-----------------------------------------------------------------------------
(* Steps that only read                                                    *)

(* A thread makes a call.                                                  *)
LEMMA StartCallOK ==
  ASSUME Inv, scene' = scene, NEW p \in Procs, StartCall(p)
  PROVE  Inv'
<1>1. PICK c \in scene.calls[p] : Invoke(p, c)
  BY DEF StartCall
<1>2. c \in Call
  BY NamespaceAssumption, Zenon DEF Inv, TypeOK
<1> DEFINE t == [Idle EXCEPT !.pc = "enter", !.call = c]
<1>3. Root \in Dirs /\ Root < nextDir
  BY RootExists DEF Inv, TypeOK
<1>4. Idle \in Thread
  BY IdleType
<1>5. t \in Thread
  <2>1. "enter" \in PCs
    BY DEF PCs
  <2> QED
    BY <1>2, <1>4, <2>1, Zenon DEF Thread
<1>6. /\ t.pc = "enter" /\ t.call = c /\ t.cur = Root /\ t.old = Root /\ t.new = Root
  BY DEF Idle
<1> HIDE DEF t
<1>7. ThreadOK(t)
  BY <1>2, <1>3, <1>5, <1>6 DEF ThreadOK, CallOK, MemoryOK, Stage, CreatSteps, RenameSteps,
       NodeSteps, ChainSteps
<1> QED
  BY <1>1, <1>7, ReadOK DEF Invoke, t

(* The thread that checks its arguments.                                   *)
LEMMA EnterOK ==
  ASSUME Inv, scene' = scene, NEW p \in Procs, Enter(p)
  PROVE  Inv'
<1> DEFINE t == th[p]
           c == t.call
           single == <<FileEntry(c.ref, IF c.src = <<>> THEN NoName ELSE Last(c.src))>>
           planned == [t EXCEPT !.plan = single, !.i = 1]
<1>1. /\ t \in Thread /\ t.pc = "enter" /\ c \in Call /\ StoreTypeOK
      /\ t.old < nextDir /\ t.new < nextDir /\ UNCHANGED store
  BY Actor DEF Enter, At, CallOK
<1>2. c.src \in Seq(Names) /\ c.dst \in Seq(Names) /\ c.ref \in Nat
  BY <1>1, CallFields
<1>3. ASSUME c.src # <<>>
      PROVE  /\ Front(c.src) \in Seq(Names)
             /\ planned \in Thread /\ planned.call = c /\ planned.i = 1
             /\ planned.plan = single /\ planned.old = t.old /\ planned.new = t.new
             /\ 1 \in 1..Len(single)
  <2>1. Front(c.src) \in Seq(Names) /\ Last(c.src) \in Names
    BY <1>2, <1>3, FrontLast
  <2>2. single \in Seq(FileEntries) /\ 1 \in 1..Len(single)
    BY <1>2, <1>3, <2>1 DEF FileEntry, FileEntries
  <2> HIDE DEF single
  <2> QED
    BY <1>1, <2>1, <2>2, Zenon DEF Thread
<1>4. CASE Return(p, FALSE)
  BY <1>1, <1>4, ReturnOK, Zenon
<1>5. CASE Return(p, TRUE)
  BY <1>1, <1>5, ReturnOK, Zenon
<1> HIDE DEF planned
<1>6. CASE c.op = "mkdir" /\ c.src # <<>> /\ Goto(p, WalkTo(t, Front(c.src), "mkdir_probe"))
  <2>1. MayGo(t, "mkdir_probe")
    BY <1>1, <1>6 DEF MayGo, Landings, RenameSteps
  <2>2. ThreadOK(WalkTo(t, Front(c.src), "mkdir_probe"))
    BY <1>1, <1>3, <1>6, <2>1, WalkToOK
  <2> QED
    BY <1>1, <1>6, <2>2, ReadOK
<1>7. CASE c.op = "creat" /\ c.src # <<>>
           /\ Goto(p, WalkTo(planned, Front(c.src), "creat_probe"))
  <2>1. MayGo(planned, "creat_probe")
    BY <1>1, <1>3, <1>7, Zenon DEF MayGo, Landings, RenameSteps
  <2>2. ThreadOK(WalkTo(planned, Front(c.src), "creat_probe"))
    BY <1>1, <1>3, <1>7, <2>1, WalkToOK
  <2> QED
    BY <1>1, <1>7, <2>2, ReadOK
<1>8. CASE c.op = "remove" /\ c.src # <<>>
           /\ Goto(p, WalkTo(planned, Front(c.src), "remove"))
  <2>1. MayGo(planned, "remove")
    BY <1>1, <1>3, <1>8 DEF MayGo, Landings, RenameSteps
  <2>2. ThreadOK(WalkTo(planned, Front(c.src), "remove"))
    BY <1>1, <1>3, <1>8, <2>1, WalkToOK
  <2> QED
    BY <1>1, <1>8, <2>2, ReadOK
<1>9. CASE c.op = "rename" /\ ~RenameRejected(c)
           /\ Goto(p, WalkTo(t, Front(c.src), "rename_source"))
  <2>1. c.src # <<>> /\ c.dst # <<>>
    BY <1>9 DEF RenameRejected
  <2>2. MayGo(t, "rename_source")
    BY <1>1, <1>9, <2>1 DEF MayGo, Landings, RenameSteps
  <2>3. ThreadOK(WalkTo(t, Front(c.src), "rename_source"))
    BY <1>1, <1>3, <2>1, <2>2, WalkToOK
  <2> QED
    BY <1>1, <1>9, <2>3, ReadOK
<1> QED
  BY <1>4, <1>5, <1>6, <1>7, <1>8, <1>9, Zenon DEF Enter, planned

(* The lookup of a rename's destination found nothing.                     *)
LEMMA NoTargetOK ==
  ASSUME Inv, NEW p \in Procs, th[p].pc \in {"walk", "file_target", "file_dest"}
  PROVE  ThreadOK(NoTarget(th[p]))
<1> DEFINE t == th[p]
<1>1. /\ t \in Thread /\ CallOK(t) /\ StoreTypeOK /\ t.old < nextDir /\ t.new < nextDir
  BY Actor
<1>2. Stage(t) = t.next
  BY <1>1 DEF Stage, CallOK
<1>3. ThreadOK(Idle)
  BY <1>1, IdleOK
<1>4. CASE t.next = "file_target" /\ Front(t.call.dst) = <<>>
  <2>1. /\ t.call \in Call /\ t.call.op = "rename" /\ t.call.dst # <<>> /\ t.call.src # <<>>
        /\ Front(t.call.src) \in Seq(Names)
    BY <1>1, <1>2, <1>4, SourceName, DestName, Zenon DEF RenameSteps
  <2>2. MayGo(t, "file_scan")
    BY <2>1 DEF MayGo, Landings
  <2> QED
    BY <1>1, <1>4, <2>1, <2>2, WalkToOK DEF NoTarget
<1>5. CASE t.next = "file_target" /\ Front(t.call.dst) # <<>>
  <2>1. /\ t.call \in Call /\ t.call.op = "rename" /\ t.call.dst # <<>> /\ t.call.src # <<>>
        /\ Front(t.call.dst) \in Seq(Names)
    BY <1>1, <1>2, <1>5, SourceName, DestName DEF RenameSteps
  <2>2. Front(Front(t.call.dst)) \in Seq(Names)
    BY <1>5, <2>1, FrontLast
  <2>3. MayGo(t, "file_parent")
    BY <2>1 DEF MayGo, Landings
  <2>4. NoTarget(t) = WalkTo(t, Front(Front(t.call.dst)), "file_parent")
    BY <1>5 DEF NoTarget
  <2> QED
    BY <1>1, <2>2, <2>3, <2>4, WalkToOK
<1>6. CASE t.next = "file_dest" /\ t.i < Len(t.plan)
  <2> DEFINE u == [t EXCEPT !.i = t.i + 1]
  <2>1. /\ t.call \in Call /\ t.call.op = "rename" /\ t.call.dst # <<>> /\ t.call.src # <<>>
        /\ Front(t.call.dst) \in Seq(Names)
    BY <1>1, <1>2, <1>6, SourceName, DestName DEF RenameSteps
  <2>2. t.i \in Nat /\ t.plan \in Seq(FileEntries)
    BY <1>1, ThreadFields
  <2>3. t.i + 1 \in Nat /\ t.i + 1 \in 1..Len(t.plan)
    BY <1>6, <2>2
  <2>4. /\ u \in Thread /\ u.call = t.call /\ u.i = t.i + 1 /\ u.plan = t.plan
        /\ u.old = t.old /\ u.new = t.new
    BY <1>1, <2>3, Zenon DEF Thread
  <2>5. NoTarget(t) = WalkTo(u, Front(t.call.dst), "file_dest")
    BY <1>6 DEF NoTarget
  <2> HIDE DEF u
  <2>6. MayGo(u, "file_dest")
    BY <2>1, <2>3, <2>4 DEF MayGo, Landings
  <2> QED
    BY <1>1, <2>1, <2>4, <2>5, <2>6, WalkToOK
<1>7. CASE t.next = "file_dest" /\ t.i = Len(t.plan) /\ Fits(Last(t.call.dst))
  <2> DEFINE u == [t EXCEPT !.i = 1]
  <2>1. /\ t.call \in Call /\ t.call.op = "rename" /\ t.call.dst # <<>> /\ t.call.src # <<>>
        /\ Front(t.call.dst) \in Seq(Names)
    BY <1>1, <1>2, <1>7, SourceName, DestName DEF RenameSteps
  <2>2. t.i \in 1..Len(t.plan)
    BY <1>1, <1>2, <1>7 DEF CallOK
  <2>3. 1 \in 1..Len(t.plan)
    BY <1>1, <2>2, ThreadFields
  <2>4. /\ u \in Thread /\ u.call = t.call /\ u.i = 1 /\ u.plan = t.plan
        /\ u.old = t.old /\ u.new = t.new
    BY <1>1 DEF Thread
  <2>5. NoTarget(t) = WalkTo(u, Front(t.call.dst), "creat_probe")
    BY <1>7, <2>2 DEF NoTarget
  <2> HIDE DEF u
  <2>6. MayGo(u, "creat_probe")
    BY <2>1, <2>3, <2>4 DEF MayGo, Landings, RenameSteps
  <2> QED
    BY <1>1, <2>1, <2>4, <2>5, <2>6, WalkToOK
<1>8. CASE /\ ~(t.next = "file_target" /\ Front(t.call.dst) = <<>>)
           /\ ~(t.next = "file_target" /\ Front(t.call.dst) # <<>>)
           /\ ~(t.next = "file_dest" /\ t.i < Len(t.plan))
           /\ ~(t.next = "file_dest" /\ t.i = Len(t.plan) /\ Fits(Last(t.call.dst)))
  <2>1. NoTarget(t) = Idle
    BY <1>8 DEF NoTarget
  <2> QED
    BY <1>3, <2>1
<1> QED
  BY <1>4, <1>5, <1>6, <1>7, <1>8

(* locate_directory_root, one component.                                   *)
LEMMA WalkOK ==
  ASSUME Inv, scene' = scene, NEW p \in Procs, Walk(p)
  PROVE  Inv'
<1> DEFINE t == th[p]
           h == Head(t.rest)
<1>1. /\ t \in Thread /\ CallOK(t) /\ StoreOK /\ StoreTypeOK /\ UNCHANGED store
      /\ t.pc = "walk" /\ t.old < nextDir /\ t.new < nextDir
  BY Actor DEF Walk, At
<1>2. t.rest \in Seq(Hashes) /\ t.rest # <<>> /\ t.cur \in Dirs
  BY <1>1, ThreadFields DEF CallOK
<1>3. h \in Hashes /\ Tail(t.rest) \in Seq(Hashes)
  BY <1>2
<1>4. CASE /\ "edge" \in Hits(t.cur, h)
           /\ Goto(p, Walking(t, edge[t.cur][h].dir, Tail(t.rest), t.next))
  <2>1. edge[t.cur][h] # NoNode
    BY <1>4 DEF Hits
  <2>2. edge[t.cur][h].dir \in 1..(nextDir - 1)
    BY <1>1, <1>2, <1>3, <2>1 DEF StoreOK, MetaKept
  <2>3. edge[t.cur][h].dir \in Dirs /\ edge[t.cur][h].dir < nextDir
    <3>1. nextDir \in 1..(MaxDirs + 1) /\ MaxDirs \in Nat
      BY <1>1, NamespaceAssumption DEF StoreTypeOK
    <3>2. \A x \in 1..(nextDir - 1) : x \in Dirs /\ x < nextDir
      BY <3>1 DEF Dirs
    <3> QED
      BY <2>2, <3>2
  <2>4. MayGo(t, t.next)
    BY <1>1 DEF MayGo, CallOK, Stage, Landings, RenameSteps, CreatSteps
  <2>5. ThreadOK(Walking(t, edge[t.cur][h].dir, Tail(t.rest), t.next))
    BY <1>1, <1>3, <2>3, <2>4, WalkingOK, Zenon
  <2> QED
    BY <1>1, <1>4, <2>5, ReadOK
<1>5. CASE Goto(p, NoTarget(t))
  BY <1>1, <1>5, NoTargetOK, ReadOK
<1> QED
  BY <1>4, <1>5 DEF Walk

(* mkdir looks for an entry in the slot.                                   *)
LEMMA MkdirProbeOK ==
  ASSUME Inv, scene' = scene, NEW p \in Procs, MkdirProbe(p)
  PROVE  Inv'
<1> DEFINE t == th[p]
           u == [t EXCEPT !.pc = "mkdir_make"]
<1>1. /\ t \in Thread /\ CallOK(t) /\ MemoryOK(t) /\ StoreTypeOK /\ UNCHANGED store
      /\ t.pc = "mkdir_probe"
  BY Actor DEF MkdirProbe, At
<1>2. CASE Return(p, FALSE)
  BY <1>1, <1>2, ReturnOK, Zenon
<1>3. CASE Goto(p, u)
  <2>1. /\ u \in Thread /\ u.pc = "mkdir_make" /\ u.call = t.call /\ u.cur = t.cur
        /\ u.old = t.old /\ u.new = t.new
    BY <1>1 DEF Thread, PCs
  <2> HIDE DEF u
  <2>2. CallOK(u)
    BY <1>1, <2>1 DEF CallOK, Stage, CreatSteps, RenameSteps
  <2>3. MemoryOK(u)
    BY <1>1, <2>1 DEF MemoryOK, NodeSteps, ChainSteps
  <2> QED
    BY <1>1, <1>3, <2>1, <2>2, <2>3, ReadOK DEF ThreadOK
<1> QED
  BY <1>2, <1>3, Zenon DEF MkdirProbe

(* The entry found in the slot has the hash of the file to be created.     *)
LEMMA CreatProbeOK ==
  ASSUME Inv, scene' = scene, NEW p \in Procs, CreatProbe(p)
  PROVE  Inv'
<1> DEFINE t == th[p]
           h == Hash[Last(CreatTarget(t))]
           e == file[t.cur][h]
           u == [t EXCEPT !.pc = "creat_chain", !.seen = e]
           v == [t EXCEPT !.pc = "creat_insert"]
<1>1. /\ t \in Thread /\ CallOK(t) /\ MemoryOK(t) /\ StoreTypeOK /\ StoreOK
      /\ UNCHANGED store /\ t.pc = "creat_probe"
  BY Actor DEF CreatProbe, At
<1>2. h \in Hashes /\ t.cur \in Dirs
  BY <1>1, TargetName, ThreadFields DEF Stage, CreatSteps
<1>3. CASE Return(p, FALSE)
  BY <1>1, <1>3, ReturnOK, Zenon
<1>4. CASE "file" \in Hits(t.cur, h) /\ Goto(p, u)
  <2>1. e # NoEntry /\ e \in Entry
    BY <1>1, <1>2, <1>4 DEF Hits, StoreTypeOK
  <2>2. SlotOK(t.cur, h, e)
    BY <1>1, <1>2, <2>1 DEF StoreOK, SlotsOK
  <2>3. /\ u \in Thread /\ u.pc = "creat_chain" /\ u.call = t.call /\ u.cur = t.cur
        /\ u.old = t.old /\ u.new = t.new /\ u.seen = e /\ u.plan = t.plan /\ u.i = t.i
    <3>1. "creat_chain" \in PCs
      BY DEF PCs
    <3> HIDE DEF e
    <3> QED
      BY <1>1, <2>1, <3>1, Zenon DEF Thread
  <2>4. CreatTarget(u) = CreatTarget(t)
    BY <2>3 DEF CreatTarget
  <2> HIDE DEF u
  <2>5. CallOK(u)
    BY <1>1, <2>3 DEF CallOK, Stage, CreatSteps, RenameSteps
  <2>6. MemoryOK(u)
    BY <1>1, <2>1, <2>2, <2>3, <2>4 DEF MemoryOK, NodeSteps, ChainSteps, SlotOK
  <2> QED
    BY <1>1, <1>4, <2>3, <2>5, <2>6, ReadOK DEF ThreadOK
<1>5. CASE Goto(p, v)
  <2>1. /\ v \in Thread /\ v.pc = "creat_insert" /\ v.call = t.call /\ v.cur = t.cur
        /\ v.old = t.old /\ v.new = t.new /\ v.plan = t.plan /\ v.i = t.i
    BY <1>1 DEF Thread, PCs
  <2> HIDE DEF v
  <2>2. CallOK(v)
    BY <1>1, <2>1 DEF CallOK, Stage, CreatSteps, RenameSteps
  <2>3. MemoryOK(v)
    BY <1>1, <2>1 DEF MemoryOK, NodeSteps, ChainSteps
  <2> QED
    BY <1>1, <1>5, <2>1, <2>2, <2>3, ReadOK DEF ThreadOK
<1> QED
  BY <1>3, <1>4, <1>5, Zenon DEF CreatProbe

(* remove finds nothing in the slot.                                       *)
LEMMA RemoveMissingOK ==
  ASSUME Inv, scene' = scene, NEW p \in Procs, RemoveMissing(p)
  PROVE  Inv'
  BY ReturnOK, Zenon DEF RemoveMissing

(* rename_path looks its source up.                                        *)
LEMMA RenameSourceOK ==
  ASSUME Inv, scene' = scene, NEW p \in Procs, RenameSource(p)
  PROVE  Inv'
<1> DEFINE t == th[p]
<1>1. /\ t \in Thread /\ CallOK(t) /\ StoreTypeOK /\ UNCHANGED store
      /\ t.pc = "rename_source" /\ t.old < nextDir /\ t.new < nextDir
  BY Actor DEF RenameSource, At
<1>2. /\ t.call \in Call /\ t.call.op = "rename" /\ t.call.src # <<>> /\ t.call.dst # <<>>
      /\ Front(t.call.src) \in Seq(Names) /\ Front(t.call.dst) \in Seq(Names)
  BY <1>1, SourceName, DestName DEF Stage, RenameSteps
<1>3. MayGo(t, "rename_old") /\ MayGo(t, "file_target")
  BY <1>2 DEF MayGo, Landings
<1>4. CASE Return(p, FALSE)
  BY <1>1, <1>4, ReturnOK, Zenon
<1>5. CASE Goto(p, WalkTo(t, Front(t.call.src), "rename_old"))
  BY <1>1, <1>2, <1>3, <1>5, WalkToOK, ReadOK
<1>6. CASE Goto(p, WalkTo(t, Front(t.call.dst), "file_target"))
  BY <1>1, <1>2, <1>3, <1>6, WalkToOK, ReadOK
<1> QED
  BY <1>4, <1>5, <1>6, Zenon DEF RenameSource

(* The old parent is found.                                                *)
LEMMA RenameOldParentOK ==
  ASSUME Inv, scene' = scene, NEW p \in Procs, RenameOldParent(p)
  PROVE  Inv'
<1> DEFINE t == th[p]
           u == [t EXCEPT !.old = t.cur]
<1>1. /\ t \in Thread /\ CallOK(t) /\ StoreTypeOK /\ UNCHANGED store
      /\ t.pc = "rename_old" /\ t.cur < nextDir /\ t.new < nextDir
  BY Actor DEF RenameOldParent, At
<1>2. /\ t.call \in Call /\ t.call.op = "rename" /\ t.call.src # <<>> /\ t.call.dst # <<>>
      /\ Front(t.call.dst) \in Seq(Names)
  BY <1>1, SourceName, DestName DEF Stage, RenameSteps
<1>3. u \in Thread /\ u.call = t.call /\ u.old = t.cur /\ u.new = t.new
  BY <1>1 DEF Thread
<1>4. Goto(p, WalkTo(u, Front(t.call.dst), "rename_edge"))
  BY DEF RenameOldParent
<1> HIDE DEF u
<1>5. MayGo(u, "rename_edge")
  BY <1>2, <1>3 DEF MayGo, Landings
<1>6. ThreadOK(WalkTo(u, Front(t.call.dst), "rename_edge"))
  BY <1>1, <1>2, <1>3, <1>5, WalkToOK
<1> QED
  BY <1>1, <1>4, <1>6, ReadOK

(* The directory that the source's edge leads to has its directory_meta.   *)
LEMMA RenameEdgeOK ==
  ASSUME Inv, scene' = scene, NEW p \in Procs, RenameEdge(p)
  PROVE  Inv'
<1> DEFINE t == th[p]
           h == Hash[Last(t.call.src)]
           n == Canonical(edge[t.old][h])
           u == [t EXCEPT !.pc = "rename_name", !.new = t.cur, !.node = n]
<1>1. /\ t \in Thread /\ CallOK(t) /\ MemoryOK(t) /\ StoreTypeOK /\ StoreOK
      /\ UNCHANGED store /\ t.pc = "rename_edge"
  BY Actor DEF RenameEdge, At
<1>2. h \in Hashes /\ t.old \in Dirs /\ t.cur \in Dirs
  BY <1>1, SourceName, ThreadFields DEF Stage
<1>3. CASE Return(p, FALSE)
  BY <1>1, <1>3, ReturnOK, Zenon
<1>4. CASE "edge" \in Hits(t.old, h) /\ Goto(p, u)
  <2>1. edge[t.old][h] # NoNode
    BY <1>4 DEF Hits
  <2>2. edge[t.old][h].dir \in 1..(nextDir - 1)
    BY <1>1, <1>2, <2>1 DEF StoreOK, MetaKept
  <2>3. PICK d \in Dirs : d = edge[t.old][h].dir /\ d # Root /\ ~(d >= nextDir)
    <3>1. nextDir \in 1..(MaxDirs + 1) /\ MaxDirs \in Nat
      BY <1>1, NamespaceAssumption DEF StoreTypeOK
    <3>2. \A x \in 1..(nextDir - 1) : x \in Dirs /\ x # Root /\ ~(x >= nextDir)
      BY <3>1 DEF Dirs, Root
    <3> QED
      BY <2>2, <3>2
  <2>4. n \in Node /\ n.dir \in 1..(nextDir - 1) /\ n.dir = d /\ n.gen = gen[d]
    BY <1>1, <2>2, <2>3, Zenon DEF Canonical, Node, StoreTypeOK
  <2>5. meta[n.dir][n.gen] # NoMeta
    <3>1. meta[d][gen[d]] # NoMeta
      BY <1>1, <2>3 DEF StoreOK, MetaKept
    <3> HIDE DEF n
    <3> QED
      BY <2>4, <3>1
  <2> HIDE DEF n
  <2>6. /\ u \in Thread /\ u.pc = "rename_name" /\ u.call = t.call /\ u.cur = t.cur
        /\ u.old = t.old /\ u.new = t.cur /\ u.node = n
    <3>1. "rename_name" \in PCs
      BY DEF PCs
    <3> QED
      BY <1>1, <1>2, <2>4, <3>1, Zenon DEF Thread
  <2> HIDE DEF u
  <2>7. CallOK(u)
    BY <1>1, <2>6 DEF CallOK, Stage, CreatSteps, RenameSteps
  <2>8. MemoryOK(u)
    BY <1>1, <2>4, <2>5, <2>6 DEF MemoryOK, NodeSteps, ChainSteps
  <2>9. ThreadOK(u)
    BY <2>6, <2>7, <2>8 DEF ThreadOK
  <2> QED
    BY <1>1, <1>4, <2>9, ReadOK
<1> QED
  BY <1>3, <1>4, Zenon DEF RenameEdge

(* A directory in the middle of its rename keeps all a thread knows of it. *)
LEMMA RenamingOK ==
  ASSUME StoreTypeOK, NEW t \in Thread, CallOK(t), MemoryOK(t), t.pc \in NodeSteps,
         NEW pc \in NodeSteps
  PROVE  ThreadOK([t EXCEPT !.pc = pc])
<1> DEFINE u == [t EXCEPT !.pc = pc]
<1>1. pc \in PCs
  BY DEF NodeSteps, PCs
<1>2. /\ u \in Thread /\ u.pc = pc /\ u.call = t.call /\ u.cur = t.cur
      /\ u.old = t.old /\ u.new = t.new /\ u.node = t.node
  BY <1>1 DEF Thread
<1> HIDE DEF u
<1>3. CallOK(u)
  BY <1>2 DEF CallOK, Stage, CreatSteps, RenameSteps, NodeSteps
<1>4. MemoryOK(u)
  BY <1>2 DEF MemoryOK, NodeSteps, ChainSteps
<1> QED
  BY <1>2, <1>3, <1>4 DEF ThreadOK, u

(* The name behind the edge is compared.                                   *)
LEMMA RenameNameOK ==
  ASSUME Inv, scene' = scene, NEW p \in Procs, RenameName(p)
  PROVE  Inv'
<1> DEFINE t == th[p]
<1>1. /\ t \in Thread /\ CallOK(t) /\ MemoryOK(t) /\ StoreTypeOK /\ UNCHANGED store
      /\ t.pc = "rename_name"
  BY Actor DEF RenameName, At
<1>2. CASE Return(p, FALSE)
  BY <1>1, <1>2, ReturnOK, Zenon
<1>3. ThreadOK([t EXCEPT !.pc = "rename_target"])
  BY <1>1, RenamingOK, Zenon DEF NodeSteps
<1>4. CASE Goto(p, [t EXCEPT !.pc = "rename_target"])
  BY <1>1, <1>3, <1>4, ReadOK
<1> QED
  BY <1>2, <1>4, Zenon DEF RenameName

(* The destination of a directory is looked up.                            *)
LEMMA RenameTargetOK ==
  ASSUME Inv, scene' = scene, NEW p \in Procs, RenameTarget(p)
  PROVE  Inv'
<1> DEFINE t == th[p]
           u == [t EXCEPT !.pc = "rename_attach"]
<1>1. /\ t \in Thread /\ CallOK(t) /\ MemoryOK(t) /\ StoreTypeOK /\ UNCHANGED store
      /\ t.pc = "rename_target"
  BY Actor DEF RenameTarget, At
<1>2. CASE Return(p, FALSE)
  BY <1>1, <1>2, ReturnOK, Zenon
<1>3. CASE Goto(p, u)
  <2>1. /\ u \in Thread /\ u.pc = "rename_attach" /\ u.call = t.call /\ u.cur = t.cur
        /\ u.old = t.old /\ u.new = t.new /\ u.node = t.node
    BY <1>1 DEF Thread, PCs
  <2> HIDE DEF u
  <2>2. CallOK(u)
    BY <1>1, <2>1 DEF CallOK, Stage, CreatSteps, RenameSteps
  <2>3. MemoryOK(u)
    BY <1>1, <2>1 DEF MemoryOK, NodeSteps, ChainSteps
  <2> QED
    BY <1>1, <1>3, <2>1, <2>2, <2>3, ReadOK DEF ThreadOK
<1> QED
  BY <1>2, <1>3, Zenon DEF RenameTarget

(* The destination of a file is looked up.                                 *)
LEMMA FileTargetOK ==
  ASSUME Inv, scene' = scene, NEW p \in Procs, FileTarget(p)
  PROVE  Inv'
<1>1. th[p].pc \in {"file_target", "file_dest"} /\ UNCHANGED store
  BY DEF FileTarget
<1>2. CASE Return(p, FALSE)
  BY <1>1, <1>2, ReturnOK, Zenon
<1>3. CASE Goto(p, NoTarget(th[p]))
  BY <1>1, <1>3, NoTargetOK, ReadOK
<1> QED
  BY <1>2, <1>3, Zenon DEF FileTarget

(* The new parent of a file is looked up by name.                          *)
LEMMA FileParentOK ==
  ASSUME Inv, scene' = scene, NEW p \in Procs, FileParent(p)
  PROVE  Inv'
<1> DEFINE t == th[p]
<1>1. /\ t \in Thread /\ CallOK(t) /\ StoreTypeOK /\ UNCHANGED store
      /\ t.pc = "file_parent" /\ t.old < nextDir /\ t.new < nextDir
  BY Actor DEF FileParent, At
<1>2. /\ t.call \in Call /\ t.call.op = "rename" /\ t.call.src # <<>> /\ t.call.dst # <<>>
      /\ Front(t.call.src) \in Seq(Names)
  BY <1>1, SourceName, DestName DEF Stage, RenameSteps
<1>3. MayGo(t, "file_scan")
  BY <1>2 DEF MayGo, Landings
<1>4. CASE Return(p, FALSE)
  BY <1>1, <1>4, ReturnOK, Zenon
<1>5. CASE Goto(p, WalkTo(t, Front(t.call.src), "file_scan"))
  BY <1>1, <1>2, <1>3, <1>5, WalkToOK, ReadOK
<1> QED
  BY <1>4, <1>5, Zenon DEF FileParent

(* scan_subtree collects files, at least one.                              *)
LEMMA FileScanOK ==
  ASSUME Inv, scene' = scene, NEW p \in Procs, FileScan(p)
  PROVE  Inv'
<1> DEFINE t == th[p]
           e == file[t.cur][Hash[Last(t.call.src)]]
           found == CASE e = NoEntry -> <<>>
                      [] e # NoEntry /\ e.kind = "file" -> <<e>>
                      [] OTHER -> bucket[e.ref]
           u == [t EXCEPT !.plan = found, !.i = 1]
<1>1. /\ t \in Thread /\ CallOK(t) /\ StoreTypeOK /\ UNCHANGED store
      /\ t.pc = "file_scan" /\ t.old < nextDir /\ t.new < nextDir
  BY Actor, Zenon DEF FileScan, At
<1>2. /\ t.call \in Call /\ t.call.op = "rename" /\ t.call.src # <<>> /\ t.call.dst # <<>>
      /\ Hash[Last(t.call.src)] \in Hashes /\ Front(t.call.dst) \in Seq(Names)
  BY <1>1, SourceName, DestName DEF Stage, RenameSteps
<1>3. e \in Entry \cup {NoEntry}
  BY <1>1, <1>2, ThreadFields DEF StoreTypeOK
<1>4. CASE Return(p, FALSE)
  BY <1>1, <1>4, ReturnOK, Zenon
<1>5. CASE found # <<>> /\ Goto(p, WalkTo(u, Front(t.call.dst), "file_dest"))
  <2>1. ASSUME e # NoEntry, e.kind = "file" PROVE found \in Seq(FileEntries)
    <3>1. e \in FileEntries /\ found = <<e>>
      BY <1>3, <2>1 DEF Entry, FileEntries
    <3> HIDE DEF found, e
    <3> QED
      BY <3>1
  <2>2. ASSUME e # NoEntry, e.kind # "file" PROVE found \in Seq(FileEntries)
    <3>1. e.ref \in Buckets /\ found = bucket[e.ref]
      BY <1>3, <2>2 DEF Entry, FileEntries
    <3> QED
      BY <3>1, <1>1, Zenon DEF StoreTypeOK
  <2>3. e # NoEntry
    BY <1>5, Zenon
  <2>4. found \in Seq(FileEntries)
    <3> HIDE DEF found, e
    <3> QED
      BY <2>1, <2>2, <2>3
  <2>5. 1 \in 1..Len(found)
    <3> HIDE DEF found
    <3> QED
      BY <1>5, <2>4, EmptySeq
  <2> HIDE DEF found
  <2>6. /\ u \in Thread /\ u.call = t.call /\ u.plan = found /\ u.i = 1
        /\ u.old = t.old /\ u.new = t.new
    BY <1>1, <2>4, Zenon DEF Thread
  <2> HIDE DEF u
  <2>7. MayGo(u, "file_dest")
    BY <1>2, <2>5, <2>6 DEF MayGo, Landings
  <2>8. ThreadOK(WalkTo(u, Front(t.call.dst), "file_dest"))
    BY <1>1, <1>2, <2>6, <2>7, WalkToOK
  <2> QED
    BY <1>1, <1>5, <2>8, ReadOK
<1> QED
  BY <1>4, <1>5, Zenon DEF FileScan

-----------------------------------------------------------------------------
(* Insertions                                                              *)

MetaType == [Dirs -> [Gens -> Meta \cup {NoMeta}]]

(* The root a directory has after an insertion.                            *)
LEMMA GensType ==
  ASSUME StoreTypeOK, NEW d \in Dirs, NEW g \in GensAfterInsert(d)
  PROVE  g \in Gens
<1>1. gen[d] \in Gens /\ MaxGen \in Nat \ {0}
  BY NamespaceAssumption DEF StoreTypeOK
<1>2. g = gen[d] \/ (g = 1) \/ (g = gen[d] + 1 /\ gen[d] # MaxGen)
  BY DEF GensAfterInsert
<1> QED
  BY <1>1, <1>2 DEF Gens

(* A directory_meta survives an insertion, also one that splits the root.  *)
LEMMA InsertFacts ==
  ASSUME StoreTypeOK, NEW d \in Dirs, NEW mm \in MetaType, NEW g \in GensAfterInsert(d)
  PROVE  LET G == [gen EXCEPT ![d] = g]
             M == MetaAfterInsert(d, g, mm)
         IN  /\ G \in [Dirs -> Gens] /\ M \in MetaType
             /\ \A x \in Dirs \ {d} : G[x] = gen[x] /\ M[x] = mm[x]
             /\ mm[d][0] # NoMeta /\ mm[d][gen[d]] # NoMeta =>
                  /\ M[d][0] # NoMeta /\ M[d][G[d]] # NoMeta
                  /\ \A k \in Gens : mm[d][k] # NoMeta => M[d][k] # NoMeta
<1> DEFINE G == [gen EXCEPT ![d] = g]
           M == MetaAfterInsert(d, g, mm)
<1>1. g \in Gens /\ gen[d] \in Gens /\ 0 \in Gens
  BY GensType, NamespaceAssumption DEF StoreTypeOK, Gens
<1>2. G \in [Dirs -> Gens] /\ G[d] = g /\ \A x \in Dirs \ {d} : G[x] = gen[x]
  BY <1>1 DEF StoreTypeOK
<1>3. CASE g = gen[d]
  <2>1. M = mm
    BY <1>3 DEF MetaAfterInsert
  <2> HIDE DEF G, M
  <2> QED
    BY <1>2, <1>3, <2>1 DEF G, M
<1>4. CASE g # gen[d]
  <2>1. M = [mm EXCEPT ![d][g] = mm[d][gen[d]]]
    BY <1>4 DEF MetaAfterInsert
  <2>2. mm[d][gen[d]] \in Meta \cup {NoMeta}
    BY <1>1 DEF MetaType
  <2>3. /\ M \in MetaType /\ M[d][g] = mm[d][gen[d]]
        /\ \A k \in Gens \ {g} : M[d][k] = mm[d][k]
        /\ \A x \in Dirs \ {d} : M[x] = mm[x]
    BY <1>1, <2>1, <2>2 DEF MetaType
  <2> HIDE DEF G, M
  <2>4. mm[d][gen[d]] # NoMeta => \A k \in Gens : mm[d][k] # NoMeta => M[d][k] # NoMeta
    BY <2>3
  <2>5. mm[d][0] # NoMeta /\ mm[d][gen[d]] # NoMeta => M[d][0] # NoMeta /\ M[d][G[d]] # NoMeta
    BY <1>1, <1>2, <2>3, <2>4
  <2> QED
    BY <1>2, <2>3, <2>4, <2>5 DEF G, M
<1> QED
  BY <1>3, <1>4

(* An insertion into directory d that adds no directory.                   *)
LEMMA InsertKeeps ==
  ASSUME StoreOK, NEW d \in Dirs, d < nextDir, nextDir' = nextDir, InsertInto(d, meta),
         \A x \in Dirs, h \in Hashes :
           edge'[x][h] # NoNode => edge'[x][h].dir \in 1..(nextDir - 1)
  PROVE  /\ gen' \in [Dirs -> Gens] /\ meta' \in MetaType
         /\ DirsGrow /\ MetaKept'
<1>1. StoreTypeOK /\ meta \in MetaType /\ nextDir \in Nat
  BY NamespaceAssumption DEF StoreOK, StoreTypeOK, MetaType
<1>2. /\ gen' \in [Dirs -> Gens] /\ meta' \in MetaType
      /\ \A x \in Dirs \ {d} : gen'[x] = gen[x] /\ meta'[x] = meta[x]
      /\ meta[d][0] # NoMeta /\ meta[d][gen[d]] # NoMeta =>
           /\ meta'[d][0] # NoMeta /\ meta'[d][gen'[d]] # NoMeta
           /\ \A g \in Gens : meta[d][g] # NoMeta => meta'[d][g] # NoMeta
  <2>1. PICK g \in GensAfterInsert(d) :
          gen' = [gen EXCEPT ![d] = g] /\ meta' = MetaAfterInsert(d, g, meta)
    BY DEF InsertInto
  <2> QED
    BY <1>1, <2>1, InsertFacts
<1>3. \A x \in Dirs : IF x >= nextDir THEN gen[x] = 0
                      ELSE x = Root \/ (meta[x][0] # NoMeta /\ meta[x][gen[x]] # NoMeta)
  BY DEF StoreOK, MetaKept
<1>4. \A x \in Dirs : x \in Nat
  BY NamespaceAssumption DEF Dirs
<1>5. DirsGrow
  <2>1. ASSUME NEW x \in Dirs \ {Root}, NEW g \in Gens, meta[x][g] # NoMeta
        PROVE  meta'[x][g] # NoMeta
    BY <1>1, <1>2, <1>3, <1>4, <2>1
  <2> QED
    BY <1>1, <2>1 DEF DirsGrow
<1>6. MetaKept'
  BY <1>1, <1>2, <1>3, <1>4 DEF MetaKept
<1> QED
  BY <1>2, <1>5, <1>6

(* mkdir: the new directory has its directory_meta when it is linked.      *)
LEMMA MkdirMakeOK ==
  ASSUME Inv, scene' = scene, NEW p \in Procs, MkdirMake(p)
  PROVE  Inv'
<1> DEFINE t == th[p]
           name == Last(t.call.src)
           m == [name |-> name, ref |-> t.call.ref]
           made == [meta EXCEPT ![nextDir][0] = m]
<1>1. /\ t \in Thread /\ CallOK(t) /\ StoreTypeOK /\ StoreOK /\ t.cur < nextDir
      /\ t.pc = "mkdir_make" /\ UNCHANGED <<file, bucket, nextBucket>>
  BY Actor DEF MkdirMake, At
<1>2. name \in Names /\ Hash[name] \in Hashes /\ t.call \in Call /\ t.cur \in Dirs
  BY <1>1, SourceName, ThreadFields DEF Stage
<1>3. CASE Return(p, FALSE) /\ UNCHANGED <<edge, gen, meta, nextDir>>
  BY <1>1, <1>3, ReturnOK, Zenon DEF store
<1>4. CASE /\ nextDir \in Dirs
           /\ edge' = [edge EXCEPT ![t.cur][Hash[name]] = [dir |-> nextDir, gen |-> 0]]
           /\ InsertInto(t.cur, made)
           /\ nextDir' = nextDir + 1
           /\ Return(p, TRUE)
  <2>1. m \in Meta /\ m # NoMeta
    BY <1>2, CallFields, NamespaceAssumption DEF Meta
  <2> HIDE DEF m
  <2>2. /\ made \in MetaType /\ made[nextDir][0] = m
        /\ \A x \in Dirs \ {nextDir} : made[x] = meta[x]
        /\ \A g \in Gens : meta[nextDir][g] # NoMeta => made[nextDir][g] # NoMeta
    <3>1. meta \in MetaType /\ 0 \in Gens /\ nextDir \in Dirs
      BY <1>1, <1>4, NamespaceAssumption DEF StoreTypeOK, MetaType, Gens
    <3>2. /\ made \in MetaType /\ made[nextDir][0] = m
          /\ \A x \in Dirs \ {nextDir} : made[x] = meta[x]
          /\ \A g \in Gens \ {0} : made[nextDir][g] = meta[nextDir][g]
      BY <2>1, <3>1 DEF MetaType
    <3> QED
      BY <2>1, <3>2
  <2> HIDE DEF made
  <2>3. /\ gen' \in [Dirs -> Gens] /\ meta' \in MetaType
        /\ \A x \in Dirs \ {t.cur} : gen'[x] = gen[x] /\ meta'[x] = made[x]
        /\ made[t.cur][0] # NoMeta /\ made[t.cur][gen[t.cur]] # NoMeta =>
             /\ meta'[t.cur][0] # NoMeta /\ meta'[t.cur][gen'[t.cur]] # NoMeta
             /\ \A g \in Gens : made[t.cur][g] # NoMeta => meta'[t.cur][g] # NoMeta
    <3>1. PICK g \in GensAfterInsert(t.cur) :
            gen' = [gen EXCEPT ![t.cur] = g] /\ meta' = MetaAfterInsert(t.cur, g, made)
      BY <1>4 DEF InsertInto
    <3> QED
      BY <1>1, <1>2, <2>2, <3>1, InsertFacts
  <2>4. /\ nextDir \in Nat \ {0} /\ nextDir' \in 1..(MaxDirs + 1) /\ nextDir # t.cur
        /\ \A x \in Dirs : x \in Nat
    BY <1>1, <1>2, <1>4, NamespaceAssumption DEF StoreTypeOK, Dirs
  <2>5. edge' \in [Dirs -> [Hashes -> Node \cup {NoNode}]]
    <3>1. [dir |-> nextDir, gen |-> 0] \in Node
      BY <1>4, NamespaceAssumption DEF Node, Gens
    <3> QED
      BY <1>1, <1>2, <1>4, <3>1 DEF StoreTypeOK
  <2>6. \A x \in Dirs, h \in Hashes :
          edge'[x][h] # NoNode => edge'[x][h].dir \in 1..nextDir
    <3>1. \A x \in Dirs, h \in Hashes :
            edge[x][h] # NoNode => edge[x][h].dir \in 1..(nextDir - 1)
      BY <1>1 DEF StoreOK, MetaKept
    <3>2. ASSUME NEW x \in Dirs, NEW h \in Hashes
          PROVE  edge'[x][h] = edge[x][h] \/ edge'[x][h].dir = nextDir
      BY <1>1, <1>2, <1>4 DEF StoreTypeOK
    <3> QED
      BY <2>4, <3>1, <3>2
  <2>7. \A x \in Dirs : IF x >= nextDir THEN gen[x] = 0
                        ELSE x = Root \/ (meta[x][0] # NoMeta /\ meta[x][gen[x]] # NoMeta)
    BY <1>1 DEF StoreOK, MetaKept
  <2>8. ASSUME NEW x \in Dirs
        PROVE  IF x >= nextDir' THEN gen'[x] = 0
               ELSE x = Root \/ (meta'[x][0] # NoMeta /\ meta'[x][gen'[x]] # NoMeta)
    <3>1. CASE x > nextDir
      BY <1>1, <1>4, <2>3, <2>4, <2>7, <3>1
    <3>2. CASE x = nextDir
      BY <1>4, <2>1, <2>2, <2>3, <2>4, <2>7, <3>2
    <3>3. CASE x < nextDir
      <4>1. made[x] = meta[x] /\ ~(x >= nextDir') /\ ~(x >= nextDir)
        BY <1>4, <2>2, <2>4, <3>3
      <4> QED
        BY <4>1, <2>3, <2>7
    <3> QED
      BY <2>4, <3>1, <3>2, <3>3
  <2>9. MetaKept'
    BY <1>4, <2>4, <2>6, <2>8 DEF MetaKept
  <2>10. DirsGrow
    <3>1. ASSUME NEW x \in Dirs \ {Root}, NEW g \in Gens, meta[x][g] # NoMeta
          PROVE  meta'[x][g] # NoMeta
      <4>1. made[x][g] # NoMeta
        BY <2>2, <3>1
      <4>2. CASE x # t.cur
        BY <2>3, <4>1, <4>2
      <4>3. CASE x = t.cur
        <5>1. made[x] = meta[x] /\ ~(x >= nextDir)
          BY <1>1, <2>2, <2>4, <4>3
        <5> QED
          BY <2>3, <2>7, <3>1, <4>1, <4>3, <5>1
      <4> QED
        BY <4>2, <4>3
    <3> QED
      BY <1>4, <2>4, <3>1 DEF DirsGrow
  <2>11. StoreTypeOK'
    BY <1>1, <2>3, <2>4, <2>5 DEF StoreTypeOK, MetaType
  <2>12. StoreOK' /\ Grows
    BY <1>1, <2>9, <2>10, <2>11, FilesKept DEF StoreOK, Grows
  <2>13. Private(p)
    BY <1>1 DEF Private
  <2> QED
    BY <1>4, <2>12, <2>13, EndOK, Zenon
<1> QED
  BY <1>3, <1>4, Zenon DEF MkdirMake

(* The end of the creation of one record.                                  *)
LEMMA CreatedOK ==
  ASSUME Inv, scene' = scene, NEW p \in Procs, 
         th[p].pc \in {"creat_insert", "creat_append", "creat_mark"},
         Created(p), Grows, Private(p), StoreOK'
  PROVE  Inv'
<1> DEFINE t == th[p]
           u == [t EXCEPT !.i = t.i + 1, !.seen = NoEntry]
           v == [t EXCEPT !.i = 1, !.seen = NoEntry]
<1>1. /\ t \in Thread /\ CallOK(t) /\ StoreTypeOK
      /\ t.old < nextDir /\ t.new < nextDir
  BY Actor
<1>2. Stage(t) \in CreatSteps /\ Stage(t) \notin {"idle", "enter"}
  BY DEF Stage, CreatSteps
<1>3. /\ t.call \in Call /\ t.call.src # <<>> /\ (t.call.op = "rename" => t.call.dst # <<>>)
      /\ t.call.op \in {"creat", "rename"} /\ Front(t.call.src) \in Seq(Names)
      /\ Front(CreatTarget(t)) \in Seq(Names) /\ t.i \in Nat /\ t.plan \in Seq(FileEntries)
  BY <1>1, <1>2, TargetName, SourceName, ThreadFields, FrontLast, Zenon DEF CallOK
<1>4. CASE t.i < Len(t.plan)
           /\ Goto(p, WalkTo(u, Front(CreatTarget(t)), "creat_probe"))
  <2>1. t.i + 1 \in Nat /\ t.i + 1 \in 1..Len(t.plan)
    BY <1>3, <1>4
  <2>2. /\ u \in Thread /\ u.call = t.call /\ u.i = t.i + 1 /\ u.plan = t.plan
        /\ u.old = t.old /\ u.new = t.new
    BY <1>1, <2>1, Zenon DEF Thread
  <2> HIDE DEF u
  <2>3. MayGo(u, "creat_probe")
    BY <1>3, <2>1, <2>2 DEF MayGo, Landings, RenameSteps
  <2>4. /\ ThreadOK(WalkTo(u, Front(CreatTarget(t)), "creat_probe"))
        /\ WalkTo(u, Front(CreatTarget(t)), "creat_probe").pc \notin ChainSteps
    BY <1>1, <1>3, <2>2, <2>3, WalkToOK
  <2> QED
    BY <1>4, <2>4, StepOK
<1>5. CASE Goto(p, WalkTo(v, Front(t.call.src), "remove"))
  <2>1. /\ v \in Thread /\ v.call = t.call /\ v.old = t.old /\ v.new = t.new
    BY <1>1, Zenon DEF Thread
  <2> HIDE DEF v
  <2>2. MayGo(v, "remove")
    BY <1>3, <2>1 DEF MayGo, Landings, RenameSteps
  <2>3. /\ ThreadOK(WalkTo(v, Front(t.call.src), "remove"))
        /\ WalkTo(v, Front(t.call.src), "remove").pc \notin ChainSteps
    BY <1>1, <1>3, <2>1, <2>2, WalkToOK
  <2> QED
    BY <1>5, <2>3, StepOK
<1>6. CASE Return(p, TRUE)
  BY <1>6, EndOK, Zenon
<1> QED
  BY <1>4, <1>5, <1>6, Zenon DEF Created

(* The record that is being created.                                       *)
LEMMA NewFile ==
  ASSUME NEW t \in Thread, CallOK(t), Stage(t) \in CreatSteps
  PROVE  LET e == FileEntry(t.plan[t.i].ref, Last(CreatTarget(t)))
         IN  /\ e \in FileEntries /\ e \in Entry /\ e.kind = "file"
             /\ e.name = Last(CreatTarget(t))
<1>1. t.i \in 1..Len(t.plan) /\ t.plan \in Seq(FileEntries)
  BY ThreadFields DEF CallOK
<1>2. t.plan[t.i] \in FileEntries
  BY <1>1
<1>3. t.plan[t.i].ref \in Nat
  BY <1>2 DEF FileEntries
<1>4. Last(CreatTarget(t)) \in Names
  BY TargetName
<1> QED
  BY <1>3, <1>4 DEF FileEntry, FileEntries, Entry

(* creat puts a file into the slot of its hash.                            *)
LEMMA CreatInsertOK ==
  ASSUME Inv, scene' = scene, NEW p \in Procs, CreatInsert(p)
  PROVE  Inv'
<1> DEFINE t == th[p]
           name == Last(CreatTarget(t))
           h == Hash[name]
           e == FileEntry(t.plan[t.i].ref, name)
<1>1. /\ t \in Thread /\ CallOK(t) /\ StoreTypeOK /\ StoreOK /\ t.cur < nextDir
      /\ t.pc = "creat_insert" /\ UNCHANGED <<edge, nextDir, bucket, nextBucket>>
  BY Actor DEF CreatInsert, At
<1>2. /\ h \in Hashes /\ t.cur \in Dirs
      /\ e \in Entry /\ e.kind = "file" /\ e.name = name
  BY <1>1, TargetName, NewFile, ThreadFields DEF Stage, CreatSteps
<1>3. CASE Return(p, FALSE) /\ UNCHANGED <<file, gen, meta>>
  BY <1>1, <1>3, ReturnOK, Zenon DEF store
<1>4. CASE /\ file' = [file EXCEPT ![t.cur][h] = e]
           /\ InsertInto(t.cur, meta)
           /\ Created(p)
  <2> HIDE DEF e
  <2>1. /\ file' \in [Dirs -> [Hashes -> Entry \cup {NoEntry}]]
        /\ \A d \in Dirs, g \in Hashes :
             file'[d][g] = IF d = t.cur /\ g = h THEN e ELSE file[d][g]
    BY <1>1, <1>2, <1>4 DEF StoreTypeOK
  <2>3. SlotsOK'
    <3> SUFFICES ASSUME NEW d \in Dirs, NEW g \in Hashes, file'[d][g] # NoEntry
                 PROVE  SlotOK(d, g, file'[d][g])
      BY <1>1 DEF SlotsOK, SlotOK, AllHash
    <3>1. CASE d = t.cur /\ g = h
      BY <1>2, <2>1, <3>1 DEF SlotOK
    <3>2. CASE ~(d = t.cur /\ g = h)
      BY <1>1, <2>1, <3>2 DEF StoreOK, SlotsOK
    <3> QED
      BY <3>1, <3>2
  <2>4. BucketsGrow /\ BucketsDistinct'
    <3>1. nextBucket \in Nat
      BY <1>1, NamespaceAssumption DEF StoreTypeOK
    <3> QED
      BY <1>1, <3>1 DEF BucketsGrow, StoreOK, BucketsDistinct, AllHash
  <2>5. \A x \in Dirs, g \in Hashes :
          edge'[x][g] # NoNode => edge'[x][g].dir \in 1..(nextDir - 1)
    BY <1>1 DEF StoreOK, MetaKept
  <2>6. /\ gen' \in [Dirs -> Gens] /\ meta' \in MetaType
        /\ DirsGrow /\ MetaKept'
    BY <1>1, <1>2, <1>4, <2>5, InsertKeeps
  <2>7. StoreTypeOK'
    BY <1>1, <2>1, <2>6 DEF StoreTypeOK, MetaType
  <2>8. StoreOK' /\ Grows
    BY <2>3, <2>4, <2>6, <2>7 DEF StoreOK, Grows
  <2>9. Private(p)
    BY <1>1 DEF Private
  <2> QED
    BY <1>1, <1>4, <2>8, <2>9, CreatedOK
<1> QED
  BY <1>3, <1>4, Zenon DEF CreatInsert

(* The bucket whose marker was found in the slot is searched.              *)
LEMMA CreatSearchOK ==
  ASSUME Inv, scene' = scene, NEW p \in Procs, CreatSearch(p)
  PROVE  Inv'
<1> DEFINE t == th[p]
           name == Last(CreatTarget(t))
           chain == bucket[t.seen.ref]
           u == [t EXCEPT !.pc = "creat_append"]
<1>1. /\ t \in Thread /\ CallOK(t) /\ MemoryOK(t) /\ StoreTypeOK /\ UNCHANGED store
      /\ t.pc = "creat_chain" /\ t.seen.kind = "chain"
  BY Actor DEF CreatSearch, At
<1>2. CASE Return(p, FALSE)
  BY <1>1, <1>2, ReturnOK, Zenon
<1>3. CASE chain # <<>> /\ ~NameTaken(chain, name) /\ Goto(p, u)
  <2>1. /\ u \in Thread /\ u.pc = "creat_append" /\ u.call = t.call /\ u.cur = t.cur
        /\ u.old = t.old /\ u.new = t.new /\ u.seen = t.seen /\ u.plan = t.plan /\ u.i = t.i
    BY <1>1 DEF Thread, PCs
  <2>2. CreatTarget(u) = CreatTarget(t)
    BY <2>1 DEF CreatTarget
  <2> HIDE DEF u
  <2>3. CallOK(u)
    BY <1>1, <2>1 DEF CallOK, Stage, CreatSteps, RenameSteps
  <2>4. BucketKnown(u)
    BY <1>1, <1>3, <2>1, <2>2 DEF BucketKnown, MemoryOK
  <2>5. MemoryOK(u)
    BY <1>1, <2>1, <2>4 DEF MemoryOK, NodeSteps
  <2>6. ThreadOK(u)
    BY <2>1, <2>3, <2>5 DEF ThreadOK
  <2> QED
    BY <1>1, <1>3, <2>6, ReadOK
<1> QED
  BY <1>2, <1>3, Zenon DEF CreatSearch

(* A file is appended to the bucket that was searched.                     *)
LEMMA CreatAppendOK ==
  ASSUME Inv, scene' = scene, BucketsSerialized, NEW p \in Procs, CreatAppend(p)
  PROVE  Inv'
<1> DEFINE t == th[p]
           name == Last(CreatTarget(t))
           h == Hash[name]
           e == FileEntry(t.plan[t.i].ref, name)
<1>1. /\ t \in Thread /\ CallOK(t) /\ MemoryOK(t) /\ StoreTypeOK /\ StoreOK
      /\ t.pc = "creat_append"
      /\ UNCHANGED <<edge, file, gen, meta, nextDir, nextBucket>>
  BY Actor DEF CreatAppend, At
<1>2. /\ h \in Hashes /\ e \in FileEntries /\ e.name = name
  BY <1>1, TargetName, NewFile DEF Stage, CreatSteps
<1>3. /\ t.seen.ref \in Buckets /\ t.seen.ref < nextBucket /\ AllHash(t.seen.ref, h)
      /\ bucket[t.seen.ref] # <<>> /\ ~NameTaken(bucket[t.seen.ref], name)
  BY <1>1 DEF MemoryOK, BucketKnown, ChainSteps, Entry, FileEntries
<1>4. PICK r \in Buckets : r = t.seen.ref /\ r < nextBucket /\ AllHash(r, h)
  BY <1>3
<1> DEFINE chain == bucket[r]
<1>5. Private(p)
  BY <1>1, Serial DEF InBuckets
<1>6. CASE /\ chain # <<>> /\ ~NameTaken(chain, name)
           /\ bucket' = [bucket EXCEPT ![r] = Append(@, e)]
           /\ Created(p)
  <2> HIDE DEF e
  <2>1. chain \in Seq(FileEntries) /\ Len(chain) \in Nat \ {0}
    BY <1>1, <1>3, <1>6, EmptySeq DEF StoreTypeOK
  <2> DEFINE longer == Append(chain, e)
  <2>2. /\ longer \in Seq(FileEntries) /\ Len(longer) = Len(chain) + 1
        /\ longer[Len(longer)] = e
        /\ \A i \in 1..Len(chain) : longer[i] = chain[i]
    BY <1>2, <2>1, AppendProperties
  <2>3. \A i \in 1..Len(chain) : chain[i].name # name
    BY <1>6, <2>1 DEF NameTaken, ToSet
  <2>4. /\ bucket' \in [Buckets -> Seq(FileEntries)] /\ bucket'[r] = longer
        /\ \A b \in Buckets \ {r} : bucket'[b] = bucket[b]
    <3> HIDE DEF longer
    <3>1. bucket' = [bucket EXCEPT ![r] = longer]
      BY <1>6 DEF longer
    <3> QED
      BY <1>1, <1>3, <2>2, <3>1 DEF StoreTypeOK
  <2> HIDE DEF longer, chain
  <2>5. \A i \in 1..Len(longer) : (i \in 1..Len(chain) /\ longer[i] = chain[i])
                                  \/ (i = Len(longer) /\ longer[i] = e)
    BY <2>1, <2>2
  <2>6. \A g \in Hashes : AllHash(r, g) => g = h /\ AllHash(r, g)'
    <3> SUFFICES ASSUME NEW g \in Hashes, AllHash(r, g) PROVE g = h /\ AllHash(r, g)'
      OBVIOUS
    <3>1. \A i \in 1..Len(chain) : Hash[chain[i].name] = g /\ Hash[chain[i].name] = h
      BY <1>4 DEF AllHash, chain
    <3>2. g = h
      BY <2>1, <3>1
    <3>3. \A i \in 1..Len(longer) : Hash[longer[i].name] = g
      BY <1>2, <2>5, <3>1, <3>2
    <3> QED
      BY <2>4, <3>2, <3>3 DEF AllHash
  <2>7. BucketsGrow
    <3>1. nextBucket \in Nat
      BY <1>1, NamespaceAssumption DEF StoreTypeOK
    <3>2. \A b \in Buckets, g \in Hashes : b # r /\ AllHash(b, g) => AllHash(b, g)'
      BY <2>4 DEF AllHash
    <3> QED
      BY <1>1, <2>6, <3>1, <3>2 DEF BucketsGrow
  <2>8. BucketsDistinct'
    <3>1. \A i, j \in 1..Len(longer) : i # j => longer[i].name # longer[j].name
      <4>1. \A i, j \in 1..Len(chain) : i # j => chain[i].name # chain[j].name
        BY <1>1, <1>3 DEF StoreOK, BucketsDistinct, chain
      <4> QED
        BY <1>2, <2>3, <2>5, <4>1
    <3>2. \A b \in Buckets : b \in Nat
      BY NamespaceAssumption DEF Buckets
    <3>3. nextBucket \in Nat
      BY <1>1, NamespaceAssumption DEF StoreTypeOK
    <3>4. ~(r >= nextBucket)
      BY <1>4, <3>2, <3>3
    <3> QED
      BY <1>1, <2>4, <3>1, <3>4 DEF BucketsDistinct, StoreOK
  <2>9. SlotsOK'
    <3> SUFFICES ASSUME NEW d \in Dirs, NEW g \in Hashes, file[d][g] # NoEntry
                 PROVE  SlotOK(d, g, file[d][g])'
      BY <1>1 DEF SlotsOK
    <3>1. SlotOK(d, g, file[d][g])
      BY <1>1 DEF StoreOK, SlotsOK
    <3>2. file[d][g] \in Entry
      BY <1>1 DEF StoreTypeOK
    <3>3. CASE file[d][g].kind # "chain"
      BY <1>1, <3>1, <3>3 DEF SlotOK
    <3>4. CASE file[d][g].kind = "chain" /\ file[d][g].ref # r
      <4>1. file[d][g].ref \in Buckets
        BY <3>2, <3>4 DEF Entry, FileEntries
      <4>2. bucket'[file[d][g].ref] = bucket[file[d][g].ref]
        BY <2>4, <3>4, <4>1
      <4> QED
        BY <1>1, <3>1, <3>4, <4>2 DEF SlotOK, AllHash
    <3>5. CASE file[d][g].kind = "chain" /\ file[d][g].ref = r
      <4>1. d = Root /\ r < nextBucket /\ Len(chain) >= 2 /\ AllHash(r, g)
        BY <3>1, <3>5 DEF SlotOK, chain
      <4>2. AllHash(r, g)' /\ Len(bucket'[r]) >= 2
        BY <2>1, <2>2, <2>4, <2>6, <4>1
      <4> QED
        BY <1>1, <3>5, <4>1, <4>2 DEF SlotOK, AllHash
    <3> QED
      BY <3>3, <3>4, <3>5
  <2>10. StoreTypeOK'
    BY <1>1, <2>4 DEF StoreTypeOK
  <2>11. StoreOK' /\ Grows
    BY <1>1, <2>7, <2>8, <2>9, <2>10, DirsKept DEF StoreOK, Grows
  <2> QED
    BY <1>1, <1>5, <1>6, <2>11, CreatedOK
<1> QED
  BY <1>3, <1>4, <1>6, Zenon DEF CreatAppend

(* A chain is started: its bucket is new, and no slot has it yet.          *)
LEMMA CreatChainOK ==
  ASSUME Inv, scene' = scene, BucketsSerialized, NEW p \in Procs, CreatChain(p)
  PROVE  Inv'
<1> DEFINE t == th[p]
           name == Last(CreatTarget(t))
           h == Hash[name]
           e == FileEntry(t.plan[t.i].ref, name)
           marker == ChainMarker(nextBucket)
           u == [t EXCEPT !.pc = "creat_mark", !.seen = marker]
<1>1. /\ t \in Thread /\ CallOK(t) /\ MemoryOK(t) /\ StoreTypeOK /\ StoreOK
      /\ t.pc = "creat_chain" /\ t.seen.kind = "file"
      /\ UNCHANGED <<edge, file, gen, meta, nextDir>>
  BY Actor DEF CreatChain, At
<1>2. h \in Hashes /\ e \in FileEntries /\ e.name = name
  BY <1>1, TargetName, NewFile DEF Stage, CreatSteps
<1>3. t.seen \in FileEntries /\ Hash[t.seen.name] = h
  BY <1>1 DEF MemoryOK, Entry, FileEntries
<1>4. CASE Return(p, FALSE) /\ UNCHANGED <<bucket, nextBucket>>
  BY <1>1, <1>4, ReturnOK, Zenon DEF store
<1>5. nextBucket \in Nat /\ \A c \in Buckets : c \in Nat
  BY <1>1, NamespaceAssumption DEF StoreTypeOK, Buckets
<1>6. Private(p)
  BY <1>1, Serial DEF InBuckets
<1>7. CASE /\ t.seen.name # name
           /\ nextBucket \in Buckets /\ nextBucket' = nextBucket + 1
           /\ bucket' = [bucket EXCEPT ![nextBucket] = <<t.seen, e>>]
           /\ Goto(p, u)
  <2> DEFINE chain == <<t.seen, e>>
  <2>1. /\ chain \in Seq(FileEntries) /\ Len(chain) = 2
        /\ \A i \in 1..2 : Hash[chain[i].name] = h
        /\ \A i, j \in 1..2 : i # j => chain[i].name # chain[j].name
    <3> HIDE DEF e
    <3>1. chain \in Seq(FileEntries) /\ Len(chain) = 2 /\ chain[1] = t.seen /\ chain[2] = e
      BY <1>2, <1>3
    <3>2. \A i \in 1..2 : i = 1 \/ i = 2
      OBVIOUS
    <3> HIDE DEF chain
    <3> QED
      BY <1>2, <1>3, <1>7, <3>1, <3>2
  <2>2. marker \in Entry /\ marker.kind = "chain" /\ marker.ref = nextBucket
    BY <1>7 DEF ChainMarker, Entry
  <2> HIDE DEF chain, marker
  <2>3. /\ bucket' \in [Buckets -> Seq(FileEntries)] /\ bucket'[nextBucket] = chain
        /\ \A c \in Buckets \ {nextBucket} : bucket'[c] = bucket[c]
    <3>1. bucket' = [bucket EXCEPT ![nextBucket] = chain]
      BY <1>7 DEF chain
    <3> QED
      BY <1>1, <1>7, <2>1, <3>1, Zenon DEF StoreTypeOK
  <2>4. nextBucket' \in 1..(MaxBuckets + 1) /\ nextBucket < nextBucket'
    BY <1>5, <1>7, NamespaceAssumption DEF Buckets
  <2>5. StoreTypeOK'
    BY <1>1, <2>3, <2>4 DEF StoreTypeOK
  <2>6. BucketsGrow
    <3>1. \A c \in Buckets, g \in Hashes : c # nextBucket /\ AllHash(c, g) => AllHash(c, g)'
      BY <2>3 DEF AllHash
    <3>2. \A c \in Buckets : c < nextBucket => c # nextBucket
      BY <1>5
    <3> QED
      BY <1>5, <1>7, <3>1, <3>2 DEF BucketsGrow
  <2>7. BucketsDistinct'
    <3> SUFFICES ASSUME NEW c \in Buckets
                 PROVE  /\ c >= nextBucket' => bucket'[c] = <<>>
                        /\ \A i, j \in 1..Len(bucket'[c]) :
                             i # j => bucket'[c][i].name # bucket'[c][j].name
      BY DEF BucketsDistinct
    <3>1. CASE c = nextBucket
      BY <1>5, <1>7, <2>1, <2>3, <3>1
    <3>2. CASE c # nextBucket
      BY <1>1, <1>5, <1>7, <2>3, <3>2 DEF StoreOK, BucketsDistinct
    <3> QED
      BY <3>1, <3>2
  <2>8. SlotsOK'
    <3> SUFFICES ASSUME NEW d \in Dirs, NEW g \in Hashes, file[d][g] # NoEntry
                 PROVE  SlotOK(d, g, file[d][g])'
      BY <1>1 DEF SlotsOK
    <3>1. SlotOK(d, g, file[d][g]) /\ file[d][g] \in Entry
      BY <1>1 DEF StoreOK, SlotsOK, StoreTypeOK
    <3>2. CASE file[d][g].kind # "chain"
      BY <1>1, <3>1, <3>2 DEF SlotOK
    <3>3. CASE file[d][g].kind = "chain"
      <4>1. file[d][g].ref \in Buckets /\ file[d][g].ref < nextBucket
        BY <3>1, <3>3 DEF Entry, FileEntries, SlotOK
      <4>2. bucket'[file[d][g].ref] = bucket[file[d][g].ref] /\ file[d][g].ref < nextBucket'
        BY <1>5, <1>7, <2>3, <4>1
      <4> QED
        BY <1>1, <3>1, <3>3, <4>2 DEF SlotOK, AllHash
    <3> QED
      BY <3>2, <3>3
  <2>9. StoreOK' /\ Grows
    BY <1>1, <2>5, <2>6, <2>7, <2>8, DirsKept DEF StoreOK, Grows
  <2>10. /\ u \in Thread /\ u.pc = "creat_mark" /\ u.call = t.call /\ u.cur = t.cur
         /\ u.old = t.old /\ u.new = t.new /\ u.seen = marker /\ u.plan = t.plan /\ u.i = t.i
    <3>1. "creat_mark" \in PCs
      BY DEF PCs
    <3> QED
      BY <1>1, <2>2, <3>1, Zenon DEF Thread
  <2>11. CallOK(u) /\ CreatTarget(u) = CreatTarget(t)
    <3> HIDE DEF u
    <3> QED
      BY <1>1, <2>10 DEF CallOK, Stage, CreatSteps, RenameSteps, CreatTarget
  <2>12. ASSUME NEW v \in Thread, v = u PROVE ThreadOK(v)'
    <3> HIDE DEF u
    <3>1. /\ v.pc = "creat_mark" /\ v.cur < nextDir' /\ v.old < nextDir' /\ v.new < nextDir'
      BY <1>1, <2>10, <2>12 DEF MemoryOK
    <3>2. /\ v.seen \in Entry /\ v.seen.kind = "chain" /\ v.seen.ref = nextBucket
          /\ Last(CreatTarget(v)) = name
      BY <2>2, <2>10, <2>11, <2>12
    <3>3. /\ Len(bucket'[v.seen.ref]) >= 2 /\ v.seen.ref < nextBucket'
          /\ \A i \in 1..Len(bucket'[v.seen.ref]) : Hash[bucket'[v.seen.ref][i].name] = h
      BY <2>1, <2>3, <2>4, <3>2, <1>7
    <3>4. BucketKnown(v)'
      BY <3>1, <3>2, <3>3 DEF BucketKnown, AllHash, CreatTarget
    <3>5. MemoryOK(v)'
      BY <3>1, <3>4 DEF MemoryOK, NodeSteps
    <3>6. CallOK(v)'
      BY <2>11, <2>12 DEF CallOK, Stage
    <3> QED
      BY <3>5, <3>6 DEF ThreadOK
  <2> QED
    BY <1>6, <1>7, <2>9, <2>10, <2>12, StepTo
<1> QED
  BY <1>4, <1>7, Zenon DEF CreatChain

(* The marker is stored under its hash in the table root, or the bucket is *)
(* given up, which no slot has yet.                                        *)
LEMMA CreatMarkOK ==
  ASSUME Inv, scene' = scene, BucketsSerialized, NEW p \in Procs, CreatMark(p)
  PROVE  Inv'
<1> DEFINE t == th[p]
           h == Hash[Last(CreatTarget(t))]
<1>1. /\ t \in Thread /\ CallOK(t) /\ MemoryOK(t) /\ StoreTypeOK /\ StoreOK
      /\ t.pc = "creat_mark" /\ UNCHANGED <<edge, meta, nextDir, nextBucket>>
  BY Actor DEF CreatMark, At
<1>2. h \in Hashes /\ Root \in Dirs /\ Root < nextDir
  BY <1>1, TargetName, RootExists DEF Stage, CreatSteps
<1>3. /\ t.seen \in Entry /\ t.seen.kind = "chain" /\ t.seen.ref < nextBucket
      /\ AllHash(t.seen.ref, h) /\ Len(bucket[t.seen.ref]) >= 2
  BY <1>1 DEF MemoryOK, BucketKnown, ChainSteps
<1>4. PICK b \in Buckets : b = t.seen.ref
  BY <1>3 DEF Entry, FileEntries
<1>5. nextBucket \in Nat /\ nextDir \in Nat /\ \A c \in Buckets : c \in Nat
  BY <1>1, NamespaceAssumption DEF StoreTypeOK, Buckets
<1>6. Private(p)
  BY <1>1, Serial DEF InBuckets
<1>7. ASSUME file[Root][h] = NoEntry, NEW g \in GensAfterInsert(Root),
             gen' = [gen EXCEPT ![Root] = g], bucket' = [bucket EXCEPT ![b] = <<>>],
             Return(p, FALSE), UNCHANGED file
      PROVE  Inv'
  <2>1. gen' \in [Dirs -> Gens] /\ \A x \in Dirs \ {Root} : gen'[x] = gen[x]
    BY <1>1, <1>2, <1>7, GensType DEF StoreTypeOK
  <2>2. /\ bucket' \in [Buckets -> Seq(FileEntries)] /\ bucket'[b] = <<>>
        /\ \A c \in Buckets \ {b} : bucket'[c] = bucket[c]
    BY <1>1, <1>7 DEF StoreTypeOK
  <2>3. StoreTypeOK'
    BY <1>1, <1>7, <2>1, <2>2 DEF StoreTypeOK
  <2>4. DirsGrow /\ MetaKept'
    <3>1. DirsGrow
      BY <1>1, <1>5 DEF DirsGrow
    <3>2. ASSUME NEW x \in Dirs
          PROVE  IF x >= nextDir' THEN gen'[x] = 0
                 ELSE x = Root \/ (meta'[x][0] # NoMeta /\ meta'[x][gen'[x]] # NoMeta)
      <4>1. IF x >= nextDir THEN gen[x] = 0
            ELSE x = Root \/ (meta[x][0] # NoMeta /\ meta[x][gen[x]] # NoMeta)
        BY <1>1 DEF StoreOK, MetaKept
      <4>2. CASE x = Root
        <5>1. ~(x >= nextDir)
          BY <1>2, <1>5, <4>2 DEF Root
        <5> QED
          BY <1>1, <4>2, <5>1
      <4>3. CASE x # Root
        BY <1>1, <2>1, <4>1, <4>3
      <4> QED
        BY <4>2, <4>3
    <3>3. \A x \in Dirs, k \in Hashes :
            edge'[x][k] # NoNode => edge'[x][k].dir \in 1..(nextDir' - 1)
      BY <1>1 DEF StoreOK, MetaKept
    <3> QED
      BY <3>1, <3>2, <3>3 DEF MetaKept
  <2>5. BucketsGrow
    <3>1. ASSUME NEW c \in Buckets, NEW k \in Hashes, AllHash(c, k) PROVE AllHash(c, k)'
      <4>1. CASE c = b
        BY <2>2, <4>1 DEF AllHash
      <4>2. CASE c # b
        BY <2>2, <3>1, <4>2 DEF AllHash
      <4> QED
        BY <4>1, <4>2
    <3> QED
      BY <1>1, <1>5, <3>1 DEF BucketsGrow
  <2>6. BucketsDistinct'
    <3> SUFFICES ASSUME NEW c \in Buckets
                 PROVE  /\ c >= nextBucket' => bucket'[c] = <<>>
                        /\ \A i, j \in 1..Len(bucket'[c]) :
                             i # j => bucket'[c][i].name # bucket'[c][j].name
      BY DEF BucketsDistinct
    <3>1. CASE c = b
      BY <2>2, <3>1
    <3>2. CASE c # b
      BY <1>1, <2>2, <3>2 DEF StoreOK, BucketsDistinct
    <3> QED
      BY <3>1, <3>2
  <2>7. SlotsOK'
    <3> SUFFICES ASSUME NEW d \in Dirs, NEW k \in Hashes, file[d][k] # NoEntry
                 PROVE  SlotOK(d, k, file[d][k])'
      BY <1>7 DEF SlotsOK
    <3>1. SlotOK(d, k, file[d][k]) /\ file[d][k] \in Entry
      BY <1>1 DEF StoreOK, SlotsOK, StoreTypeOK
    <3>2. CASE file[d][k].kind # "chain"
      BY <1>7, <3>1, <3>2 DEF SlotOK
    <3>3. CASE file[d][k].kind = "chain"
      <4>1. /\ file[d][k].ref \in Buckets /\ d = Root
            /\ Len(bucket[file[d][k].ref]) >= 2 /\ AllHash(file[d][k].ref, k)
        BY <3>1, <3>3 DEF Entry, FileEntries, SlotOK
      <4>2. ASSUME file[d][k].ref = b PROVE FALSE
        <5>1. bucket[b] \in Seq(FileEntries) /\ Len(bucket[b]) >= 2
          BY <1>1, <1>3, <1>4 DEF StoreTypeOK
        <5>2. 1 \in 1..Len(bucket[b])
          BY <5>1
        <5>3. k = h
          BY <1>3, <1>4, <4>1, <4>2, <5>2 DEF AllHash
        <5> QED
          BY <1>7, <4>1, <5>3
      <4>3. bucket'[file[d][k].ref] = bucket[file[d][k].ref]
        BY <2>2, <4>1, <4>2
      <4> QED
        BY <1>1, <1>7, <3>1, <3>3, <4>3 DEF SlotOK, AllHash
    <3> QED
      BY <3>2, <3>3
  <2>8. StoreOK' /\ Grows
    BY <2>3, <2>4, <2>5, <2>6, <2>7 DEF StoreOK, Grows
  <2> QED
    BY <1>6, <1>7, <2>8, EndOK, Zenon
<1>8. CASE /\ file' = [file EXCEPT ![Root][h] = t.seen]
           /\ Created(p) /\ UNCHANGED <<gen, bucket>>
  <2>1. /\ file' \in [Dirs -> [Hashes -> Entry \cup {NoEntry}]]
        /\ \A d \in Dirs, g \in Hashes :
             file'[d][g] = IF d = Root /\ g = h THEN t.seen ELSE file[d][g]
    BY <1>1, <1>2, <1>3, <1>8 DEF StoreTypeOK
  <2>2. StoreTypeOK'
    BY <1>1, <1>8, <2>1 DEF StoreTypeOK
  <2>3. SlotsOK'
    <3> SUFFICES ASSUME NEW d \in Dirs, NEW g \in Hashes, file'[d][g] # NoEntry
                 PROVE  SlotOK(d, g, file'[d][g])
      BY <1>1, <1>8 DEF SlotsOK, SlotOK, AllHash
    <3>1. CASE d = Root /\ g = h
      BY <1>3, <2>1, <3>1 DEF SlotOK
    <3>2. CASE ~(d = Root /\ g = h)
      BY <1>1, <2>1, <3>2 DEF StoreOK, SlotsOK
    <3> QED
      BY <3>1, <3>2
  <2>4. BucketsGrow /\ BucketsDistinct'
    BY <1>1, <1>5, <1>8 DEF BucketsGrow, StoreOK, BucketsDistinct, AllHash
  <2>5. StoreOK' /\ Grows
    BY <1>1, <1>8, <2>2, <2>3, <2>4, DirsKept DEF StoreOK, Grows
  <2> QED
    BY <1>1, <1>6, <1>8, <2>5, CreatedOK
<1> QED
  BY <1>4, <1>7, <1>8, Zenon DEF CreatMark

-----------------------------------------------------------------------------
(* Removals                                                                *)

(* The end of the removal of one record.                                   *)
LEMMA RemovedOK ==
  ASSUME Inv, scene' = scene, NEW p \in Procs, th[p].pc = "remove",
         Removed(p), Grows, Private(p), StoreOK'
  PROVE  Inv'
<1> DEFINE t == th[p]
           u == [t EXCEPT !.i = t.i + 1]
<1>1. /\ t \in Thread /\ CallOK(t) /\ StoreTypeOK
      /\ t.old < nextDir /\ t.new < nextDir
  BY Actor
<1>2. /\ t.call \in Call /\ t.call.src # <<>> /\ (t.call.op = "rename" => t.call.dst # <<>>)
      /\ Front(t.call.src) \in Seq(Names) /\ t.i \in Nat
  BY <1>1, SourceName, ThreadFields DEF CallOK, Stage
<1>3. CASE Goto(p, WalkTo(u, Front(t.call.src), "remove"))
  <2>1. u \in Thread /\ u.call = t.call /\ u.old = t.old /\ u.new = t.new
    <3>1. t.i + 1 \in Nat
      BY <1>2
    <3> QED
      BY <1>1, <3>1, Zenon DEF Thread
  <2> HIDE DEF u
  <2>2. MayGo(u, "remove")
    BY <1>2, <2>1 DEF MayGo, Landings, RenameSteps
  <2>3. /\ ThreadOK(WalkTo(u, Front(t.call.src), "remove"))
        /\ WalkTo(u, Front(t.call.src), "remove").pc \notin ChainSteps
    BY <1>1, <1>2, <2>1, <2>2, WalkToOK
  <2> QED
    BY <1>3, <2>3, StepOK
<1>4. CASE Return(p, TRUE)
  BY <1>4, EndOK, Zenon
<1> QED
  BY <1>3, <1>4, Zenon DEF Removed

(* An edge is taken away.                                                  *)
LEMMA DetachKeeps ==
  ASSUME StoreOK, NEW d \in Dirs, NEW h \in Hashes,
         edge' = [edge EXCEPT ![d][h] = NoNode],
         UNCHANGED <<file, gen, meta, nextDir, bucket, nextBucket>>
  PROVE  StoreOK' /\ Grows
<1>1. StoreTypeOK /\ StoreTypeOK' /\ nextDir \in Nat
  BY NamespaceAssumption DEF StoreOK, StoreTypeOK
<1>2. \A x \in Dirs, g \in Hashes : edge'[x][g] # NoNode => edge'[x][g] = edge[x][g]
  BY <1>1 DEF StoreTypeOK
<1>3. MetaKept' /\ DirsGrow
  BY <1>1, <1>2 DEF StoreOK, MetaKept, DirsGrow
<1> QED
  BY <1>1, <1>3, FilesKept DEF StoreOK, Grows

(* remove takes the edge of a directory away.                              *)
LEMMA RemoveDirectoryOK ==
  ASSUME Inv, scene' = scene, NEW p \in Procs, RemoveDirectory(p)
  PROVE  Inv'
<1> DEFINE t == th[p]
           name == Last(t.call.src)
<1>1. /\ t \in Thread /\ CallOK(t) /\ StoreOK /\ t.pc = "remove"
      /\ UNCHANGED <<file, gen, meta, nextDir, bucket, nextBucket>>
  BY Actor DEF RemoveDirectory, At
<1>2. t.cur \in Dirs /\ Hash[name] \in Hashes
  BY <1>1, SourceName, ThreadFields DEF Stage
<1>3. CASE edge' = [edge EXCEPT ![t.cur][Hash[name]] = NoNode] /\ Removed(p)
  <2>1. StoreOK' /\ Grows
    BY <1>1, <1>2, <1>3, DetachKeeps, Zenon
  <2>2. Private(p)
    BY <1>1 DEF Private
  <2> QED
    BY <1>1, <1>3, <2>1, <2>2, RemovedOK, Zenon
<1>4. CASE Return(p, FALSE) /\ UNCHANGED edge
  BY <1>1, <1>4, ReturnOK, Zenon DEF store
<1> QED
  BY <1>3, <1>4, Zenon DEF RemoveDirectory

(* remove clears the slot of a file.                                       *)
LEMMA RemoveFileOK ==
  ASSUME Inv, scene' = scene, NEW p \in Procs, RemoveFile(p)
  PROVE  Inv'
<1> DEFINE t == th[p]
           h == Hash[Last(t.call.src)]
<1>1. /\ t \in Thread /\ CallOK(t) /\ StoreOK /\ StoreTypeOK /\ t.pc = "remove"
      /\ UNCHANGED <<edge, gen, meta, nextDir, bucket, nextBucket>>
  BY Actor DEF RemoveFile, At
<1>2. t.cur \in Dirs /\ h \in Hashes
  BY <1>1, SourceName, ThreadFields DEF Stage
<1>3. CASE file' = [file EXCEPT ![t.cur][h] = NoEntry] /\ Removed(p)
  <2>1. /\ file' \in [Dirs -> [Hashes -> Entry \cup {NoEntry}]]
        /\ \A d \in Dirs, g \in Hashes : file'[d][g] # NoEntry => file'[d][g] = file[d][g]
    BY <1>1, <1>2, <1>3 DEF StoreTypeOK
  <2>2. SlotsOK'
    <3> SUFFICES ASSUME NEW d \in Dirs, NEW g \in Hashes, file'[d][g] # NoEntry
                 PROVE  SlotOK(d, g, file[d][g])'
      BY DEF SlotsOK
    <3>1. SlotOK(d, g, file[d][g]) /\ file'[d][g] = file[d][g]
      BY <1>1, <2>1 DEF StoreOK, SlotsOK
    <3> QED
      BY <1>1, <3>1 DEF SlotOK, AllHash
  <2>3. BucketsGrow /\ BucketsDistinct'
    <3>1. nextBucket \in Nat
      BY <1>1, NamespaceAssumption DEF StoreTypeOK
    <3> QED
      BY <1>1, <3>1 DEF BucketsGrow, StoreOK, BucketsDistinct, AllHash
  <2>4. StoreTypeOK'
    BY <1>1, <2>1 DEF StoreTypeOK
  <2>5. StoreOK' /\ Grows
    BY <1>1, <2>2, <2>3, <2>4, DirsKept DEF StoreOK, Grows
  <2>6. Private(p)
    BY <1>1 DEF Private
  <2> QED
    BY <1>1, <1>3, <2>5, <2>6, RemovedOK
<1>4. CASE Return(p, FALSE) /\ UNCHANGED file
  BY <1>1, <1>4, ReturnOK, Zenon DEF store
<1> QED
  BY <1>3, <1>4, Zenon DEF RemoveFile

(* A file is taken out of its bucket; when one file is left it moves back  *)
(* into the slot, and the bucket is given up together with its marker.     *)
LEMMA RemoveChainedOK ==
  ASSUME Inv, scene' = scene, BucketsSerialized, NEW p \in Procs, RemoveChained(p)
  PROVE  Inv'
<1> DEFINE t == th[p]
           h == Hash[Last(t.call.src)]
           e == file[t.cur][h]
<1>1. /\ t \in Thread /\ CallOK(t) /\ StoreOK /\ StoreTypeOK /\ t.pc = "remove"
      /\ "file" \in Hits(t.cur, h) /\ e.kind = "chain"
      /\ UNCHANGED <<edge, gen, meta, nextDir, nextBucket>>
  BY Actor, Zenon DEF RemoveChained, At
<1>2. t.cur \in Dirs /\ h \in Hashes
  BY <1>1, SourceName, ThreadFields DEF Stage
<1>3. e \in Entry /\ e # NoEntry /\ SlotOK(t.cur, h, e)
  BY <1>1, <1>2 DEF Hits, StoreTypeOK, StoreOK, SlotsOK
<1>4. e.ref \in Buckets
  BY <1>1, <1>3, Zenon DEF Entry, FileEntries
<1>5. PICK b \in Buckets : b = e.ref
  BY <1>4
<1> DEFINE chain == bucket[b]
<1>6. /\ t.cur = Root /\ b < nextBucket /\ Len(chain) >= 2 /\ chain \in Seq(FileEntries)
      /\ \A i \in 1..Len(chain) : Hash[chain[i].name] = h
  BY <1>1, <1>3, <1>5, Zenon DEF SlotOK, AllHash, StoreTypeOK
<1>7. nextBucket \in Nat /\ \A c \in Buckets : c \in Nat
  BY <1>1, NamespaceAssumption DEF StoreTypeOK, Buckets
<1>8. CASE Return(p, FALSE) /\ UNCHANGED <<file, bucket>>
  BY <1>1, <1>8, ReturnOK, Zenon DEF store
<1>9. ASSUME NEW k \in 1..Len(chain),
             bucket' = [bucket EXCEPT ![b] = IF Len(RemoveAt(chain, k)) > 1
                                             THEN RemoveAt(chain, k) ELSE <<>>],
             file' = [file EXCEPT ![t.cur][h] = SlotAfter(RemoveAt(chain, k), e)],
             Removed(p)
      PROVE  Inv'
  <2> DEFINE left == RemoveAt(chain, k)
             kept == IF Len(left) > 1 THEN left ELSE <<>>
             slot == SlotAfter(left, e)
  <2>1. /\ left \in Seq(FileEntries) /\ Len(left) = Len(chain) - 1
        /\ \A i \in 1..(Len(chain) - 1) : left[i] = chain[IF i < k THEN i ELSE i + 1]
    BY <1>6, RemoveAtFacts, Zenon
  <2>2. Len(chain) \in Nat /\ k \in Nat
    BY <1>6
  <2> HIDE DEF chain, left
  <2>3. \A i \in 1..Len(left) : /\ (IF i < k THEN i ELSE i + 1) \in 1..Len(chain)
                                /\ left[i] = chain[IF i < k THEN i ELSE i + 1]
    BY <2>1, <2>2
  <2>4. \A i \in 1..Len(left) : Hash[left[i].name] = h
    BY <1>6, <2>3 DEF chain
  <2>5. \A i, j \in 1..Len(left) : i # j => left[i].name # left[j].name
    <3>1. \A i, j \in 1..Len(chain) : i # j => chain[i].name # chain[j].name
      BY <1>1 DEF StoreOK, BucketsDistinct, chain
    <3> SUFFICES ASSUME NEW i \in 1..Len(left), NEW j \in 1..Len(left), i # j
                 PROVE  left[i].name # left[j].name
      OBVIOUS
    <3>2. (IF i < k THEN i ELSE i + 1) # (IF j < k THEN j ELSE j + 1)
      BY <2>1, <2>2
    <3> QED
      BY <2>3, <3>1, <3>2
  <2>6. /\ kept \in Seq(FileEntries)
        /\ \A i \in 1..Len(kept) : Hash[kept[i].name] = h
        /\ \A i, j \in 1..Len(kept) : i # j => kept[i].name # kept[j].name
    <3>1. CASE Len(left) > 1
      BY <2>1, <2>4, <2>5, <3>1, Zenon
    <3>2. CASE ~(Len(left) > 1)
      <4>1. kept = <<>>
        BY <3>2
      <4> QED
        BY <4>1
    <3> QED
      BY <3>1, <3>2
  <2> HIDE DEF kept, slot, e
  <2>7. \/ slot \in FileEntries /\ slot.kind = "file" /\ Hash[slot.name] = h
        \/ slot = e /\ Len(left) >= 2 /\ kept = left
    <3>1. Len(left) \in Nat /\ Len(left) >= 1
      BY <1>6, <2>1, <2>2 DEF chain
    <3>2. CASE Len(left) = 1
      <4>1. slot = left[1]
        BY <3>2 DEF SlotAfter, slot
      <4>2. 1 \in 1..Len(left)
        BY <3>2
      <4>3. left[1] \in FileEntries /\ Hash[left[1].name] = h
        BY <2>1, <2>4, <4>2
      <4> QED
        BY <4>1, <4>3 DEF FileEntries
    <3>3. CASE Len(left) > 1
      <4>1. Len(left) # 0 /\ Len(left) # 1
        BY <2>1, <3>3
      <4>2. slot = e /\ kept = left
        BY <3>3, <4>1 DEF SlotAfter, slot, kept
      <4> QED
        BY <3>1, <3>3, <4>2
    <3>4. Len(left) = 1 \/ Len(left) > 1
      BY <2>1, <3>1
    <3> QED
      BY <3>2, <3>3, <3>4
  <2>8. /\ bucket' \in [Buckets -> Seq(FileEntries)] /\ bucket'[b] = kept
        /\ \A c \in Buckets \ {b} : bucket'[c] = bucket[c]
    <3>1. bucket' = [bucket EXCEPT ![b] = kept]
      BY <1>9 DEF kept, left
    <3> QED
      BY <1>1, <2>6, <3>1 DEF StoreTypeOK
  <2>9. /\ file' \in [Dirs -> [Hashes -> Entry \cup {NoEntry}]]
        /\ \A d \in Dirs, g \in Hashes :
             file'[d][g] = IF d = t.cur /\ g = h THEN slot ELSE file[d][g]
    <3>1. file' = [file EXCEPT ![t.cur][h] = slot]
      BY <1>9 DEF slot, left
    <3>2. slot \in Entry
      BY <1>3, <2>7 DEF Entry
    <3> QED
      BY <1>1, <1>2, <3>1, <3>2 DEF StoreTypeOK
  <2>10. StoreTypeOK'
    BY <1>1, <2>8, <2>9 DEF StoreTypeOK
  <2>11. \A g \in Hashes : AllHash(b, g) => g = h
    BY <1>6, <2>2 DEF AllHash, chain
  <2>12. BucketsGrow
    <3>1. ASSUME NEW c \in Buckets, NEW g \in Hashes, AllHash(c, g) PROVE AllHash(c, g)'
      <4>1. CASE c = b
        BY <2>6, <2>8, <2>11, <3>1, <4>1 DEF AllHash
      <4>2. CASE c # b
        BY <2>8, <3>1, <4>2 DEF AllHash
      <4> QED
        BY <4>1, <4>2
    <3> QED
      BY <1>1, <1>7, <3>1 DEF BucketsGrow
  <2>13. BucketsDistinct'
    <3> SUFFICES ASSUME NEW c \in Buckets
                 PROVE  /\ c >= nextBucket' => bucket'[c] = <<>>
                        /\ \A i, j \in 1..Len(bucket'[c]) :
                             i # j => bucket'[c][i].name # bucket'[c][j].name
      BY DEF BucketsDistinct
    <3>1. CASE c = b
      <4>1. ~(c >= nextBucket')
        BY <1>1, <1>6, <1>7, <3>1
      <4> QED
        BY <2>6, <2>8, <3>1, <4>1
    <3>2. CASE c # b
      BY <1>1, <2>8, <3>2 DEF StoreOK, BucketsDistinct
    <3> QED
      BY <3>1, <3>2
  <2>14. SlotsOK'
    <3> SUFFICES ASSUME NEW d \in Dirs, NEW g \in Hashes, file'[d][g] # NoEntry
                 PROVE  /\ file'[d][g].kind = "file" => Hash[file'[d][g].name] = g
                        /\ file'[d][g].kind = "chain" =>
                             /\ d = Root /\ file'[d][g].ref < nextBucket'
                             /\ Len(bucket'[file'[d][g].ref]) >= 2
                             /\ \A i \in 1..Len(bucket'[file'[d][g].ref]) :
                                  Hash[bucket'[file'[d][g].ref][i].name] = g
      BY DEF SlotsOK, SlotOK, AllHash
    <3>1. CASE d = t.cur /\ g = h
      <4>1. file'[d][g] = slot
        BY <2>9, <3>1
      <4>2. CASE slot.kind = "file" /\ Hash[slot.name] = h
        BY <3>1, <4>1, <4>2
      <4>3. CASE slot = e /\ Len(left) >= 2 /\ kept = left
        <5>1. file'[d][g].ref = b /\ file'[d][g].kind = "chain"
          BY <1>1, <1>5, <4>1, <4>3
        <5> QED
          BY <1>1, <1>6, <2>4, <2>8, <3>1, <4>3, <5>1
      <4> QED
        BY <2>7, <4>2, <4>3
    <3>2. CASE ~(d = t.cur /\ g = h)
      <4>1. file'[d][g] = file[d][g]
        BY <2>9, <3>2
      <4>2. SlotOK(d, g, file[d][g]) /\ file[d][g] \in Entry
        BY <1>1, <4>1 DEF StoreOK, SlotsOK, StoreTypeOK
      <4>3. CASE file[d][g].kind # "chain"
        BY <4>1, <4>2, <4>3 DEF SlotOK
      <4>4. CASE file[d][g].kind = "chain"
        <5>1. file[d][g].ref \in Buckets /\ d = Root /\ AllHash(file[d][g].ref, g)
          BY <4>2, <4>4 DEF Entry, FileEntries, SlotOK
        <5>2. file[d][g].ref # b
          BY <1>6, <2>11, <3>2, <5>1
        <5>3. bucket'[file[d][g].ref] = bucket[file[d][g].ref]
          BY <2>8, <5>1, <5>2
        <5> QED
          BY <1>1, <4>1, <4>2, <4>4, <5>3 DEF SlotOK, AllHash
      <4> QED
        BY <4>3, <4>4
    <3> QED
      BY <3>1, <3>2
  <2>15. StoreOK' /\ Grows
    BY <1>1, <2>10, <2>12, <2>13, <2>14, DirsKept DEF StoreOK, Grows
  <2>16. Private(p)
    BY <1>1, <1>3, Serial DEF InBuckets, e
  <2> QED
    BY <1>1, <1>9, <2>15, <2>16, RemovedOK
<1> HIDE DEF e, t, h
<1> QED
  BY <1>5, <1>8, <1>9, Zenon DEF RemoveChained, e, t, h

-----------------------------------------------------------------------------
(* Renames of directories                                                  *)

(* attach_existing_layer links a directory that has its directory_meta.    *)
LEMMA RenameAttachOK ==
  ASSUME Inv, scene' = scene, NEW p \in Procs, RenameAttach(p)
  PROVE  Inv'
<1> DEFINE t == th[p]
           h == Hash[Last(t.call.dst)]
           u == [t EXCEPT !.pc = "rename_meta"]
<1>1. /\ t \in Thread /\ CallOK(t) /\ MemoryOK(t) /\ StoreTypeOK /\ StoreOK
      /\ t.pc = "rename_attach" /\ t.new < nextDir
      /\ UNCHANGED <<file, nextDir, bucket, nextBucket>>
  BY Actor DEF RenameAttach, At
<1>2. h \in Hashes /\ t.new \in Dirs
  BY <1>1, DestName, ThreadFields DEF Stage, RenameSteps
<1>3. t.node \in Node /\ t.node.dir \in 1..(nextDir - 1)
  BY <1>1 DEF MemoryOK, NodeSteps, ChainSteps
<1>4. ThreadOK(u)
  BY <1>1, RenamingOK, Zenon DEF NodeSteps
<1>5. CASE Return(p, FALSE) /\ UNCHANGED <<edge, gen, meta>>
  BY <1>1, <1>5, ReturnOK, Zenon DEF store
<1>6. CASE /\ edge' = [edge EXCEPT ![t.new][h] = t.node]
           /\ InsertInto(t.new, meta)
           /\ Goto(p, u)
  <2>1. /\ edge' \in [Dirs -> [Hashes -> Node \cup {NoNode}]]
        /\ \A x \in Dirs, g \in Hashes : edge'[x][g] = edge[x][g] \/ edge'[x][g] = t.node
    BY <1>1, <1>2, <1>3, <1>6 DEF StoreTypeOK
  <2>2. \A x \in Dirs, g \in Hashes :
          edge'[x][g] # NoNode => edge'[x][g].dir \in 1..(nextDir - 1)
    BY <1>1, <1>3, <2>1 DEF StoreOK, MetaKept
  <2>3. /\ gen' \in [Dirs -> Gens] /\ meta' \in MetaType
        /\ DirsGrow /\ MetaKept'
    BY <1>1, <1>2, <1>6, <2>2, InsertKeeps
  <2>4. StoreTypeOK'
    BY <1>1, <2>1, <2>3 DEF StoreTypeOK, MetaType
  <2>5. StoreOK' /\ Grows
    BY <1>1, <2>3, <2>4, FilesKept DEF StoreOK, Grows
  <2>6. bucket' = bucket /\ Private(p)
    BY <1>1 DEF Private
  <2> QED
    BY <1>4, <1>6, <2>5, <2>6, StepOK
<1> QED
  BY <1>5, <1>6, Zenon DEF RenameAttach

(* Rewriting a directory_meta.                                             *)
LEMMA RewriteKeeps ==
  ASSUME StoreOK, NEW n \in Node, meta[n.dir][n.gen] # NoMeta, NEW name \in Names \cup {NoName},
         meta' = [meta EXCEPT ![n.dir][n.gen].name = name],
         UNCHANGED <<edge, file, gen, nextDir, bucket, nextBucket>>
  PROVE  StoreOK' /\ Grows
<1>1. StoreTypeOK /\ nextDir \in Nat
  BY NamespaceAssumption DEF StoreOK, StoreTypeOK
<1>2. n.dir \in Dirs /\ n.gen \in Gens /\ meta[n.dir][n.gen] \in Meta
  BY <1>1 DEF Node, StoreTypeOK
<1> DEFINE m == [meta[n.dir][n.gen] EXCEPT !.name = name]
<1>3. m \in Meta /\ m # NoMeta
  BY <1>2, NamespaceAssumption DEF Meta
<1>4. meta' = [meta EXCEPT ![n.dir][n.gen] = m]
  OBVIOUS
<1> HIDE DEF m
<1>5. /\ meta' \in [Dirs -> [Gens -> Meta \cup {NoMeta}]]
      /\ \A d \in Dirs, g \in Gens : meta[d][g] # NoMeta => meta'[d][g] # NoMeta
  <2>1. meta \in [Dirs -> [Gens -> Meta \cup {NoMeta}]]
    BY <1>1 DEF StoreTypeOK
  <2>2. \A d \in Dirs, g \in Gens :
          meta'[d][g] = IF d = n.dir /\ g = n.gen THEN m ELSE meta[d][g]
    BY <1>2, <1>4, <2>1
  <2>3. meta' \in [Dirs -> [Gens -> Meta \cup {NoMeta}]]
    BY <1>2, <1>3, <1>4, <2>1
  <2> QED
    BY <1>3, <2>2, <2>3
<1>6. StoreTypeOK'
  BY <1>1, <1>5 DEF StoreTypeOK
<1>7. DirsGrow
  <2>1. nextDir <= nextDir'
    BY <1>1
  <2> QED
    BY <1>5, <2>1 DEF DirsGrow
<1>8. MetaKept'
  <2>1. \A d \in Dirs : gen[d] \in Gens
    BY <1>1 DEF StoreTypeOK
  <2> QED
    BY <1>5, <2>1 DEF StoreOK, MetaKept
<1> QED
  BY <1>6, <1>7, <1>8, FilesKept DEF StoreOK, Grows

(* A torn directory_meta is still one.                                     *)
LEMMA RenameMetaBeginOK ==
  ASSUME Inv, scene' = scene, NEW p \in Procs, RenameMetaBegin(p)
  PROVE  Inv'
<1> DEFINE t == th[p]
<1>1. /\ t \in Thread /\ CallOK(t) /\ MemoryOK(t) /\ StoreTypeOK /\ StoreOK
      /\ t.pc = "rename_meta"
  BY Actor DEF RenameMetaBegin, At
<1>2. t.node \in Node /\ meta[t.node.dir][t.node.gen] # NoMeta
  BY <1>1 DEF MemoryOK, NodeSteps, ChainSteps
<1>3. ThreadOK([t EXCEPT !.pc = "rename_meta_end"])
  BY <1>1, RenamingOK, Zenon DEF NodeSteps
<1>4. StoreOK' /\ Grows
  BY <1>1, <1>2, RewriteKeeps, Zenon DEF RenameMetaBegin
<1>5. bucket' = bucket /\ Private(p)
  BY DEF RenameMetaBegin, Private
<1> QED
  BY <1>3, <1>4, <1>5, StepOK DEF RenameMetaBegin

(* The new name is written.                                                *)
LEMMA RenameMetaEndOK ==
  ASSUME Inv, scene' = scene, NEW p \in Procs, RenameMetaEnd(p)
  PROVE  Inv'
<1> DEFINE t == th[p]
<1>1. /\ t \in Thread /\ CallOK(t) /\ MemoryOK(t) /\ StoreTypeOK /\ StoreOK
      /\ t.pc = "rename_meta_end"
  BY Actor DEF RenameMetaEnd, At
<1>2. t.node \in Node /\ meta[t.node.dir][t.node.gen] # NoMeta
  BY <1>1 DEF MemoryOK, NodeSteps, ChainSteps
<1>3. ThreadOK([t EXCEPT !.pc = "rename_detach"])
  BY <1>1, RenamingOK, Zenon DEF NodeSteps
<1>4. Last(t.call.dst) \in Names
  BY <1>1, DestName DEF Stage, RenameSteps
<1>5. StoreOK' /\ Grows
  BY <1>1, <1>2, <1>4, RewriteKeeps, Zenon DEF RenameMetaEnd
<1>6. bucket' = bucket /\ Private(p)
  BY DEF RenameMetaEnd, Private
<1> QED
  BY <1>3, <1>5, <1>6, StepOK DEF RenameMetaEnd

(* remove_layer_edge takes the old edge away, or fails.                    *)
LEMMA RenameDetachOK ==
  ASSUME Inv, scene' = scene, NEW p \in Procs, RenameDetach(p)
  PROVE  Inv'
<1> DEFINE t == th[p]
           h == Hash[Last(t.call.src)]
<1>1. /\ t \in Thread /\ CallOK(t) /\ StoreOK /\ t.pc = "rename_detach"
      /\ UNCHANGED <<file, gen, meta, nextDir, bucket, nextBucket>>
  BY Actor DEF RenameDetach, At
<1>2. t.old \in Dirs /\ h \in Hashes
  BY <1>1, SourceName, ThreadFields DEF Stage
<1>3. CASE edge' = [edge EXCEPT ![t.old][h] = NoNode] /\ Return(p, TRUE)
  <2>1. StoreOK' /\ Grows
    BY <1>1, <1>2, <1>3, DetachKeeps, Zenon
  <2>2. Private(p)
    BY <1>1 DEF Private
  <2> QED
    BY <1>3, <2>1, <2>2, EndOK, Zenon
<1>4. CASE Return(p, FALSE) /\ UNCHANGED edge
  BY <1>1, <1>4, ReturnOK, Zenon DEF store
<1> QED
  BY <1>3, <1>4, Zenon DEF RenameDetach

-----------------------------------------------------------------------------
(* Theorems                                                                *)

(* The empty namespace.                                                    *)
LEMMA InitOK == Init => Inv
<1> SUFFICES ASSUME Init PROVE Inv
  OBVIOUS
<1>1. StoreTypeOK
  <2>1. 1 \in 1..(MaxDirs + 1) /\ 1 \in 1..(MaxBuckets + 1)
    BY NamespaceAssumption
  <2>2. 0 \in Gens
    BY NamespaceAssumption DEF Gens
  <2> QED
    BY <2>1, <2>2 DEF Init, StoreTypeOK
<1>2. MetaKept
  <2>1. \A d \in Dirs : d >= 1 \/ d = Root
    BY NamespaceAssumption DEF Dirs, Root
  <2> QED
    BY <2>1 DEF Init, MetaKept
<1>3. BucketsDistinct /\ SlotsOK
  BY DEF Init, BucketsDistinct, SlotsOK
<1>4. \A p \in Procs : th[p] = Idle
  BY DEF Init
<1>5. TypeOK
  BY <1>1, IdleType DEF Init, TypeOK
<1> QED
  BY <1>1, <1>2, <1>3, <1>4, <1>5, IdleOK DEF Inv, StoreOK

(* Every step of every thread keeps the invariant.                         *)
LEMMA NextOK == Inv /\ BucketsSerialized /\ [Next]_vars => Inv'
<1> SUFFICES ASSUME Inv, BucketsSerialized, [Next]_vars PROVE Inv'
  OBVIOUS
<1>1. CASE UNCHANGED vars
  <2>1. StoreTypeOK' /\ TypeOK'
    BY <1>1 DEF vars, Inv, TypeOK, StoreTypeOK
  <2>2. StoreOK'
    BY <1>1, <2>1, DirsKept, FilesKept DEF vars, Inv, StoreOK
  <2>3. ASSUME NEW p \in Procs PROVE ThreadOK(th[p])'
    BY <1>1 
       DEF vars, Inv, ThreadOK, CallOK, MemoryOK, BucketKnown, Stage, AllHash, CreatTarget,
           NameTaken
  <2> QED
    BY <2>1, <2>2, <2>3 DEF Inv
<1>2. ASSUME NEW p \in Procs, Step(p), scene' = scene
      PROVE  Inv'
  <2>1. CASE StartCall(p) \/ Enter(p) \/ Walk(p)
    BY <1>2, <2>1, StartCallOK, EnterOK, WalkOK
  <2>2. CASE Mkdir(p)
    BY <1>2, <2>2, MkdirProbeOK, MkdirMakeOK DEF Mkdir
  <2>3. CASE Creat(p)
    BY <1>2, <2>3, CreatProbeOK, CreatInsertOK, CreatSearchOK, CreatAppendOK,
       CreatChainOK, CreatMarkOK DEF Creat
  <2>4. CASE RemoveEntry(p)
    BY <1>2, <2>4, RemoveDirectoryOK, RemoveFileOK, RemoveChainedOK, RemoveMissingOK
       DEF RemoveEntry
  <2>5. CASE RenameSource(p)
    BY <1>2, <2>5, RenameSourceOK
  <2>6. CASE RenameDirectory(p)
    BY <1>2, <2>6, RenameOldParentOK, RenameEdgeOK, RenameNameOK, RenameTargetOK,
       RenameAttachOK, RenameMetaBeginOK, RenameMetaEndOK, RenameDetachOK DEF RenameDirectory
  <2>7. CASE RenameFile(p)
    BY <1>2, <2>7, FileTargetOK, FileParentOK, FileScanOK DEF RenameFile
  <2> QED
    BY <1>2, <2>1, <2>2, <2>3, <2>4, <2>5, <2>6, <2>7 DEF Step
<1> QED
  BY <1>1, <1>2 DEF Next

(* The store keeps its invariant whatever the threads call, in whatever    *)
(* order their steps are interleaved, unless two of them use               *)
(* conflict_buckets_ at once.                                              *)
LEMMA StoreInvariant == Spec /\ []BucketsSerialized => []Inv
<1> QED
  BY InitOK, NextOK, PTL DEF Spec

(* Every chain marker is backed: insert_into_conflict_chain and            *)
(* remove_entry keep marker and bucket together, for any number of files   *)
(* with one hash, in any directories, with any calls in progress, if no    *)
(* two threads use conflict_buckets_ at once.  Nothing in the code sees to *)
(* that: with two the map itself is corrupted.                             *)
THEOREM ChainsCorrect == Spec /\ []BucketsSerialized => []ChainsBacked
<1>1. Inv => ChainsBacked
  <2> SUFFICES ASSUME Inv, NEW d \in Dirs, NEW h \in Hashes,
                      file[d][h] # NoEntry, file[d][h].kind = "chain"
               PROVE  LET chain == bucket[file[d][h].ref] IN
                      /\ Len(chain) >= 2
                      /\ \A i, j \in 1..Len(chain) : i # j => chain[i].name # chain[j].name
                      /\ \A i \in 1..Len(chain) : Hash[chain[i].name] = h
    BY DEF ChainsBacked
  <2>1. SlotOK(d, h, file[d][h]) /\ file[d][h] \in Entry
    BY DEF Inv, StoreOK, SlotsOK, TypeOK, StoreTypeOK
  <2>2. file[d][h].ref \in Buckets
    BY <2>1 DEF Entry, FileEntries
  <2> QED
    BY <2>1, <2>2, Zenon DEF Inv, StoreOK, BucketsDistinct, SlotOK, AllHash
<1> QED
  BY <1>1, StoreInvariant, PTL

(* Every layer pointer leads to a directory_meta, whatever splits and      *)
(* renames run side by side: make_split copies it before the new root can  *)
(* be reached, however often a root is replaced, and nothing ever takes it *)
(* away.  (Two threads in conflict_buckets_ could corrupt any memory.)     *)
THEOREM MetaCorrect == Spec /\ []BucketsSerialized => []MetaFound
<1>1. Inv => MetaFound
  <2> SUFFICES ASSUME Inv, NEW d \in Dirs, NEW h \in Hashes, edge[d][h] # NoNode
               PROVE  meta[Canonical(edge[d][h]).dir][Canonical(edge[d][h]).gen] # NoMeta
    BY DEF MetaFound
  <2>1. nextDir \in 1..(MaxDirs + 1) /\ edge[d][h].dir \in 1..(nextDir - 1)
    BY DEF Inv, StoreOK, MetaKept, TypeOK, StoreTypeOK
  <2>2. edge[d][h].dir \in Dirs /\ edge[d][h].dir # Root /\ ~(edge[d][h].dir >= nextDir)
    BY <2>1, NamespaceAssumption DEF Dirs, Root
  <2>3. meta[edge[d][h].dir][gen[edge[d][h].dir]] # NoMeta
    BY <2>2 DEF Inv, StoreOK, MetaKept
  <2> QED
    BY <2>3 DEF Canonical
<1> QED
  BY <1>1, StoreInvariant, PTL
=============================================================================
