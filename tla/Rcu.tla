-------------------------------- MODULE Rcu ---------------------------------
(***************************************************************************)
(* Epoch-based reclamation (src/kvthread.hh, src/kvthread.cc, epochinc in  *)
(* src/mtd.cc).  A thread announces the global epoch while it works on the *)
(* tree (gc_epoch_, 0 between operations); a retired object is tagged with *)
(* the global epoch and freed once active_epoch, the smallest epoch that   *)
(* was announced at the last tick, has passed the tag.                     *)
(*                                                                         *)
(* Epochs are machine words.  Span stands for 2^64: additions wrap and     *)
(* comparisons look at the sign of a difference.  globalepoch starts at 1  *)
(* and moves by 2, so that it never becomes 0.                             *)
(***************************************************************************)
EXTENDS Integers, Sequences, FiniteSets

CONSTANTS
  Threads,     \* threads on the allthreads list
  Writers,     \* those that retire objects
  Stoppers,    \* those that end operations with rcu_stop (the server)
  Quiescers,   \* those that call rcu_quiesce in between (the benchmark)
  Objects,     \* nodes, suffix bags and rows that can be retired, once each
  Half,        \* half of Span
  MaxLag,      \* bound: how far an announced epoch may be behind at a tick
  FreeCount,   \* rcu_free_count
  Scenes       \* the situations a run goes through: the objects in the tree
               \* (objects), those of them that are retired before they are
               \* unlinked (early), and the threads without requests (idle)

Span == 2 * Half

ASSUME RcuAssumption ==
  /\ Half \in Nat /\ MaxLag \in Nat /\ MaxLag + 4 <= Half
  /\ FreeCount \in Nat \ {0}
  /\ Writers \cup Stoppers \cup Quiescers \subseteq Threads
  /\ \A x \in Scenes : x.objects \subseteq Objects /\ x.early \subseteq Objects

VARIABLES
  globalepoch,
  active_epoch,
  tick,        \* the min_active_epoch() scan of the epochinc in progress
  gc,          \* [Threads -> Word]: gc_epoch_
  performed,   \* [Threads -> Word]: perform_gc_epoch_
  limbo,       \* [Threads -> sequence of retired objects and their tags]
  linked,      \* objects a reader can reach from the tree
  freed,
  pc, mode,    \* where each thread is, and in which of the rcu_ functions
  reg,         \* [Threads -> Word]: the globalepoch it loaded
  held,        \* [Threads -> objects it has pointers to]
  todo,        \* [Threads -> objects it has half retired]
  scene,       \* the member of Scenes
  early        \* objects whose owner retires them while readers can still
               \* find them (remove_leaf, apply_replace, apply_remove); the
               \* others are unlinked first (apply_put, assign_ksuf)

epochs == <<globalepoch, active_epoch, tick>>
heap == <<limbo, linked, freed>>
locals == <<pc, mode, reg, held, todo>>
vars == <<globalepoch, active_epoch, tick, gc, performed, limbo, linked, freed,
          pc, mode, reg, held, todo, scene, early>>

Word == 0..(Span - 1)
Tagged == [obj : Objects, epoch : Word]
Tick == [on : BOOLEAN, left : SUBSET Threads, ae : Word]

(* "out" of any operation, "store" after loading globalepoch, "in" an      *)
(* operation, "check" and "hard" in rcu_quiesce or rcu_stop, "leave".      *)
PCs == {"out", "store", "in", "check", "hard", "leave"}
Modes == {"start", "quiesce", "stop"}

(***************************************************************************)
(* Words.                                                                  *)
(***************************************************************************)
(* Mutant: sums do not wrap.                                               *)
MutPlus(a, b) == a + b
Plus(a, b) == IF a + b < Span THEN a + b ELSE a + b - Span
Diff(a, b) == IF a >= b THEN a - b ELSE a - b + Span
Negative(a) == a >= Half               \* mrcu_signed_epoch_type(a) < 0

(* Bounds: at a tick no announced epoch is more than MaxLag old, and no     *)
(* epoch that is still compared lags half the word range behind.           *)
Age(e) == Diff(globalepoch, e)
Announced ==
  {gc[t] : t \in {x \in Threads : gc[x] # 0}}
  \cup {reg[t] : t \in {x \in Threads : pc[x] = "store"}}
Tags(t) == {limbo[t][i].epoch : i \in 1..Len(limbo[t])}
WithinLag ==
  /\ \A e \in Announced : Age(e) <= MaxLag
  /\ \A e \in {active_epoch} \cup UNION {Tags(t) : t \in Threads} : Age(e) + 2 < Half

(***************************************************************************)
(* epochinc: the timer signal.  min_active_epoch reads one thread's        *)
(* gc_epoch_ after another.                                                *)
(***************************************************************************)
EpochBegin ==
  /\ ~tick.on
  /\ WithinLag
  /\ globalepoch' = Plus(globalepoch, 2)
  /\ tick' = [on |-> TRUE, left |-> Threads, ae |-> globalepoch']
  /\ UNCHANGED <<active_epoch, gc, performed, heap, locals>>

(* Mutant: a thread outside any operation holds the epoch at 0.            *)
MutOlder(te, ae) == IF Negative(Diff(te, ae)) THEN te ELSE ae

(* The epoch te a thread announced, if it announced one that is older.     *)
Older(te, ae) == IF te # 0 /\ Negative(Diff(te, ae)) THEN te ELSE ae

EpochScan(t) ==
  /\ tick.on /\ t \in tick.left
  /\ tick' = [on |-> TRUE, left |-> tick.left \ {t}, ae |-> Older(gc[t], tick.ae)]
  /\ UNCHANGED <<globalepoch, active_epoch, gc, performed, heap, locals>>

EpochEnd ==
  /\ tick.on /\ tick.left = {}
  /\ active_epoch' = tick.ae
  /\ tick' = [on |-> FALSE, left |-> {}, ae |-> 0]
  /\ UNCHANGED <<globalepoch, gc, performed, heap, locals>>

(***************************************************************************)
(* rcu_start, rcu_quiesce, rcu_stop.  The load of globalepoch and the      *)
(* store to gc_epoch_ are two steps.  An operation has dropped its         *)
(* pointers and finished its retirements when it calls the last two.       *)
(***************************************************************************)
LoadEpoch(t, m) ==
  /\ pc' = [pc EXCEPT ![t] = "store"]
  /\ mode' = [mode EXCEPT ![t] = m]
  /\ reg' = [reg EXCEPT ![t] = globalepoch]

RcuStart(t) ==
  /\ pc[t] = "out" /\ t \notin scene.idle
  /\ LoadEpoch(t, "start")
  /\ UNCHANGED <<epochs, gc, performed, heap, held, todo>>

RcuQuiesce(t) ==
  /\ t \in Quiescers /\ pc[t] = "in" /\ todo[t] = {}
  /\ LoadEpoch(t, "quiesce")
  /\ held' = [held EXCEPT ![t] = {}]
  /\ UNCHANGED <<epochs, gc, performed, heap, todo>>

StoreEpoch(t) ==
  /\ pc[t] = "store"
  /\ gc' = [gc EXCEPT ![t] = reg[t]]
  /\ reg' = [reg EXCEPT ![t] = 0]
  /\ pc' = [pc EXCEPT ![t] = IF mode[t] = "start" THEN "in" ELSE "check"]
  /\ UNCHANGED <<epochs, performed, heap, mode, held, todo>>

RcuStop(t) ==
  /\ t \in Stoppers /\ pc[t] = "in" /\ todo[t] = {}
  /\ pc' = [pc EXCEPT ![t] = "check"]
  /\ mode' = [mode EXCEPT ![t] = "stop"]
  /\ held' = [held EXCEPT ![t] = {}]
  /\ UNCHANGED <<epochs, gc, performed, heap, reg, todo>>

AfterQuiesce(t) == IF mode[t] = "stop" THEN "leave" ELSE "in"

Check(t) ==
  /\ pc[t] = "check"
  /\ pc' = [pc EXCEPT ![t] =
               IF performed[t] # active_epoch THEN "hard" ELSE AfterQuiesce(t)]
  /\ UNCHANGED <<epochs, gc, performed, heap, mode, reg, held, todo>>

(* Mutant: what was retired in the active epoch itself is freed.           *)
MutEpochBound == active_epoch

(* hard_rcu_quiesce frees from the head of the limbo list while the tags   *)
(* are not above the bound, FreeCount objects at most.                     *)
EpochBound == Diff(active_epoch, 1)

Expired(t, k) == \A i \in 1..k : ~Negative(Diff(EpochBound, limbo[t][i].epoch))

Cleans(t, k) ==
  /\ k <= FreeCount
  /\ Expired(t, k)
  /\ \A j \in (k + 1)..Len(limbo[t]) : j > FreeCount \/ ~Expired(t, j)

HardRcuQuiesce(t) ==
  /\ pc[t] = "hard"
  /\ \E k \in 0..Len(limbo[t]) :
       /\ Cleans(t, k)
       /\ freed' = freed \cup {limbo[t][i].obj : i \in 1..k}
       /\ limbo' = [limbo EXCEPT ![t] = SubSeq(@, k + 1, Len(@))]
       /\ performed' = [performed EXCEPT ![t] =
                           IF k = FreeCount THEN EpochBound ELSE Plus(EpochBound, 1)]
  /\ pc' = [pc EXCEPT ![t] = AfterQuiesce(t)]
  /\ UNCHANGED <<epochs, gc, linked, mode, reg, held, todo>>

Leave(t) ==
  /\ pc[t] = "leave"
  /\ gc' = [gc EXCEPT ![t] = 0]
  /\ pc' = [pc EXCEPT ![t] = "out"]
  /\ UNCHANGED <<epochs, performed, heap, mode, reg, held, todo>>

(***************************************************************************)
(* What operations on the tree do with objects.                            *)
(***************************************************************************)
Read(t, o) ==
  /\ pc[t] = "in" /\ o \in linked
  /\ held' = [held EXCEPT ![t] = @ \cup {o}]
  /\ UNCHANGED <<epochs, gc, performed, heap, pc, mode, reg, todo>>

(* deallocate_rcu: record_rcu puts the object on the thread's limbo list.  *)
DeallocateRcu(t, o) ==
  limbo' = [limbo EXCEPT ![t] = Append(@, [obj |-> o, epoch |-> globalepoch])]

(* An object is taken out of the tree under its owner's lock: by one       *)
(* thread, once.                                                           *)
MayTake(t, o) ==
  /\ t \in Writers /\ pc[t] = "in"
  /\ o \in linked /\ \A x \in Threads : o \notin todo[x]

Unlink(t, o) ==
  /\ MayTake(t, o) /\ o \notin early
  /\ linked' = linked \ {o}
  /\ todo' = [todo EXCEPT ![t] = @ \cup {o}]
  /\ UNCHANGED <<epochs, gc, performed, limbo, freed, pc, mode, reg, held>>

Retire(t, o) ==
  /\ o \in todo[t] /\ o \notin early
  /\ DeallocateRcu(t, o)
  /\ todo' = [todo EXCEPT ![t] = @ \ {o}]
  /\ UNCHANGED <<epochs, gc, performed, linked, freed, pc, mode, reg, held>>

RetireEarly(t, o) ==
  /\ MayTake(t, o) /\ o \in early
  /\ DeallocateRcu(t, o)
  /\ todo' = [todo EXCEPT ![t] = @ \cup {o}]
  /\ UNCHANGED <<epochs, gc, performed, linked, freed, pc, mode, reg, held>>

UnlinkLate(t, o) ==
  /\ o \in todo[t] /\ o \in early
  /\ linked' = linked \ {o}
  /\ todo' = [todo EXCEPT ![t] = @ \ {o}]
  /\ UNCHANGED <<epochs, gc, performed, limbo, freed, pc, mode, reg, held>>

-----------------------------------------------------------------------------
Init ==
  /\ globalepoch = 1
  /\ active_epoch = 1
  /\ tick = [on |-> FALSE, left |-> {}, ae |-> 0]
  /\ gc = [t \in Threads |-> 0]
  /\ performed = [t \in Threads |-> 0]
  /\ limbo = [t \in Threads |-> <<>>]
  /\ freed = {}
  /\ pc = [t \in Threads |-> "out"]
  /\ mode = [t \in Threads |-> "start"]
  /\ reg = [t \in Threads |-> 0]
  /\ held = [t \in Threads |-> {}]
  /\ todo = [t \in Threads |-> {}]
  /\ scene \in Scenes /\ linked = scene.objects /\ early = scene.early

EpochInc == EpochBegin \/ (\E t \in Threads : EpochScan(t)) \/ EpochEnd

Quiescing(t) ==
  StoreEpoch(t) \/ Check(t) \/ HardRcuQuiesce(t) \/ Leave(t)

Replacing(t, o) ==
  Unlink(t, o) \/ Retire(t, o) \/ RetireEarly(t, o) \/ UnlinkLate(t, o)

ThreadNext(t) ==
  \/ RcuStart(t) \/ RcuQuiesce(t) \/ RcuStop(t) \/ Quiescing(t)
  \/ \E o \in Objects : Read(t, o) \/ Replacing(t, o)

Next ==
  /\ EpochInc \/ \E t \in Threads : ThreadNext(t)
  /\ UNCHANGED <<scene, early>>

Spec == Init /\ [][Next]_vars

(* The timer keeps ticking (setitimer in main), an operation finishes its  *)
(* retirements and calls rcu_stop or rcu_quiesce, and requests keep coming *)
(* to the threads that are not idle.                                       *)
Keeping(step) == step /\ UNCHANGED <<scene, early>>

Fairness ==
  /\ WF_vars(Keeping(EpochInc))
  /\ \A t \in Threads :
       /\ WF_vars(Keeping(Quiescing(t)))
       /\ WF_vars(Keeping(RcuStart(t)))
       /\ WF_vars(Keeping(RcuStop(t) \/ RcuQuiesce(t)))
       /\ WF_vars(Keeping(\E o \in Objects : Retire(t, o) \/ UnlinkLate(t, o)))

FairSpec == Spec /\ Fairness

(***************************************************************************)
(* Properties.                                                             *)
(***************************************************************************)

(* Types of all variables; in particular every epoch is a machine word     *)
(* (mrcu_epoch_type).                                                      *)
TypeOK ==
  /\ globalepoch \in Word
  /\ active_epoch \in Word
  /\ tick \in Tick
  /\ gc \in [Threads -> Word]
  /\ performed \in [Threads -> Word]
  /\ limbo \in [Threads -> Seq(Tagged)]
  /\ linked \subseteq Objects
  /\ freed \subseteq Objects
  /\ pc \in [Threads -> PCs]
  /\ mode \in [Threads -> Modes]
  /\ reg \in [Threads -> Word]
  /\ held \in [Threads -> SUBSET Objects]
  /\ todo \in [Threads -> SUBSET Objects]
  /\ early \subseteq Objects

(* No thread has a pointer to a freed object that was unlinked before it   *)
(* was retired: hard_rcu_quiesce never frees what a reader that started    *)
(* before the retirement may still look at, whatever the order of epoch    *)
(* loads, stores and scans, also when the epoch wraps, and whatever other  *)
(* objects are retired early.  (It does free objects of `early` while a    *)
(* reader holds them.)                                                     *)
NoUseAfterFree == \A t \in Threads : held[t] \cap freed \subseteq early

(* What has been taken out of the tree is freed in the end, although       *)
(* hard_rcu_quiesce stops after FreeCount objects, which may leave some    *)
(* that have expired for the next call, and runs only if active_epoch has  *)
(* moved since it last finished.  Objects go out once each, so there is    *)
(* always a later moment at which none is left.                            *)
Gone(o) == o \notin linked /\ \A t \in Threads : o \notin todo[t]
EventuallyFreed == []<>(\A o \in scene.objects : Gone(o) => o \in freed)
=============================================================================
