----------------------------- MODULE RcuProofs ------------------------------
(***************************************************************************)
(* Epoch-based reclamation is safe for any number of threads and objects   *)
(* and any word size: every object that is unlinked before it is retired   *)
(* outlives its readers, whatever happens to the objects that are retired  *)
(* early.                                                                  *)
(***************************************************************************)
EXTENDS Rcu, SequenceTheorems, TLAPS

(* The entries of a limbo list, as a set.                                  *)
Entries(t) == {limbo[t][i] : i \in 1..Len(limbo[t])}

(* Epoch x was current no later than epoch e.                              *)
NotAfter(x, e) == Age(x) >= Age(e)

(* Every epoch that is compared with another is less than half the word    *)
(* range old, so that the sign of a difference tells which one is older.   *)
Comparable ==
  /\ Age(active_epoch) < Half
  /\ tick.on => Age(tick.ae) < Half
  /\ \A t \in Threads :
       /\ gc[t] # 0 => Age(gc[t]) < Half
       /\ pc[t] = "store" => Age(reg[t]) < Half
       /\ \A x \in Entries(t) : Age(x.epoch) < Half

(* globalepoch is odd, hence never 0, and so is every announced epoch.     *)
Announcing ==
  /\ \E m \in Nat : globalepoch = 2 * m + 1
  /\ \A t \in Threads :
       /\ pc[t] = "store" => reg[t] # 0
       /\ pc[t] \in {"in", "check", "hard", "leave"} => gc[t] # 0
       /\ held[t] # {} => pc[t] = "in"

(* What is retired or freed, and not early, cannot be found any more.      *)
Unreachable ==
  /\ freed \cap linked \subseteq early
  /\ \A t \in Threads :
       /\ todo[t] \cap linked \subseteq early
       /\ \A x \in Entries(t) : x.obj \in linked => x.obj \in early

(* A thread that holds a retired object keeps active_epoch, and the epoch  *)
(* a scan in progress is about to store there, from passing the tag.       *)
Guarded ==
  \A t, s \in Threads : \A x \in Entries(s) :
    x.obj \in held[t] /\ x.obj \notin early =>
      /\ NotAfter(active_epoch, x.epoch)
      /\ NotAfter(gc[t], x.epoch)
      /\ tick.on /\ t \notin tick.left => NotAfter(tick.ae, x.epoch)

IInv == TypeOK /\ Comparable /\ Announcing /\ Unreachable /\ Guarded /\ NoUseAfterFree

-----------------------------------------------------------------------------
(* Sums and differences of words are words.                                *)
LEMMA WordArithmetic ==
  ASSUME NEW a \in Word, NEW b \in Word
  PROVE  Plus(a, b) \in Word /\ Diff(a, b) \in Word /\ Diff(a, a) = 0
BY RcuAssumption DEF Word, Plus, Diff, Span

(* Words are numbers.                                                      *)
LEMMA WordIsNat == \A w \in Word : w \in Nat
BY RcuAssumption DEF Word, Span

(* A tick makes every epoch that stays comparable two units older.         *)
LEMMA AgeAfterTick ==
  ASSUME NEW g \in Word, NEW e \in Word, Diff(g, e) + 2 < Half
  PROVE  Diff(Plus(g, 2), e) = Diff(g, e) + 2
BY RcuAssumption DEF Word, Plus, Diff, Span

(* The signed comparison of the code orders epochs by age.                 *)
LEMMA SignedComparison ==
  ASSUME NEW g \in Word, NEW x \in Word, NEW y \in Word,
         Diff(g, x) < Half, Diff(g, y) < Half
  PROVE  Negative(Diff(x, y)) <=> Diff(g, x) > Diff(g, y)
BY RcuAssumption DEF Word, Diff, Span, Negative

(* hard_rcu_quiesce does not free at an active epoch not after the tag.    *)
LEMMA NotExpired ==
  ASSUME NEW g \in Word, NEW a \in Word, NEW e \in Word,
         Diff(g, a) < Half, Diff(g, e) < Half, Diff(g, a) >= Diff(g, e)
  PROVE  Negative(Diff(Diff(a, 1), e))
BY RcuAssumption DEF Word, Diff, Span, Negative

(* The entries left behind a freed prefix were there before.               *)
LEMMA RestOfSequence ==
  ASSUME NEW S, NEW s \in Seq(S), NEW k \in 0..Len(s)
  PROVE  LET r == SubSeq(s, k + 1, Len(s)) IN
         /\ r \in Seq(S)
         /\ \A i \in 1..Len(r) : \E j \in 1..Len(s) : r[i] = s[j]
<1>1. Len(s) \in Nat /\ \A i \in 1..Len(s) : s[i] \in S
  BY LenProperties, ElementOfSeq
<1>2. k + 1 \in Int /\ Len(s) \in Int /\ \A i \in (k + 1)..Len(s) : s[i] \in S
  BY <1>1
<1>3. /\ SubSeq(s, k + 1, Len(s)) \in Seq(S)
      /\ Len(SubSeq(s, k + 1, Len(s))) = IF k + 1 <= Len(s) THEN Len(s) - (k + 1) + 1 ELSE 0
      /\ \A i \in 1..(Len(s) - (k + 1) + 1) : SubSeq(s, k + 1, Len(s))[i] = s[(k + 1) + i - 1]
  BY <1>2, SubSeqProperties
<1>4. ASSUME NEW i \in 1..Len(SubSeq(s, k + 1, Len(s)))
      PROVE  \E j \in 1..Len(s) : SubSeq(s, k + 1, Len(s))[i] = s[j]
  <2>1. i \in 1..(Len(s) - (k + 1) + 1) /\ (k + 1) + i - 1 \in 1..Len(s)
    BY <1>1, <1>3
  <2>2. QED
    BY <1>3, <2>1
<1>5. QED
  BY <1>3, <1>4

(* The entries after a push_back.                                          *)
LEMMA AppendedSequence ==
  ASSUME NEW S, NEW s \in Seq(S), NEW x \in S
  PROVE  /\ Append(s, x) \in Seq(S)
         /\ \A i \in 1..Len(Append(s, x)) :
              Append(s, x)[i] = x \/ \E j \in 1..Len(s) : Append(s, x)[i] = s[j]
OBVIOUS

-----------------------------------------------------------------------------
(* Types.                                                                  *)
LEMMA TypeStep ==
  ASSUME TypeOK, [Next]_vars
  PROVE  TypeOK'
<1>0. early' = early
  BY DEF Next, vars
<1> USE <1>0, RcuAssumption DEF TypeOK, epochs, heap, locals
<1>1. 0 \in Word /\ 1 \in Word /\ 2 \in Word
  BY DEF Word, Span
<1>2. CASE EpochBegin
  <2>1. globalepoch' \in Word
    BY <1>1, <1>2, WordArithmetic DEF EpochBegin
  <2>2. tick' \in Tick
    BY <1>2, <2>1 DEF EpochBegin, Tick
  <2>3. QED
    BY <1>2, <2>1, <2>2 DEF EpochBegin
<1>3. ASSUME NEW t \in Threads, EpochScan(t)  PROVE TypeOK'
  <2>1. tick' \in Tick
    BY <1>3 DEF EpochScan, Older, Tick
  <2>2. QED
    BY <1>3, <2>1 DEF EpochScan
<1>4. CASE EpochEnd
  <2>1. tick' \in Tick /\ active_epoch' \in Word
    BY <1>1, <1>4 DEF EpochEnd, Tick
  <2>2. QED
    BY <1>4, <2>1 DEF EpochEnd
<1>5. ASSUME NEW t \in Threads, RcuStart(t) \/ RcuQuiesce(t) \/ RcuStop(t)
      PROVE  TypeOK'
  <2>1. "store" \in PCs /\ "check" \in PCs /\ Modes = {"start", "quiesce", "stop"}
    BY DEF PCs, Modes
  <2>2. CASE RcuStart(t)
    BY <2>1, <2>2 DEF RcuStart, LoadEpoch
  <2>3. CASE RcuQuiesce(t)
    BY <2>1, <2>3 DEF RcuQuiesce, LoadEpoch
  <2>4. CASE RcuStop(t)
    BY <2>1, <2>4 DEF RcuStop
  <2>5. QED
    BY <1>5, <2>2, <2>3, <2>4
<1>6. ASSUME NEW t \in Threads, StoreEpoch(t) \/ Check(t) \/ Leave(t)  PROVE TypeOK'
  <2>1. AfterQuiesce(t) \in PCs /\ {"in", "out", "check", "hard"} \subseteq PCs
    BY DEF PCs, AfterQuiesce
  <2>2. CASE StoreEpoch(t)
    BY <1>1, <2>1, <2>2 DEF StoreEpoch
  <2>3. CASE Check(t)
    BY <2>1, <2>3 DEF Check
  <2>4. CASE Leave(t)
    BY <1>1, <2>1, <2>4 DEF Leave
  <2>5. QED
    BY <1>6, <2>2, <2>3, <2>4
<1>7. ASSUME NEW t \in Threads, HardRcuQuiesce(t)  PROVE TypeOK'
  <2>1. PICK k \in 0..Len(limbo[t]) :
          /\ freed' = freed \cup {limbo[t][i].obj : i \in 1..k}
          /\ limbo' = [limbo EXCEPT ![t] = SubSeq(@, k + 1, Len(@))]
          /\ performed' = [performed EXCEPT ![t] =
                              IF k = FreeCount THEN EpochBound ELSE Plus(EpochBound, 1)]
    BY <1>7 DEF HardRcuQuiesce
  <2>2. limbo[t] \in Seq(Tagged) /\ \A i \in 1..k : limbo[t][i] \in Tagged
    BY ElementOfSeq
  <2>3. limbo' \in [Threads -> Seq(Tagged)]
    BY <2>1, <2>2, RestOfSequence
  <2>4. EpochBound \in Word /\ Plus(EpochBound, 1) \in Word
    BY <1>1, WordArithmetic DEF EpochBound
  <2>5. performed' \in [Threads -> Word] /\ freed' \subseteq Objects
    BY <2>1, <2>2, <2>4 DEF Tagged
  <2>6. QED
    BY <1>7, <2>3, <2>5 DEF HardRcuQuiesce, AfterQuiesce, PCs
<1>8. ASSUME NEW t \in Threads, NEW o \in Objects, Read(t, o)  PROVE TypeOK'
  BY <1>8 DEF Read
<1>9. ASSUME NEW t \in Threads, NEW o \in Objects, Replacing(t, o)  PROVE TypeOK'
  <2>1. [obj |-> o, epoch |-> globalepoch] \in Tagged
    BY DEF Tagged
  <2>2. DeallocateRcu(t, o) => limbo' \in [Threads -> Seq(Tagged)]
    BY <2>1, AppendedSequence DEF DeallocateRcu
  <2>3. QED
    BY <1>9, <2>2 DEF Replacing, Unlink, Retire, RetireEarly, UnlinkLate
<1>10. CASE UNCHANGED vars
  BY <1>10 DEF vars
<1>11. QED
  BY <1>2, <1>3, <1>4, <1>5, <1>6, <1>7, <1>8, <1>9, <1>10
     DEF Next, EpochInc, ThreadNext, Quiescing

(* The state of the reclamation scheme is well typed; in particular epochs *)
(* stay machine words.                                                     *)
THEOREM TypeCorrect == Spec => []TypeOK
<1>1. Init => TypeOK
  BY RcuAssumption DEF Init, TypeOK, Word, Span, Tick, PCs, Modes
<1>2. TypeOK /\ [Next]_vars => TypeOK'
  BY TypeStep
<1>3. QED
  BY <1>1, <1>2, PTL DEF Spec

-----------------------------------------------------------------------------
(* Limbo entries are well typed.                                           *)
LEMMA EntriesTyped ==
  ASSUME TypeOK, NEW t \in Threads, NEW x \in Entries(t)
  PROVE  x \in Tagged /\ x.epoch \in Word /\ x.obj \in Objects
<1>1. limbo[t] \in Seq(Tagged)
  BY DEF TypeOK
<1>2. x \in Tagged
  BY <1>1, ElementOfSeq DEF Entries
<1>3. QED
  BY <1>2 DEF Tagged

(* A tick: everything gets older by the same amount.                       *)
LEMMA TickStep ==
  ASSUME IInv, UNCHANGED <<scene, early>>, EpochBegin
  PROVE  IInv'
<1> USE DEF IInv, heap, locals
<1>1. TypeOK'
  BY TypeStep DEF Next, EpochInc
<1>2. \A s \in Threads : Entries(s)' = Entries(s)
  BY DEF EpochBegin, Entries
<1>3. 0 \in Word /\ 2 \in Word /\ globalepoch \in Word /\ globalepoch' = Plus(globalepoch, 2)
  BY RcuAssumption DEF EpochBegin, TypeOK, Word, Span
<1>4. \A e \in Word : Age(e) + 2 < Half => Age(e)' = Age(e) + 2
  BY <1>3, AgeAfterTick DEF Age
<1>5. active_epoch \in Word /\ Age(active_epoch) + 2 < Half
  BY DEF EpochBegin, WithinLag, TypeOK
<1>6. ASSUME NEW t \in Threads, gc[t] # 0  PROVE gc[t] \in Word /\ Age(gc[t]) + 2 < Half
  <2>1. gc[t] \in Word /\ Age(gc[t]) <= MaxLag
    BY <1>6 DEF EpochBegin, WithinLag, Announced, TypeOK
  <2>2. Age(gc[t]) \in Word
    BY <1>3, <2>1, WordArithmetic DEF Age
  <2>3. QED
    BY <2>1, <2>2, RcuAssumption DEF Word
<1>7. ASSUME NEW t \in Threads, pc[t] = "store"  PROVE reg[t] \in Word /\ Age(reg[t]) + 2 < Half
  <2>1. reg[t] \in Word /\ Age(reg[t]) <= MaxLag
    BY <1>7 DEF EpochBegin, WithinLag, Announced, TypeOK
  <2>2. Age(reg[t]) \in Word
    BY <1>3, <2>1, WordArithmetic DEF Age
  <2>3. QED
    BY <2>1, <2>2, RcuAssumption DEF Word
<1>8. ASSUME NEW t \in Threads, NEW x \in Entries(t)
      PROVE  x.epoch \in Word /\ Age(x.epoch) + 2 < Half
  <2>1. x.epoch \in Tags(t)
    BY <1>8 DEF Entries, Tags
  <2>2. QED
    BY <2>1, EntriesTyped DEF EpochBegin, WithinLag
<1>9. tick'.on /\ tick'.left = Threads /\ Age(tick.ae)' = 0
  <2>1. tick'.on /\ tick'.left = Threads /\ tick'.ae = globalepoch' /\ globalepoch' \in Word
    BY <1>1 DEF EpochBegin, TypeOK
  <2>2. QED
    BY <2>1, WordArithmetic DEF Age
<1>10. Age(active_epoch)' = Age(active_epoch) + 2
  BY <1>4, <1>5 DEF EpochBegin, Age
<1>11. \A t \in Threads : gc[t] # 0 => Age(gc[t])' = Age(gc[t]) + 2
  BY <1>4, <1>6 DEF EpochBegin, Age
<1>12. \A t \in Threads : pc[t] = "store" => Age(reg[t])' = Age(reg[t]) + 2
  BY <1>4, <1>7 DEF EpochBegin, Age
<1>13. \A t \in Threads : \A x \in Entries(t) : Age(x.epoch)' = Age(x.epoch) + 2
  BY <1>4, <1>8 DEF EpochBegin, Age
<1>14. UNCHANGED <<active_epoch, gc, performed, limbo, linked, freed, pc, mode, reg, held, todo>>
  BY DEF EpochBegin
<1>15. Comparable'
  BY <1>2, <1>5, <1>6, <1>7, <1>8, <1>9, <1>10, <1>11, <1>12, <1>13, <1>14, RcuAssumption
     DEF Comparable
<1>16. Announcing'
  <2>1. PICK m \in Nat : globalepoch = 2 * m + 1
    BY DEF Announcing
  <2>2. CASE globalepoch + 2 < Span
    <3>1. globalepoch' = 2 * (m + 1) + 1 /\ m + 1 \in Nat
      BY <1>3, <2>1, <2>2 DEF Plus
    <3>2. QED
      BY <1>14, <3>1 DEF Announcing
  <2>3. CASE ~(globalepoch + 2 < Span)
    <3>1. globalepoch' = 2 * (m + 1 - Half) + 1 /\ m + 1 - Half \in Int
      BY <1>3, <2>1, <2>3, RcuAssumption DEF Plus, Span
    <3>2. m + 1 - Half \in Nat
      BY <1>1, <3>1, RcuAssumption DEF TypeOK, Word
    <3>3. QED
      BY <1>14, <3>1, <3>2 DEF Announcing
  <2>4. QED
    BY <2>2, <2>3
<1>17. Unreachable' /\ NoUseAfterFree'
  BY <1>2, <1>14 DEF Unreachable, NoUseAfterFree
<1>18. Guarded'
  <2>1. SUFFICES ASSUME NEW t \in Threads, NEW s \in Threads, NEW x \in Entries(s),
                        x.obj \in held[t], x.obj \notin early
                 PROVE  /\ Age(active_epoch)' >= Age(x.epoch)'
                        /\ Age(gc[t])' >= Age(x.epoch)'
    BY <1>2, <1>9, <1>14 DEF Guarded, NotAfter
  <2>2. gc[t] # 0
    BY <2>1 DEF Announcing
  <2>3. Age(active_epoch) >= Age(x.epoch) /\ Age(gc[t]) >= Age(x.epoch)
    BY <2>1 DEF Guarded, NotAfter
  <2>4. Age(active_epoch) \in Word /\ Age(gc[t]) \in Word /\ Age(x.epoch) \in Word
    BY <1>3, <1>5, <1>6, <1>8, <2>2, WordArithmetic DEF Age
  <2>5. QED
    BY <1>10, <1>11, <1>13, <2>2, <2>3, <2>4 DEF Word
<1>19. QED
  BY <1>1, <1>15, <1>16, <1>17, <1>18

(* min_active_epoch looks at one thread: the result so far gets no newer,  *)
(* and not newer than what that thread announced.                          *)
LEMMA ScanStep ==
  ASSUME IInv, UNCHANGED <<scene, early>>, NEW t \in Threads, EpochScan(t)
  PROVE  IInv'
<1> USE DEF IInv, heap, locals
<1>1. TypeOK'
  BY TypeStep DEF Next, EpochInc
<1>2. UNCHANGED <<globalepoch, active_epoch, gc, performed, limbo, linked, freed,
                  pc, mode, reg, held, todo>>
  BY DEF EpochScan
<1>3. \A s \in Threads : Entries(s)' = Entries(s)
  BY <1>2 DEF Entries
<1>4. globalepoch \in Word /\ tick \in Tick /\ tick.ae \in Word /\ gc[t] \in Word
  BY DEF TypeOK, Tick
<1>5. /\ tick.on /\ tick'.on
      /\ tick'.left = tick.left \ {t}
      /\ tick'.ae = IF gc[t] # 0 /\ Negative(Diff(gc[t], tick.ae)) THEN gc[t] ELSE tick.ae
  BY DEF EpochScan, Older
<1>6. Age(tick.ae) < Half /\ (gc[t] # 0 => Age(gc[t]) < Half)
  BY <1>5 DEF Comparable
<1>7. Age(tick.ae) \in Nat /\ Age(gc[t]) \in Nat /\ Age(tick.ae)' = Diff(globalepoch, tick'.ae)
  BY <1>2, <1>4, WordArithmetic, WordIsNat DEF Age
<1>8. gc[t] # 0 => (Negative(Diff(gc[t], tick.ae)) <=> Age(gc[t]) > Age(tick.ae))
  BY <1>4, <1>6, SignedComparison DEF Age
<1>9. /\ Age(tick.ae)' >= Age(tick.ae)
      /\ gc[t] # 0 => Age(tick.ae)' >= Age(gc[t])
      /\ Age(tick.ae)' < Half
  BY <1>5, <1>6, <1>7, <1>8 DEF Age
<1>10. Comparable'
  BY <1>2, <1>3, <1>9 DEF Comparable, Age
<1>11. Announcing' /\ Unreachable' /\ NoUseAfterFree'
  BY <1>2, <1>3 DEF Announcing, Unreachable, NoUseAfterFree
<1>12. Guarded'
  <2>1. SUFFICES ASSUME NEW r \in Threads, NEW s \in Threads, NEW x \in Entries(s),
                        x.obj \in held[r], x.obj \notin early, r \notin tick'.left
                 PROVE  Age(tick.ae)' >= Age(x.epoch)
    BY <1>2, <1>3 DEF Guarded, NotAfter, Age
  <2>2. Age(x.epoch) \in Nat
    BY <1>4, EntriesTyped, WordArithmetic, WordIsNat DEF Age
  <2>3. Age(tick.ae)' \in Nat
    <3>1. tick'.ae \in Word
      BY <1>1 DEF TypeOK, Tick
    <3>2. QED
      BY <1>4, <1>7, <3>1, WordArithmetic, WordIsNat
  <2>4. CASE r = t
    <3>1. gc[t] # 0 /\ Age(gc[t]) >= Age(x.epoch)
      BY <2>1, <2>4 DEF Guarded, NotAfter, Announcing
    <3>2. QED
      BY <1>7, <1>9, <2>2, <2>3, <3>1
  <2>5. CASE r # t
    <3>1. r \notin tick.left
      BY <1>5, <2>1, <2>5
    <3>2. Age(tick.ae) >= Age(x.epoch)
      BY <1>5, <2>1, <3>1 DEF Guarded, NotAfter
    <3>3. QED
      BY <1>7, <1>9, <2>2, <2>3, <3>2
  <2>6. QED
    BY <2>4, <2>5
<1>13. QED
  BY <1>1, <1>10, <1>11, <1>12

(* The scan is over: its result becomes active_epoch.                      *)
LEMMA ScanEnd ==
  ASSUME IInv, UNCHANGED <<scene, early>>, EpochEnd
  PROVE  IInv'
<1> USE DEF IInv, heap, locals
<1>1. TypeOK'
  BY TypeStep DEF Next, EpochInc
<1>2. UNCHANGED <<globalepoch, gc, performed, limbo, linked, freed, pc, mode, reg, held, todo>>
  BY DEF EpochEnd
<1>3. \A s \in Threads : Entries(s)' = Entries(s)
  BY <1>2 DEF Entries
<1>4. tick.on /\ tick.left = {} /\ ~tick'.on /\ active_epoch' = tick.ae
  BY DEF EpochEnd
<1>5. Comparable'
  BY <1>2, <1>3, <1>4 DEF Comparable, Age
<1>6. Announcing' /\ Unreachable' /\ NoUseAfterFree'
  BY <1>2, <1>3 DEF Announcing, Unreachable, NoUseAfterFree
<1>7. Guarded'
  BY <1>2, <1>3, <1>4 DEF Guarded, NotAfter, Age
<1>8. QED
  BY <1>1, <1>5, <1>6, <1>7

(* Steps that neither free nor retire anything and only drop pointers.     *)
LEMMA AnnounceStep ==
  ASSUME IInv, UNCHANGED <<scene, early>>, NEW t \in Threads,
         RcuStart(t) \/ RcuQuiesce(t) \/ RcuStop(t) \/ StoreEpoch(t) \/ Check(t) \/ Leave(t)
  PROVE  IInv'
<1> USE DEF IInv, heap, locals, epochs
<1>1. TypeOK'
  BY TypeStep DEF Next, ThreadNext, Quiescing
<1>2. UNCHANGED <<globalepoch, active_epoch, tick, limbo, linked, freed, todo>>
  BY DEF RcuStart, RcuQuiesce, RcuStop, StoreEpoch, Check, Leave
<1>3. \A s \in Threads : Entries(s)' = Entries(s)
  BY <1>2 DEF Entries
<1>4. globalepoch \in Word /\ globalepoch # 0 /\ Age(globalepoch) = 0 /\ 0 < Half
  <2>1. globalepoch # 0
    BY DEF Announcing
  <2>2. QED
    BY <2>1, WordArithmetic, RcuAssumption DEF TypeOK, Age
<1>5. \A r \in Threads \ {t} :
        pc'[r] = pc[r] /\ gc'[r] = gc[r] /\ reg'[r] = reg[r] /\ held'[r] = held[r]
  BY DEF RcuStart, RcuQuiesce, RcuStop, StoreEpoch, Check, Leave, LoadEpoch, TypeOK
<1>6. /\ held'[t] = IF pc'[t] = "in" /\ pc[t] = "in" THEN held[t] ELSE {}
      /\ pc'[t] = "store" => reg'[t] = globalepoch
      /\ pc'[t] \in {"in", "check", "hard", "leave"} => gc'[t] # 0
      /\ gc'[t] # 0 => gc'[t] = gc[t] \/ (pc[t] = "store" /\ gc'[t] = reg[t])
  <2>1. pc[t] # "in" => held[t] = {}
    BY DEF Announcing
  <2>2. CASE RcuStart(t)
    BY <2>1, <2>2 DEF RcuStart, LoadEpoch, TypeOK
  <2>3. CASE RcuQuiesce(t)
    BY <2>1, <2>3 DEF RcuQuiesce, LoadEpoch, TypeOK
  <2>4. CASE RcuStop(t)
    BY <2>1, <2>4 DEF RcuStop, TypeOK, Announcing
  <2>5. CASE StoreEpoch(t)
    BY <2>1, <2>5 DEF StoreEpoch, TypeOK, Announcing
  <2>6. CASE Check(t)
    BY <2>1, <2>6 DEF Check, AfterQuiesce, TypeOK, Announcing
  <2>7. CASE Leave(t)
    BY <2>1, <2>7 DEF Leave, TypeOK, Announcing
  <2>8. QED
    BY <2>2, <2>3, <2>4, <2>5, <2>6, <2>7
<1>7. Comparable'
  <2>1. Age(active_epoch)' < Half /\ (tick'.on => Age(tick.ae)' < Half)
    BY <1>2 DEF Comparable, Age
  <2>2. ASSUME NEW r \in Threads
        PROVE  /\ gc'[r] # 0 => Diff(globalepoch, gc'[r]) < Half
               /\ pc'[r] = "store" => Diff(globalepoch, reg'[r]) < Half
    BY <1>4, <1>5, <1>6 DEF Comparable, Age
  <2>3. QED
    BY <1>2, <1>3, <2>1, <2>2 DEF Comparable, Age
<1>8. Announcing'
  BY <1>2, <1>4, <1>5, <1>6 DEF Announcing
<1>9. Unreachable'
  BY <1>2, <1>3 DEF Unreachable
<1>10. NoUseAfterFree'
  BY <1>2, <1>5, <1>6 DEF NoUseAfterFree
<1>11. Guarded'
  <2>1. SUFFICES ASSUME NEW r \in Threads, NEW s \in Threads, NEW x \in Entries(s),
                        x.obj \in held'[r], x.obj \notin early
                 PROVE  /\ Diff(globalepoch, active_epoch) >= Diff(globalepoch, x.epoch)
                        /\ Diff(globalepoch, gc'[r]) >= Diff(globalepoch, x.epoch)
                        /\ tick.on /\ r \notin tick.left
                           => Diff(globalepoch, tick.ae) >= Diff(globalepoch, x.epoch)
    BY <1>2, <1>3 DEF Guarded, NotAfter, Age
  <2>2. held'[r] = held[r] /\ gc'[r] = gc[r]
    BY <1>5, <1>6, <2>1
  <2>3. QED
    BY <2>1, <2>2 DEF Guarded, NotAfter, Age
<1>12. QED
  BY <1>1, <1>7, <1>8, <1>9, <1>10, <1>11

(* hard_rcu_quiesce frees a prefix of the limbo list, and no entry of that *)
(* prefix is held: its tag is behind active_epoch.                         *)
LEMMA FreeStep ==
  ASSUME IInv, UNCHANGED <<scene, early>>, NEW t \in Threads, HardRcuQuiesce(t)
  PROVE  IInv'
<1> USE DEF IInv, heap, locals, epochs
<1>1. TypeOK'
  BY TypeStep DEF Next, ThreadNext, Quiescing
<1>2. UNCHANGED <<globalepoch, active_epoch, tick, gc, linked, mode, reg, held, todo>>
  BY DEF HardRcuQuiesce
<1>3. PICK k \in 0..Len(limbo[t]) :
        /\ Cleans(t, k)
        /\ freed' = freed \cup {limbo[t][i].obj : i \in 1..k}
        /\ limbo' = [limbo EXCEPT ![t] = SubSeq(@, k + 1, Len(@))]
  BY DEF HardRcuQuiesce
<1>4. limbo[t] \in Seq(Tagged) /\ Len(limbo[t]) \in Nat /\ k \in Nat /\ k <= Len(limbo[t])
  BY LenProperties DEF TypeOK
<1>5. \A s \in Threads : Entries(s)' \subseteq Entries(s)
  <2>1. ASSUME NEW s \in Threads, s # t  PROVE Entries(s)' = Entries(s)
    BY <1>3, <2>1 DEF Entries, TypeOK
  <2>2. limbo'[t] = SubSeq(limbo[t], k + 1, Len(limbo[t]))
    BY <1>3 DEF TypeOK
  <2>3. Entries(t)' \subseteq Entries(t)
    BY <1>4, <2>2, RestOfSequence DEF Entries
  <2>4. QED
    BY <2>1, <2>3
<1>6. ASSUME NEW i \in 1..k, NEW r \in Threads, limbo[t][i].obj \in held[r],
             limbo[t][i].obj \notin early
      PROVE  FALSE
  <2>1. limbo[t][i] \in Entries(t)
    BY <1>4 DEF Entries
  <2>2. limbo[t][i].epoch \in Word /\ globalepoch \in Word /\ active_epoch \in Word
    BY <2>1, EntriesTyped DEF TypeOK
  <2>3. /\ Age(active_epoch) >= Age(limbo[t][i].epoch)
        /\ Age(active_epoch) < Half /\ Age(limbo[t][i].epoch) < Half
    BY <1>6, <2>1 DEF Guarded, NotAfter, Comparable
  <2>4. Negative(Diff(Diff(active_epoch, 1), limbo[t][i].epoch))
    BY <2>2, <2>3, NotExpired DEF Age
  <2>5. ~Negative(Diff(Diff(active_epoch, 1), limbo[t][i].epoch))
    BY <1>3 DEF Cleans, Expired, EpochBound
  <2>6. QED
    BY <2>4, <2>5
<1>7. pc'[t] \in {"in", "leave"} /\ pc[t] = "hard" /\ \A r \in Threads \ {t} : pc'[r] = pc[r]
  BY DEF HardRcuQuiesce, AfterQuiesce, TypeOK
<1>8. Comparable'
  BY <1>2, <1>5, <1>7 DEF Comparable, Age
<1>9. Announcing'
  BY <1>2, <1>7 DEF Announcing
<1>10. Unreachable'
  <2>1. \A i \in 1..k : limbo[t][i].obj \in linked => limbo[t][i].obj \in early
    BY <1>4 DEF Unreachable, Entries
  <2>2. QED
    BY <1>2, <1>3, <1>5, <2>1 DEF Unreachable
<1>11. Guarded'
  BY <1>2, <1>5 DEF Guarded, NotAfter, Age
<1>12. NoUseAfterFree'
  BY <1>2, <1>3, <1>6 DEF NoUseAfterFree
<1>13. QED
  BY <1>1, <1>8, <1>9, <1>10, <1>11, <1>12

(* A reader gets pointers to linked objects only, and those are neither    *)
(* retired nor freed.                                                      *)
LEMMA ReadStep ==
  ASSUME IInv, UNCHANGED <<scene, early>>, NEW t \in Threads, NEW o \in Objects, Read(t, o)
  PROVE  IInv'
<1> USE DEF IInv, heap, locals, epochs
<1>1. TypeOK'
  BY TypeStep DEF Next, ThreadNext
<1>2. UNCHANGED <<globalepoch, active_epoch, tick, gc, limbo, linked, freed, pc, reg, todo>>
  BY DEF Read
<1>3. \A s \in Threads : Entries(s)' = Entries(s)
  BY <1>2 DEF Entries
<1>4. o \in linked /\ pc[t] = "in" /\ held'[t] = held[t] \cup {o}
      /\ \A r \in Threads \ {t} : held'[r] = held[r]
  BY DEF Read, TypeOK
<1>5. Comparable' /\ Unreachable'
  BY <1>2, <1>3 DEF Comparable, Unreachable, Age
<1>6. Announcing'
  BY <1>2, <1>4 DEF Announcing
<1>7. NoUseAfterFree'
  BY <1>2, <1>4 DEF NoUseAfterFree, Unreachable
<1>8. Guarded'
  <2>1. \A s \in Threads : \A x \in Entries(s) : x.obj = o => o \in early
    BY <1>4 DEF Unreachable
  <2>2. \A r \in Threads : \A s \in Threads : \A x \in Entries(s) :
          x.obj \in held'[r] /\ x.obj \notin early => x.obj \in held[r]
    BY <1>4, <2>1
  <2>3. QED
    BY <1>2, <1>3, <2>2 DEF Guarded, NotAfter, Age
<1>9. QED
  BY <1>1, <1>5, <1>6, <1>7, <1>8

(* An object leaves the tree and goes to the limbo list with the present   *)
(* epoch: no announced or active epoch is after that one.                  *)
LEMMA ReplaceStep ==
  ASSUME IInv, UNCHANGED <<scene, early>>, NEW t \in Threads, NEW o \in Objects, Replacing(t, o)
  PROVE  IInv'
<1> USE DEF IInv, heap, locals, epochs
<1>1. TypeOK'
  BY TypeStep DEF Next, ThreadNext
<1>2. CASE Unlink(t, o) \/ UnlinkLate(t, o)
  <2>1. UNCHANGED <<globalepoch, active_epoch, tick, gc, limbo, freed, pc, reg, held>>
    BY <1>2 DEF Unlink, UnlinkLate
  <2>2. \A s \in Threads : Entries(s)' = Entries(s)
    BY <2>1 DEF Entries
  <2>3. linked' = linked \ {o} /\ \A s \in Threads : todo'[s] \subseteq todo[s] \cup {o}
    BY <1>2 DEF Unlink, UnlinkLate, TypeOK
  <2>4. Comparable' /\ Announcing' /\ NoUseAfterFree' /\ Guarded'
    BY <2>1, <2>2 DEF Comparable, Announcing, NoUseAfterFree, Guarded, NotAfter, Age
  <2>5. Unreachable'
    BY <2>1, <2>2, <2>3 DEF Unreachable
  <2>6. QED
    BY <1>1, <2>4, <2>5
<1>3. CASE Retire(t, o) \/ RetireEarly(t, o)
  <2> DEFINE new == [obj |-> o, epoch |-> globalepoch]
  <2>1. UNCHANGED <<globalepoch, active_epoch, tick, gc, linked, freed, pc, reg, held>>
    BY <1>3 DEF Retire, RetireEarly
  <2>2. (o \in linked => o \in early) /\ \A s \in Threads : todo'[s] \cap linked \subseteq early
    <3>1. CASE Retire(t, o)
      BY <3>1 DEF Retire, TypeOK, Unreachable
    <3>2. CASE RetireEarly(t, o)
      BY <3>2 DEF RetireEarly, TypeOK, Unreachable
    <3>3. QED
      BY <1>3, <3>1, <3>2
  <2>3. \A s \in Threads : Entries(s)' \subseteq Entries(s) \cup {new}
    <3>1. limbo' = [limbo EXCEPT ![t] = Append(@, new)]
      BY <1>3 DEF Retire, RetireEarly, DeallocateRcu
    <3>2. ASSUME NEW s \in Threads, s # t  PROVE Entries(s)' = Entries(s)
      BY <3>1, <3>2 DEF Entries, TypeOK
    <3>3. limbo'[t] = Append(limbo[t], new) /\ limbo[t] \in Seq(Tagged) /\ new \in Tagged
      BY <3>1 DEF TypeOK, Tagged
    <3>4. \A i \in 1..Len(limbo'[t]) :
            limbo'[t][i] = new \/ \E j \in 1..Len(limbo[t]) : limbo'[t][i] = limbo[t][j]
      BY <3>3, AppendedSequence
    <3>5. Entries(t)' \subseteq Entries(t) \cup {new}
      BY <3>4 DEF Entries
    <3>6. QED
      BY <3>2, <3>5
  <2>4. new.obj = o /\ new.epoch = globalepoch /\ Age(new.epoch) = 0 /\ 0 < Half
    BY WordArithmetic, RcuAssumption DEF TypeOK, Age
  <2>5. /\ Age(active_epoch) >= 0 /\ Age(tick.ae) >= 0
        /\ \A r \in Threads : Age(gc[r]) >= 0
    <3>1. globalepoch \in Word /\ active_epoch \in Word /\ tick.ae \in Word
          /\ \A r \in Threads : gc[r] \in Word
      BY DEF TypeOK, Tick
    <3>2. QED
      BY <3>1, WordArithmetic, WordIsNat DEF Age
  <2>6. Comparable'
    BY <2>1, <2>3, <2>4 DEF Comparable, Age
  <2>7. Announcing' /\ NoUseAfterFree'
    BY <2>1 DEF Announcing, NoUseAfterFree
  <2>8. Unreachable'
    BY <2>1, <2>2, <2>3, <2>4 DEF Unreachable
  <2>9. Guarded'
    <3>1. SUFFICES ASSUME NEW r \in Threads, NEW s \in Threads, NEW x \in Entries(s) \cup {new},
                          x.obj \in held[r], x.obj \notin early
                   PROVE  /\ Age(active_epoch) >= Age(x.epoch)
                          /\ Age(gc[r]) >= Age(x.epoch)
                          /\ tick.on /\ r \notin tick.left => Age(tick.ae) >= Age(x.epoch)
      BY <2>1, <2>3 DEF Guarded, NotAfter, Age
    <3>2. CASE x = new
      BY <2>4, <2>5, <3>2
    <3>3. CASE x \in Entries(s)
      BY <3>1, <3>3 DEF Guarded, NotAfter
    <3>4. QED
      BY <3>2, <3>3
  <2>10. QED
    BY <1>1, <2>6, <2>7, <2>8, <2>9
<1>4. QED
  BY <1>2, <1>3 DEF Replacing

(* No thread ever has a pointer to a freed object that was unlinked before *)
(* it was retired (hard_rcu_quiesce, rcu_start, epochinc).                 *)
THEOREM ReclamationSafe == Spec => []NoUseAfterFree
<1>1. Init => IInv
  <2>1. ASSUME Init  PROVE IInv
    <3>1. TypeOK
      BY <2>1, RcuAssumption DEF Init, TypeOK, Word, Span, Tick, PCs, Modes
    <3>2. \A t \in Threads : Entries(t) = {}
      BY <2>1 DEF Init, Entries
    <3>3. Comparable
      BY <2>1, <3>2, RcuAssumption DEF Init, Comparable, Age, Diff
    <3>4. Announcing
      <4>1. globalepoch = 2 * 0 + 1 /\ 0 \in Nat
        BY <2>1 DEF Init
      <4>2. QED
        BY <2>1, <4>1 DEF Init, Announcing
    <3>5. Unreachable /\ Guarded /\ NoUseAfterFree
      BY <2>1, <3>2 DEF Init, Unreachable, Guarded, NoUseAfterFree
    <3>6. QED
      BY <3>1, <3>3, <3>4, <3>5 DEF IInv
  <2>2. QED
    BY <2>1
<1>2. IInv /\ [Next]_vars => IInv'
  <2>1. ASSUME IInv, UNCHANGED vars  PROVE IInv'
    <3>1. TypeOK'
      BY <2>1, TypeStep DEF IInv
    <3>2. /\ UNCHANGED <<globalepoch, active_epoch, tick, gc, limbo, linked, freed>>
          /\ UNCHANGED <<pc, reg, held, todo, early>>
      BY <2>1 DEF vars
    <3>3. \A t \in Threads : Entries(t)' = Entries(t)
      BY <3>2 DEF Entries
    <3>4. Comparable' /\ Announcing'
      BY <2>1, <3>2, <3>3 DEF IInv, Comparable, Announcing, Age
    <3>5. Unreachable' /\ Guarded' /\ NoUseAfterFree'
      BY <2>1, <3>2, <3>3 DEF IInv, Unreachable, Guarded, NoUseAfterFree, NotAfter, Age
    <3>6. QED
      BY <3>1, <3>4, <3>5 DEF IInv
  <2>2. ASSUME IInv, EpochInc, UNCHANGED <<scene, early>>  PROVE IInv'
    BY <2>2, TickStep, ScanStep, ScanEnd DEF EpochInc
  <2>3. ASSUME IInv, NEW t \in Threads, ThreadNext(t), UNCHANGED <<scene, early>>  PROVE IInv'
    <3>1. CASE RcuStart(t) \/ RcuQuiesce(t) \/ RcuStop(t) \/ StoreEpoch(t) \/ Check(t) \/ Leave(t)
      BY <2>3, <3>1, AnnounceStep
    <3>2. CASE HardRcuQuiesce(t)
      BY <2>3, <3>2, FreeStep
    <3>3. ASSUME NEW o \in Objects, Read(t, o)  PROVE IInv'
      BY <2>3, <3>3, ReadStep
    <3>4. ASSUME NEW o \in Objects, Replacing(t, o)  PROVE IInv'
      BY <2>3, <3>4, ReplaceStep
    <3>5. QED
      BY <2>3, <3>1, <3>2, <3>3, <3>4 DEF ThreadNext, Quiescing
  <2>4. QED
    BY <2>1, <2>2, <2>3 DEF Next
<1>3. IInv => NoUseAfterFree
  BY DEF IInv
<1>4. QED
  BY <1>1, <1>2, <1>3, PTL DEF Spec
=============================================================================
