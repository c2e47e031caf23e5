------------------------- MODULE StringStoreProofs --------------------------
(***************************************************************************)
(* Strings have value semantics and their blocks are counted exactly, for  *)
(* any number of Strings and blocks and any capacities.                    *)
(*                                                                         *)
(* The operators of StringStore pass through intermediate memories, in     *)
(* which a String may hold a memo twice or not at all.  So the lemmas      *)
(* about them speak of a memory and of counts that say how often each      *)
(* block is held (Owns); what the Strings hold is put in at the end.       *)
(***************************************************************************)
EXTENDS StringStore, SequenceTheorems, FiniteSetTheorems, TLAPS

Bytes8 == Seq(Int)
Pointers == BlockIds \cup {Static}
RepType == [base : Pointers, text : Bytes8, at : Nat, len : Nat, held : BOOLEAN]
HeapType == [BlockIds -> [ref : Nat, cap : Nat, data : Bytes8]]
AccumType == [block : Pointers, len : Nat, cap : Nat]
CountType == [BlockIds -> Nat]

(* Counts with one holder more or less.                                    *)
Holds(r, b) == r.held /\ r.base = b
Plus(cnt, r) == [b \in BlockIds |-> IF Holds(r, b) THEN cnt[b] + 1 ELSE cnt[b]]
Minus(cnt, r) == [b \in BlockIds |-> IF Holds(r, b) THEN cnt[b] - 1 ELSE cnt[b]]

(* Block b is held cnt[b] times, and A are the blocks of accumulators.     *)
Owns(h, cnt, A) ==
  /\ h \in HeapType /\ cnt \in CountType
  /\ \A b \in BlockIds :
       /\ h[b].cap > 0 <=> cnt[b] > 0 \/ b \in A
       /\ b \in A => cnt[b] = 0
       /\ b \notin A => h[b].ref = cnt[b]

(* What is written stays: bytes are only added behind it.                  *)
Extends(d, e) == Len(d) <= Len(e) /\ \A i \in 1..Len(d) : e[i] = d[i]

(* From h to g every block that someone else holds keeps its bytes.        *)
Frame(h, g, cnt, A) ==
  \A b \in BlockIds : cnt[b] > 0 \/ b \in A => Extends(h[b].data, g[b].data)

(* A representation that can be read: of text that lasts, or of bytes that *)
(* were written to its memo.                                               *)
Source(h, r) == IF r.base = Static THEN r.text ELSE h[r.base].data
InRange(h, r) == r.at + r.len <= Len(Source(h, r))
Good(h, r) == r \in RepType /\ (r.held <=> r.base # Static) /\ InRange(h, r)

(* An operation that takes the place of a holder, cnt counting the others, *)
(* ends with memory o.h and representation o.r of the text: blocks are     *)
(* counted exactly and nobody else's bytes change.                         *)
Makes(h, o, cnt, A, text) ==
  /\ Owns(o.h, Plus(cnt, o.r), A) /\ cnt \in CountType
  /\ Frame(h, o.h, cnt, A)
  /\ Good(o.h, o.r) /\ Bytes(o.h, o.r) = text

(* The representation is one of the counted holders.                       *)
Counted(cnt, r) == r.held => r.base \in BlockIds /\ cnt[r.base] > 0

-----------------------------------------------------------------------------
(* Bytes                                                                   *)

(* A function on 1..n is a sequence.                                       *)
LEMMA FunctionSeq ==
  ASSUME NEW n \in Nat, NEW f \in [1..n -> Int]
  PROVE  f \in Bytes8 /\ Len(f) = n
BY SeqDef DEF Bytes8

(* Part gives as many bytes as asked for, Junk past the end.               *)
LEMMA PartBytes ==
  ASSUME NEW s \in Bytes8, NEW at \in Nat, NEW len \in Nat
  PROVE  /\ Part(s, at, len) \in Bytes8 /\ Len(Part(s, at, len)) = len
         /\ \A i \in 1..len : Part(s, at, len)[i] = IF at + i <= Len(s) THEN s[at + i] ELSE Junk
<1>1. \A i \in 1..len : (IF at + i <= Len(s) THEN s[at + i] ELSE Junk) \in Int
  BY DEF Bytes8, Junk
<1>2. Part(s, at, len) \in [1..len -> Int]
  BY <1>1 DEF Part
<1> QED
  BY <1>2, FunctionSeq DEF Part

(* Write gives the bytes written, and around them what was there.          *)
LEMMA WriteBytes ==
  ASSUME NEW s \in Bytes8, NEW at \in Nat, NEW bytes \in Bytes8
  PROVE  /\ Write(s, at, bytes) \in Bytes8
         /\ Len(Write(s, at, bytes)) = IF at + Len(bytes) > Len(s) THEN at + Len(bytes) ELSE Len(s)
         /\ \A i \in 1..Len(Write(s, at, bytes)) : Write(s, at, bytes)[i] =
              IF i > at /\ i <= at + Len(bytes) THEN bytes[i - at]
              ELSE IF i <= Len(s) THEN s[i] ELSE Junk
<1> DEFINE n == IF at + Len(bytes) > Len(s) THEN at + Len(bytes) ELSE Len(s)
           e(i) == IF i > at /\ i <= at + Len(bytes) THEN bytes[i - at]
                   ELSE IF i <= Len(s) THEN s[i] ELSE Junk
<1>1. n \in Nat
  BY DEF Bytes8
<1>2. \A i \in 1..n : e(i) \in Int
  BY DEF Bytes8, Junk
<1>3. Write(s, at, bytes) = [i \in 1..n |-> e(i)]
  BY DEF Write
<1>4. Write(s, at, bytes) \in [1..n -> Int]
  BY <1>2, <1>3
<1>5. Write(s, at, bytes) \in Bytes8 /\ Len(Write(s, at, bytes)) = n
  BY <1>1, <1>4, FunctionSeq
<1> QED
  BY <1>3, <1>5

(* A part within what is written is the same when bytes were added.        *)
LEMMA PartExtends ==
  ASSUME NEW d \in Bytes8, NEW e \in Bytes8, Extends(d, e),
         NEW at \in Nat, NEW len \in Nat, at + len <= Len(d)
  PROVE  Part(e, at, len) = Part(d, at, len)
<1>1. Len(d) \in Nat /\ Len(e) \in Nat /\ Len(d) <= Len(e)
  BY DEF Extends, Bytes8
<1>2. \A i \in 1..len : at + i \in 1..Len(d) /\ at + i <= Len(d) /\ at + i <= Len(e)
  BY <1>1
<1>3. \A i \in 1..len : e[at + i] = d[at + i]
  BY <1>2 DEF Extends
<1> QED
  BY <1>2, <1>3 DEF Part

(* A representation reads a sequence of bytes of its length.               *)
LEMMA BytesOfRep ==
  ASSUME NEW h \in HeapType, NEW r \in RepType
  PROVE  /\ Source(h, r) \in Bytes8
         /\ Bytes(h, r) = Part(Source(h, r), r.at, r.len)
         /\ Bytes(h, r) \in Bytes8 /\ Len(Bytes(h, r)) = r.len
<1>1. Source(h, r) \in Bytes8
  BY DEF HeapType, RepType, Source, Pointers
<1>2. Bytes(h, r) = Part(Source(h, r), r.at, r.len)
  BY DEF Bytes, Source
<1> QED
  BY <1>1, <1>2, PartBytes DEF RepType

(* What a representation reads does not change in a frame.                 *)
LEMMA BytesFramed ==
  ASSUME NEW h \in HeapType, NEW g \in HeapType, NEW r \in RepType, InRange(h, r),
         r.base = Static \/ Extends(h[r.base].data, g[r.base].data)
  PROVE  Bytes(g, r) = Bytes(h, r) /\ InRange(g, r)
<1>1. CASE r.base = Static
  BY <1>1 DEF Bytes, InRange, Source
<1>2. CASE r.base # Static
  <2>1. h[r.base].data \in Bytes8 /\ g[r.base].data \in Bytes8
    BY <1>2 DEF HeapType, RepType, Pointers
  <2>2. r.at \in Nat /\ r.len \in Nat /\ r.at + r.len <= Len(h[r.base].data)
    BY <1>2 DEF InRange, Source, RepType
  <2>3. Bytes(g, r) = Bytes(h, r)
    BY <1>2, <2>1, <2>2, PartExtends DEF Bytes
  <2>4. r.at + r.len <= Len(g[r.base].data)
    BY <1>2, <2>1, <2>2 DEF Extends, Bytes8
  <2> QED
    BY <1>2, <2>3, <2>4 DEF InRange, Source
<1> QED
  BY <1>1, <1>2

(* Bytes extend themselves.                                                *)
LEMMA ExtendsSelf ==
  ASSUME NEW d \in Bytes8
  PROVE  Extends(d, d)
BY DEF Extends, Bytes8

(* Adding bytes twice is adding bytes.                                     *)
LEMMA ExtendsTrans ==
  ASSUME NEW d \in Bytes8, NEW e \in Bytes8, NEW f \in Bytes8, Extends(d, e), Extends(e, f)
  PROVE  Extends(d, f)
BY DEF Extends, Bytes8

(* Bytes written behind the end are only added.                            *)
LEMMA WriteExtends ==
  ASSUME NEW s \in Bytes8, NEW at \in Nat, NEW bytes \in Bytes8, Len(s) <= at
  PROVE  Extends(s, Write(s, at, bytes))
BY WriteBytes DEF Extends, Bytes8

-----------------------------------------------------------------------------
(* Counts and memos                                                        *)

LEMMA CountsTyped ==
  ASSUME NEW cnt \in CountType, NEW r \in RepType
  PROVE  /\ Plus(cnt, r) \in CountType
         /\ Counted(cnt, r) => Minus(cnt, r) \in CountType
         /\ (r.held => r.base # Static) => Counted(Plus(cnt, r), r)
         /\ Minus(Plus(cnt, r), r) = cnt
<1>1. r.held \in BOOLEAN
  BY DEF RepType
<1>2. \A b \in BlockIds : cnt[b] \in Nat
  BY DEF CountType
<1>3. Plus(cnt, r) \in CountType
  BY <1>2 DEF Plus, CountType
<1>4. Counted(cnt, r) => Minus(cnt, r) \in CountType
  BY <1>2 DEF Minus, CountType, Counted, Holds
<1>5. Minus(Plus(cnt, r), r) = cnt
  BY <1>2 DEF Minus, Plus, CountType
<1>6. (r.held => r.base # Static) => Counted(Plus(cnt, r), r)
  BY <1>2 DEF Plus, Counted, Holds, RepType, Pointers
<1> QED
  BY <1>3, <1>4, <1>5, <1>6

(* The order of holders that come and go does not matter.                  *)
LEMMA CountsCommute ==
  ASSUME NEW cnt \in CountType, NEW r \in RepType, NEW s \in RepType
  PROVE  /\ Plus(Plus(cnt, r), s) = Plus(Plus(cnt, s), r)
         /\ Counted(cnt, r) => Minus(Plus(cnt, s), r) = Plus(Minus(cnt, r), s)
<1>1. \A b \in BlockIds : cnt[b] \in Nat
  BY DEF CountType
<1> QED
  BY <1>1 DEF Plus, Minus, Counted, Holds

(* memo_type::incref by someone who holds the memo.                        *)
LEMMA RefMemoOwns ==
  ASSUME NEW h, NEW cnt, NEW A \in SUBSET BlockIds, Owns(h, cnt, A),
         NEW r \in RepType, Counted(cnt, r)
  PROVE  /\ Owns(RefMemo(h, r), Plus(cnt, r), A)
         /\ \A b \in BlockIds : /\ RefMemo(h, r)[b].data = h[b].data
                                /\ RefMemo(h, r)[b].cap = h[b].cap
<1> DEFINE g == RefMemo(h, r)
<1>1. h \in HeapType /\ cnt \in CountType
  BY DEF Owns
<1>2. CASE ~r.held
  <2>1. g = h /\ Plus(cnt, r) = cnt
    BY <1>1, <1>2 DEF RefMemo, Plus, Holds, CountType
  <2> QED
    BY <2>1
<1>3. CASE r.held
  <2>1. r.base \in BlockIds /\ cnt[r.base] > 0 /\ r.base \notin A
    BY <1>3 DEF Counted, Owns, CountType
  <2>2. g = [h EXCEPT ![r.base].ref = @ + 1]
    BY <1>3 DEF RefMemo
  <2>3. g \in HeapType
    BY <1>1, <2>1, <2>2 DEF HeapType
  <2>4. \A b \in BlockIds : /\ g[b].data = h[b].data /\ g[b].cap = h[b].cap
                            /\ b # r.base => g[b].ref = h[b].ref
                            /\ b = r.base => g[b].ref = h[b].ref + 1
    BY <1>1, <2>1, <2>2 DEF HeapType
  <2>5. Plus(cnt, r) \in CountType
    BY <1>1, CountsTyped
  <2>6. \A b \in BlockIds : Plus(cnt, r)[b] = IF b = r.base THEN cnt[b] + 1 ELSE cnt[b]
    BY <1>3 DEF Plus, Holds
  <2> QED
    BY <1>1, <2>1, <2>3, <2>4, <2>5, <2>6 DEF Owns, CountType
<1> QED
  BY <1>2, <1>3

(* memo_type::decref and delete_memo by a holder: who else holds the memo  *)
(* does not notice.                                                        *)
LEMMA DerefMemoOwns ==
  ASSUME NEW h, NEW cnt, NEW A \in SUBSET BlockIds, Owns(h, cnt, A),
         NEW r \in RepType, Counted(cnt, r)
  PROVE  /\ Owns(DerefMemo(h, r), Minus(cnt, r), A)
         /\ \A b \in BlockIds : Minus(cnt, r)[b] > 0 \/ b \in A =>
                                 DerefMemo(h, r)[b].data = h[b].data
         /\ FreeBlocks(h) \subseteq FreeBlocks(DerefMemo(h, r))
         /\ \A b \in BlockIds : Len(DerefMemo(h, r)[b].data) <= Len(h[b].data)
<1> DEFINE g == DerefMemo(h, r)
<1>1. h \in HeapType /\ cnt \in CountType
  BY DEF Owns
<1>2. \A b \in BlockIds : Len(h[b].data) \in Nat
  BY <1>1 DEF HeapType, Bytes8
<1>3. CASE ~r.held
  <2>1. g = h /\ Minus(cnt, r) = cnt
    BY <1>1, <1>3 DEF DerefMemo, Minus, Holds, CountType
  <2> QED
    BY <1>2, <2>1
<1>4. CASE r.held
  <2>1. r.base \in BlockIds /\ cnt[r.base] > 0 /\ r.base \notin A /\ h[r.base].ref = cnt[r.base]
    BY <1>4 DEF Counted, Owns, CountType
  <2>2. Minus(cnt, r) \in CountType
    BY <1>1, CountsTyped
  <2>3. \A b \in BlockIds : Minus(cnt, r)[b] = IF b = r.base THEN cnt[b] - 1 ELSE cnt[b]
    BY <1>4 DEF Minus, Holds
  <2>4. CASE h[r.base].ref = 1
    <3>1. g = [h EXCEPT ![r.base] = NoBlock]
      BY <1>4, <2>4 DEF DerefMemo
    <3>2. NoBlock \in [ref : Nat, cap : Nat, data : Bytes8] /\ NoBlock.cap = 0 /\ NoBlock.ref = 0
          /\ Len(NoBlock.data) = 0
      BY DEF NoBlock, Bytes8
    <3>3. g \in HeapType
      BY <1>1, <3>1, <3>2 DEF HeapType
    <3>4. \A b \in BlockIds : g[b] = IF b = r.base THEN NoBlock ELSE h[b]
      BY <1>1, <3>1 DEF HeapType
    <3>5. Owns(g, Minus(cnt, r), A)
      BY <2>1, <2>2, <2>3, <2>4, <3>2, <3>3, <3>4 DEF Owns, CountType
    <3>6. Minus(cnt, r)[r.base] = 0
      <4>1. cnt[r.base] = 1
        BY <2>1, <2>4
      <4> QED
        BY <2>1, <2>3, <4>1
    <3>7. FreeBlocks(h) \subseteq FreeBlocks(g)
      BY <3>2, <3>4 DEF FreeBlocks
    <3> QED
      BY <1>2, <2>1, <3>2, <3>4, <3>5, <3>6, <3>7
  <2>5. CASE h[r.base].ref # 1
    <3>1. g = [h EXCEPT ![r.base].ref = @ - 1]
      BY <1>4, <2>5 DEF DerefMemo
    <3>2. h[r.base].ref \in Nat /\ h[r.base].ref - 1 \in Nat /\ h[r.base].ref - 1 > 0
      BY <1>1, <2>1, <2>5 DEF HeapType
    <3>3. g \in HeapType
      BY <1>1, <2>1, <3>1, <3>2 DEF HeapType
    <3>4. \A b \in BlockIds : /\ g[b].data = h[b].data /\ g[b].cap = h[b].cap
                              /\ b # r.base => g[b].ref = h[b].ref
                              /\ b = r.base => g[b].ref = h[b].ref - 1
      BY <1>1, <2>1, <3>1 DEF HeapType
    <3>5. Owns(g, Minus(cnt, r), A)
      BY <1>1, <2>1, <2>2, <2>3, <3>2, <3>3, <3>4 DEF Owns, CountType
    <3> QED
      BY <1>2, <3>4, <3>5 DEF FreeBlocks
  <2> QED
    BY <2>4, <2>5
<1> QED
  BY <1>3, <1>4

(* memo_type::create in a free block.                                      *)
LEMMA CreateMemoMakes ==
  ASSUME NEW h, NEW cnt, NEW A \in SUBSET BlockIds, Owns(h, cnt, A), FreeBlocks(h) # {},
         NEW bytes \in Bytes8, NEW cap \in Nat, cap > 0
  PROVE  /\ Makes(h, CreateMemo(h, bytes, cap), cnt, A, bytes)
         /\ NewBlock(h) \in BlockIds /\ cnt[NewBlock(h)] = 0 /\ NewBlock(h) \notin A
         /\ CreateMemo(h, bytes, cap).r = Rep(NewBlock(h), <<>>, 0, Len(bytes), TRUE)
         /\ CreateMemo(h, bytes, cap).h[NewBlock(h)].data = bytes
         /\ \A b \in BlockIds : b # NewBlock(h) => CreateMemo(h, bytes, cap).h[b] = h[b]
<1> DEFINE n == NewBlock(h)
           new == [ref |-> 1, cap |-> cap, data |-> bytes]
           o == CreateMemo(h, bytes, cap)
           g == [h EXCEPT ![n] = new]
           r == Rep(n, <<>>, 0, Len(bytes), TRUE)
<1>1. h \in HeapType /\ cnt \in CountType
  BY DEF Owns
<1>2. n \in FreeBlocks(h)
  BY DEF NewBlock
<1>3. n \in BlockIds /\ h[n].cap = 0
  BY <1>2 DEF FreeBlocks
<1>4. cnt[n] = 0 /\ n \notin A
  BY <1>1, <1>3 DEF Owns, CountType
<1>5. o.h = g /\ o.r = r
  BY DEF CreateMemo
<1>6. new \in [ref : Nat, cap : Nat, data : Bytes8] /\ new.ref = 1 /\ new.cap = cap /\ new.data = bytes
  OBVIOUS
<1>7. g \in HeapType /\ g[n] = new /\ \A b \in BlockIds : b # n => g[b] = h[b]
  BY <1>1, <1>3, <1>6 DEF HeapType
<1>8. /\ r \in RepType /\ r.held = TRUE /\ r.base = n /\ r.at = 0 /\ r.len = Len(bytes)
      /\ n # Static
  <2>1. n # Static
    BY <1>3, ProgramAssumption DEF Static
  <2>2. <<>> \in Bytes8 /\ Len(bytes) \in Nat
    BY DEF Bytes8
  <2> QED
    BY <1>3, <2>1, <2>2 DEF Rep, RepType, Pointers
<1> HIDE DEF new, g, r, o, n
<1>9. Plus(cnt, r) \in CountType /\ \A b \in BlockIds : Plus(cnt, r)[b] = IF b = n THEN 1 ELSE cnt[b]
  <2>1. Plus(cnt, r) \in CountType
    BY <1>1, <1>8, CountsTyped
  <2>2. \A b \in BlockIds : Plus(cnt, r)[b] = IF b = n THEN cnt[b] + 1 ELSE cnt[b]
    BY <1>8 DEF Plus, Holds
  <2> QED
    BY <1>4, <2>1, <2>2
<1>10. Owns(g, Plus(cnt, r), A)
  BY <1>1, <1>3, <1>4, <1>6, <1>7, <1>9 DEF Owns, CountType
<1>11. Frame(h, g, cnt, A)
  <2>1. \A b \in BlockIds : h[b].data \in Bytes8
    BY <1>1 DEF HeapType
  <2> QED
    BY <1>4, <1>7, <2>1, ExtendsSelf DEF Frame
<1>12. Good(g, r) /\ Bytes(g, r) = bytes
  <2>1. Source(g, r) = bytes
    BY <1>6, <1>7, <1>8 DEF Source
  <2>2. Bytes(g, r) = Part(bytes, 0, Len(bytes)) /\ Bytes(g, r) \in Bytes8
    BY <1>7, <1>8, <2>1, BytesOfRep
  <2>3. Len(bytes) \in Nat
    BY DEF Bytes8
  <2>4. /\ Len(Part(bytes, 0, Len(bytes))) = Len(bytes)
        /\ \A i \in 1..Len(bytes) : Part(bytes, 0, Len(bytes))[i] = bytes[i]
    <3>1. \A i \in 1..Len(bytes) : 0 + i = i /\ i <= Len(bytes)
      BY <2>3
    <3>2. /\ Len(Part(bytes, 0, Len(bytes))) = Len(bytes)
          /\ \A i \in 1..Len(bytes) : Part(bytes, 0, Len(bytes))[i] =
                                         IF 0 + i <= Len(bytes) THEN bytes[0 + i] ELSE Junk
      BY <2>3, PartBytes
    <3> QED
      BY <3>1, <3>2
  <2>5. Bytes(g, r) = bytes
    BY <2>2, <2>4, SeqEqual DEF Bytes8
  <2> QED
    BY <1>8, <2>1, <2>3, <2>5 DEF Good, InRange
<1>13. Makes(h, o, cnt, A, bytes)
  BY <1>1, <1>5, <1>10, <1>11, <1>12 DEF Makes
<1> QED
  BY <1>3, <1>4, <1>5, <1>6, <1>7, <1>13 DEF n, o, r

(* The size classes of memos leave room for the bytes.                     *)
LEMMA RoundUpRoom ==
  ASSUME NEW n \in Nat
  PROVE  RoundUp(n) \in Nat /\ RoundUp(n) >= n
<1>1. MemoUnit \in Nat /\ MemoUnit > 0
  BY MemoAssumption
<1> DEFINE q == (n + MemoUnit - 1) \div MemoUnit
           m == (n + MemoUnit - 1) % MemoUnit
<1>2. n + MemoUnit - 1 = MemoUnit * q + m /\ m \in 0..(MemoUnit - 1) /\ q \in Nat
  BY <1>1
<1> QED
  BY <1>1, <1>2 DEF RoundUp

(* The empty String.                                                       *)
LEMMA EmptyMakes ==
  ASSUME NEW h, NEW cnt, NEW A \in SUBSET BlockIds, Owns(h, cnt, A)
  PROVE  Makes(h, [h |-> h, r |-> EmptyRep], cnt, A, <<>>)
<1>1. /\ EmptyRep \in RepType /\ EmptyRep.held = FALSE /\ EmptyRep.base = Static
      /\ EmptyRep.len = 0 /\ EmptyRep.at = 0 /\ EmptyRep.text = <<>>
  BY DEF EmptyRep, Stable, Rep, RepType, Pointers, Bytes8
<1>2. h \in HeapType /\ cnt \in CountType
  BY DEF Owns
<1>3. Plus(cnt, EmptyRep) = cnt
  BY <1>1, <1>2 DEF Plus, Holds, CountType
<1>4. Good(h, EmptyRep)
  BY <1>1 DEF Good, InRange, Source
<1>5. Bytes(h, EmptyRep) = <<>>
  <2>1. Bytes(h, EmptyRep) \in Bytes8 /\ Len(Bytes(h, EmptyRep)) = 0
    BY <1>1, <1>2, BytesOfRep
  <2> QED
    BY <2>1, EmptySeq DEF Bytes8
<1>6. Frame(h, h, cnt, A)
  BY <1>2, ExtendsSelf DEF Frame, HeapType
<1> QED
  BY <1>2, <1>3, <1>4, <1>5, <1>6 DEF Makes

(* assign(s, len, false).                                                  *)
LEMMA AssignNewMakes ==
  ASSUME NEW h, NEW cnt, NEW A \in SUBSET BlockIds, Owns(h, cnt, A), FreeBlocks(h) # {},
         NEW bytes \in Bytes8
  PROVE  Makes(h, AssignNew(h, bytes), cnt, A, bytes)
<1>1. CASE bytes = <<>>
  BY <1>1, EmptyMakes DEF AssignNew
<1>2. CASE bytes # <<>>
  <2> DEFINE room == RoundUp(Len(bytes) + MemoSpace)
             cap == room - MemoSpace
  <2>1. Len(bytes) \in Nat /\ Len(bytes) > 0 /\ MemoSpace \in Nat
    BY <1>2, EmptySeq, MemoAssumption DEF Bytes8
  <2>2. room \in Nat /\ room >= Len(bytes) + MemoSpace
    BY <2>1, RoundUpRoom
  <2>3. cap \in Nat /\ cap > 0
    BY <2>1, <2>2
  <2>4. AssignNew(h, bytes) = CreateMemo(h, bytes, cap)
    BY <1>2 DEF AssignNew
  <2> HIDE DEF cap
  <2>5. Makes(h, CreateMemo(h, bytes, cap), cnt, A, bytes)
    BY <2>3, CreateMemoMakes
  <2> QED
    BY <2>4, <2>5
<1> QED
  BY <1>1, <1>2

(* The old memo is dropped after the operation, or before it.              *)
LEMMA MakesThenDeref ==
  ASSUME NEW h \in HeapType, NEW o, NEW cnt, NEW A \in SUBSET BlockIds, NEW text,
         Makes(h, o, cnt, A, text), NEW r \in RepType, Counted(cnt, r)
  PROVE  Makes(h, [h |-> DerefMemo(o.h, r), r |-> o.r], Minus(cnt, r), A, text)
<1> DEFINE c1 == Plus(cnt, o.r)
           g == DerefMemo(o.h, r)
<1>1. /\ Owns(o.h, c1, A) /\ cnt \in CountType /\ Frame(h, o.h, cnt, A)
      /\ Good(o.h, o.r) /\ Bytes(o.h, o.r) = text /\ o.r \in RepType
  BY DEF Makes, Good
<1>2. Counted(c1, r)
  BY <1>1 DEF Counted, Plus, CountType
<1>3. Minus(c1, r) = Plus(Minus(cnt, r), o.r) /\ Minus(cnt, r) \in CountType
  BY <1>1, CountsCommute, CountsTyped
<1> HIDE DEF c1, g
<1>4. /\ Owns(g, Minus(c1, r), A)
      /\ \A b \in BlockIds : Minus(c1, r)[b] > 0 \/ b \in A => g[b].data = o.h[b].data
  BY <1>1, <1>2, DerefMemoOwns DEF g
<1>5. o.h \in HeapType /\ g \in HeapType
  BY <1>1, <1>4 DEF Owns
<1>6. \A b \in BlockIds : Minus(cnt, r)[b] > 0 => cnt[b] > 0 /\ Minus(c1, r)[b] > 0
  <2> SUFFICES ASSUME NEW b \in BlockIds, Minus(cnt, r)[b] > 0
               PROVE  cnt[b] > 0 /\ Minus(c1, r)[b] > 0
    OBVIOUS
  <2>1. cnt[b] \in Nat /\ Minus(cnt, r)[b] \in Nat
    BY <1>1, <1>3 DEF CountType
  <2> QED
    BY <1>3, <2>1 DEF Plus, Minus
<1>7. Frame(h, g, Minus(cnt, r), A)
  BY <1>1, <1>4, <1>6 DEF Frame
<1>8. Good(g, o.r) /\ Bytes(g, o.r) = text
  <2>1. o.r.base = Static \/ Extends(o.h[o.r.base].data, g[o.r.base].data)
    <3> SUFFICES ASSUME o.r.base # Static
                 PROVE  Extends(o.h[o.r.base].data, g[o.r.base].data)
      OBVIOUS
    <3>1. o.r.held /\ o.r.base \in BlockIds
      BY <1>1 DEF Good, RepType, Pointers
    <3>2. Plus(Minus(cnt, r), o.r)[o.r.base] > 0
      BY <1>3, <3>1 DEF Plus, Holds, CountType
    <3>3. g[o.r.base].data = o.h[o.r.base].data /\ g[o.r.base].data \in Bytes8
      BY <1>3, <1>4, <1>5, <3>1, <3>2 DEF HeapType
    <3> QED
      BY <3>3, ExtendsSelf
  <2>2. Bytes(g, o.r) = text /\ InRange(g, o.r)
    BY <1>1, <1>5, <2>1, BytesFramed DEF Good
  <2> QED
    BY <1>1, <2>2 DEF Good
<1> QED
  BY <1>3, <1>4, <1>7, <1>8 DEF Makes, g

(* A holder gives its memo up first and makes its new value then.          *)
LEMMA DerefThenMakes ==
  ASSUME NEW h, NEW o, NEW cnt, NEW A \in SUBSET BlockIds, NEW text, Owns(h, cnt, A),
         NEW r \in RepType, Counted(cnt, r),
         Makes(DerefMemo(h, r), o, Minus(cnt, r), A, text)
  PROVE  Makes(h, o, Minus(cnt, r), A, text)
<1>1. \A b \in BlockIds : Minus(cnt, r)[b] > 0 \/ b \in A => DerefMemo(h, r)[b].data = h[b].data
  BY DerefMemoOwns
<1>2. Frame(h, o.h, Minus(cnt, r), A)
  BY <1>1 DEF Makes, Frame
<1> QED
  BY <1>2 DEF Makes

(* Text from outside.                                                      *)
LEMMA StableRep ==
  ASSUME NEW h \in HeapType, NEW t \in Bytes8
  PROVE  /\ Good(h, Stable(t)) /\ Bytes(h, Stable(t)) = t
         /\ Stable(t).held = FALSE /\ Stable(t).base = Static /\ Stable(t).len = Len(t)
         /\ Stable(t) \in RepType
<1> DEFINE r == Stable(t)
<1>1. Len(t) \in Nat
  BY DEF Bytes8
<1>2. /\ r \in RepType /\ r.held = FALSE /\ r.base = Static /\ r.text = t /\ r.at = 0
      /\ r.len = Len(t)
  BY <1>1 DEF Stable, Rep, RepType, Pointers
<1> HIDE DEF r
<1>3. Source(h, r) = t
  BY <1>2 DEF Source
<1>4. /\ Bytes(h, r) = Part(t, 0, Len(t)) /\ Bytes(h, r) \in Bytes8
      /\ Len(Bytes(h, r)) = Len(t)
  BY <1>2, <1>3, BytesOfRep
<1>5. \A i \in 1..Len(t) : Part(t, 0, Len(t))[i] = IF 0 + i <= Len(t) THEN t[0 + i] ELSE Junk
  BY <1>1, PartBytes
<1>6. \A i \in 1..Len(t) : 0 + i = i /\ i <= Len(t)
  BY <1>1
<1>7. \A i \in 1..Len(t) : Bytes(h, r)[i] = t[i]
  BY <1>4, <1>5, <1>6
<1>8. Bytes(h, r) = t
  BY <1>4, <1>7, SeqEqual DEF Bytes8
<1> QED
  BY <1>1, <1>2, <1>3, <1>8 DEF Good, InRange, r

(* Text that lasts takes no block.                                         *)
LEMMA StableMakes ==
  ASSUME NEW h, NEW cnt, NEW A \in SUBSET BlockIds, Owns(h, cnt, A), NEW t \in Bytes8
  PROVE  Makes(h, [h |-> h, r |-> Stable(t)], cnt, A, t)
<1>1. h \in HeapType /\ cnt \in CountType
  BY DEF Owns
<1>2. /\ Good(h, Stable(t)) /\ Bytes(h, Stable(t)) = t /\ Stable(t).held = FALSE
  BY <1>1, StableRep
<1>3. Plus(cnt, Stable(t)) = cnt
  BY <1>1, <1>2 DEF Plus, Holds, CountType
<1>4. Frame(h, h, cnt, A)
  BY <1>1, ExtendsSelf DEF Frame, HeapType
<1> QED
  BY <1>1, <1>2, <1>3, <1>4 DEF Makes

(* Another holder of the same memo.                                        *)
LEMMA ShareMakes ==
  ASSUME NEW h, NEW cnt, NEW A \in SUBSET BlockIds, Owns(h, cnt, A),
         NEW r, Good(h, r), Counted(cnt, r)
  PROVE  Makes(h, [h |-> RefMemo(h, r), r |-> r], cnt, A, Bytes(h, r))
<1> DEFINE g == RefMemo(h, r)
<1>1. h \in HeapType /\ cnt \in CountType /\ r \in RepType
  BY DEF Owns, Good
<1>2. Owns(g, Plus(cnt, r), A) /\ \A b \in BlockIds : g[b].data = h[b].data
  BY <1>1, RefMemoOwns
<1>3. g \in HeapType
  BY <1>2 DEF Owns
<1> HIDE DEF g
<1>4. \A b \in BlockIds : Extends(h[b].data, g[b].data)
  BY <1>1, <1>2, ExtendsSelf DEF HeapType
<1>5. Bytes(g, r) = Bytes(h, r) /\ InRange(g, r)
  BY <1>1, <1>3, <1>4, BytesFramed DEF Good, RepType, Pointers
<1> QED
  BY <1>1, <1>2, <1>4, <1>5 DEF Makes, Frame, Good, g

(* assign(s, len, true): text from outside, or a part of the String.       *)
LEMMA AssignRawMakes ==
  ASSUME NEW h, NEW cnt, NEW A \in SUBSET BlockIds, Owns(h, cnt, A), FreeBlocks(h) # {},
         NEW r \in RepType, r.held => r.base # Static, Counted(cnt, r),
         NEW s \in RepType, InRange(h, s), s.base = Static \/ (r.held /\ s.base = r.base)
  PROVE  Makes(h, AssignRaw(h, r, s), Minus(cnt, r), A, Bytes(h, s))
<1>1. h \in HeapType /\ cnt \in CountType
  BY DEF Owns
<1>2. CASE r.held /\ s.base = r.base
  <2> DEFINE q == Rep(r.base, <<>>, s.at, s.len, TRUE)
  <2>1. r.base \in BlockIds /\ r.base # Static /\ cnt[r.base] > 0
    BY <1>2 DEF Counted
  <2>2. /\ q \in RepType /\ q.base = r.base /\ q.held = TRUE /\ q.at = s.at /\ q.len = s.len
    BY <2>1 DEF Rep, RepType, Pointers, Bytes8
  <2>3. AssignRaw(h, r, s) = [h |-> h, r |-> q]
    BY <1>2 DEF AssignRaw
  <2> HIDE DEF q
  <2>4. Minus(cnt, r) \in CountType
    BY <1>1, CountsTyped
  <2>5. Plus(Minus(cnt, r), q) = cnt
    BY <1>1, <1>2, <2>2 DEF Plus, Minus, Holds, CountType
  <2>6. Frame(h, h, Minus(cnt, r), A)
    BY <1>1, ExtendsSelf DEF Frame, HeapType
  <2>7. Good(h, q) /\ Bytes(h, q) = Bytes(h, s)
    BY <1>2, <2>1, <2>2 DEF Good, InRange, Source, Bytes
  <2> QED
    BY <2>3, <2>4, <2>5, <2>6, <2>7 DEF Makes
<1>3. CASE ~(r.held /\ s.base = r.base)
  <2> DEFINE g == DerefMemo(h, r)
  <2>1. Owns(g, Minus(cnt, r), A) /\ FreeBlocks(g) # {}
    BY DerefMemoOwns
  <2>2. Bytes(g, s) = Bytes(h, s) /\ s.base = Static
    BY <1>3 DEF Bytes
  <2>3. Bytes(g, s) \in Bytes8
    BY <1>1, <2>2, BytesOfRep
  <2>4. AssignRaw(h, r, s) = AssignNew(g, Bytes(g, s))
    BY <1>3 DEF AssignRaw
  <2> HIDE DEF g
  <2>5. Makes(g, AssignRaw(h, r, s), Minus(cnt, r), A, Bytes(h, s))
    BY <2>1, <2>2, <2>3, <2>4, AssignNewMakes
  <2> QED
    BY <2>5, DerefThenMakes DEF g
<1> QED
  BY <1>2, <1>3

-----------------------------------------------------------------------------
(* Appending                                                               *)

(* Bytes are written to a memo: others who hold it see none of them, for   *)
(* they lie behind what was there.                                         *)
LEMMA WriteMakes ==
  ASSUME NEW h \in HeapType, NEW o, NEW cnt, NEW A \in SUBSET BlockIds, NEW text,
         Makes(h, o, cnt, A, text), o.r.held, NEW d \in Bytes8, NEW m \in Nat,
         o.r.at + m <= Len(d), cnt[o.r.base] > 0 => Extends(h[o.r.base].data, d)
  PROVE  Makes(h, [h |-> [o.h EXCEPT ![o.r.base].data = d], r |-> [o.r EXCEPT !.len = m]],
               cnt, A, Part(d, o.r.at, m))
<1> DEFINE b == o.r.base
           g == [o.h EXCEPT ![b].data = d]
           q == [o.r EXCEPT !.len = m]
<1>1. /\ Owns(o.h, Plus(cnt, o.r), A) /\ cnt \in CountType /\ Frame(h, o.h, cnt, A)
      /\ Good(o.h, o.r) /\ o.h \in HeapType /\ o.r \in RepType
  BY DEF Makes, Good, Owns
<1>2. b \in BlockIds /\ b # Static
  BY <1>1 DEF Good, RepType, Pointers
<1>3. q \in RepType /\ q.base = b /\ q.held = o.r.held /\ q.at = o.r.at /\ q.len = m
  BY <1>1 DEF RepType
<1>4. /\ g \in HeapType /\ g[b].data = d
      /\ \A c \in BlockIds : /\ g[c].cap = o.h[c].cap /\ g[c].ref = o.h[c].ref
                             /\ c # b => g[c].data = o.h[c].data
  BY <1>1, <1>2 DEF HeapType
<1>5. Plus(cnt, q) = Plus(cnt, o.r)
  BY <1>3 DEF Plus, Holds
<1> HIDE DEF g, q, b
<1>6. Owns(g, Plus(cnt, q), A)
  BY <1>1, <1>4, <1>5 DEF Owns
<1>7. b \notin A
  <2>1. cnt[b] \in Nat /\ Plus(cnt, o.r)[b] = cnt[b] + 1
    BY <1>1, <1>2 DEF CountType, Plus, Holds, b
  <2> QED
    BY <1>1, <1>2, <2>1 DEF Owns
<1>8. Frame(h, g, cnt, A)
  BY <1>1, <1>4, <1>7 DEF Frame, b
<1>9. Source(g, q) = d
  BY <1>2, <1>3, <1>4 DEF Source
<1>10. Good(g, q) /\ Bytes(g, q) = Part(d, o.r.at, m)
  BY <1>1, <1>2, <1>3, <1>4, <1>9, BytesOfRep DEF Good, InRange
<1> QED
  BY <1>1, <1>6, <1>8, <1>10 DEF Makes, g, q, b

(* A part made of two.                                                     *)
LEMMA PartConcat ==
  ASSUME NEW d \in Bytes8, NEW at \in Nat, NEW p \in Bytes8, NEW q \in Bytes8,
         at + Len(p) + Len(q) <= Len(d),
         \A i \in 1..Len(p) : d[at + i] = p[i],
         \A i \in 1..Len(q) : d[at + Len(p) + i] = q[i]
  PROVE  Part(d, at, Len(p) + Len(q)) = p \o q
<1> DEFINE n == Len(p) + Len(q)
<1>1. Len(p) \in Nat /\ Len(q) \in Nat /\ n \in Nat /\ Len(d) \in Nat
  BY DEF Bytes8
<1>2. p \o q \in Bytes8 /\ Len(p \o q) = n
      /\ \A i \in 1..n : (p \o q)[i] = IF i <= Len(p) THEN p[i] ELSE q[i - Len(p)]
  BY ConcatProperties DEF Bytes8
<1>3. /\ Part(d, at, n) \in Bytes8 /\ Len(Part(d, at, n)) = n
      /\ \A i \in 1..n : Part(d, at, n)[i] = IF at + i <= Len(d) THEN d[at + i] ELSE Junk
  BY <1>1, PartBytes
<1>4. ASSUME NEW i \in 1..n PROVE Part(d, at, n)[i] = (p \o q)[i]
  <2>1. at + i <= Len(d)
    BY <1>1
  <2>2. CASE i <= Len(p)
    BY <1>1, <1>2, <1>3, <2>1, <2>2
  <2>3. CASE i > Len(p)
    <3> DEFINE j == i - Len(p)
    <3>1. j \in 1..Len(q) /\ at + Len(p) + j = at + i
      BY <1>1, <2>3
    <3>2. d[at + i] = q[j]
      BY <3>1
    <3> QED
      BY <1>1, <1>2, <1>3, <2>1, <2>3, <3>2
  <2> QED
    BY <1>1, <2>2, <2>3
<1> HIDE DEF n
<1>5. Part(d, at, n) = p \o q
  BY <1>2, <1>3, <1>4, SeqEqual DEF Bytes8
<1> QED
  BY <1>5 DEF n

(* Bytes to be filled in.                                                  *)
LEMMA JunkBytes ==
  ASSUME NEW n \in Nat
  PROVE  [i \in 1..n |-> Junk] \in Bytes8 /\ Len([i \in 1..n |-> Junk]) = n
<1>1. [i \in 1..n |-> Junk] \in [1..n -> Int]
  BY DEF Junk
<1> QED
  BY <1>1, FunctionSeq

(* A holder of a memo keeps its place.                                     *)
LEMMA SelfMakes ==
  ASSUME NEW h, NEW cnt, NEW A \in SUBSET BlockIds, Owns(h, cnt, A),
         NEW r, Good(h, r), Counted(cnt, r)
  PROVE  Makes(h, [h |-> h, r |-> r], Minus(cnt, r), A, Bytes(h, r))
<1>1. h \in HeapType /\ cnt \in CountType /\ r \in RepType
  BY DEF Owns, Good
<1>2. Minus(cnt, r) \in CountType
  BY <1>1, CountsTyped
<1>3. Plus(Minus(cnt, r), r) = cnt
  BY <1>1 DEF Plus, Minus, CountType
<1>4. Frame(h, h, Minus(cnt, r), A)
  BY <1>1, ExtendsSelf DEF Frame, HeapType
<1> QED
  BY <1>2, <1>3, <1>4 DEF Makes

(* The source of an append: text that lasts, or a memo that someone else   *)
(* holds as well.                                                          *)
Readable(h, cnt, A, s) ==
  /\ s \in RepType /\ InRange(h, s)
  /\ s.base = Static \/ cnt[s.base] > 0 \/ s.base \in A

(* A readable source reads the same after steps that keep the frame.       *)
LEMMA ReadableFramed ==
  ASSUME NEW h \in HeapType, NEW g \in HeapType, NEW cnt, NEW A \in SUBSET BlockIds,
         NEW s, Readable(h, cnt, A, s), Frame(h, g, cnt, A)
  PROVE  Bytes(g, s) = Bytes(h, s) /\ Bytes(h, s) \in Bytes8 /\ Len(Bytes(h, s)) = s.len
<1>1. s \in RepType /\ InRange(h, s)
  BY DEF Readable
<1>2. s.base = Static \/ Extends(h[s.base].data, g[s.base].data)
  BY <1>1 DEF Readable, Frame, RepType, Pointers
<1> QED
  BY <1>1, <1>2, BytesFramed, BytesOfRep

(* append_uninitialized in place, then the copy.                           *)
LEMMA AppendInPlaceMakes ==
  ASSUME NEW h, NEW cnt, NEW A \in SUBSET BlockIds, Owns(h, cnt, A),
         NEW r, Good(h, r), Counted(cnt, r), NEW s, Readable(h, Minus(cnt, r), A, s),
         AppendInPlace(h, r, s.len)
  PROVE  /\ Makes(h, AppendCopy(h, r, s), Minus(cnt, r), A, Bytes(h, r) \o Bytes(h, s))
         /\ AppendCopy(h, r, s).r.held
<1> DEFINE c == Minus(cnt, r)
           b == r.base
           d == h[b].data
           e == r.at + r.len
           n == s.len
           d1 == Write(d, e, [i \in 1..n |-> Junk])
           o1 == [h |-> [h EXCEPT ![b].data = d1], r |-> [r EXCEPT !.len = r.len + n]]
           t == Bytes(h, s)
           d2 == Write(d1, e, t)
           o2 == [h |-> [o1.h EXCEPT ![o1.r.base].data = d2], r |-> o1.r]
<1>1. /\ h \in HeapType /\ cnt \in CountType /\ r \in RepType /\ s \in RepType
      /\ n \in Nat /\ r.at \in Nat /\ r.len \in Nat /\ e \in Nat
  BY DEF Owns, Good, Readable, RepType
<1>2. r.held /\ b \in BlockIds /\ b # Static /\ e = Len(d) /\ d \in Bytes8
  BY <1>1 DEF AppendInPlace, Good, RepType, Pointers, HeapType
<1>3. Makes(h, [h |-> h, r |-> r], c, A, Bytes(h, r))
  BY SelfMakes
<1>4. /\ d1 \in Bytes8 /\ Len(d1) = e + n /\ Extends(d, d1)
      /\ \A i \in 1..Len(d) : d1[i] = d[i]
  <2> DEFINE j == [i \in 1..n |-> Junk]
  <2>1. j \in Bytes8 /\ Len(j) = n
    BY <1>1, JunkBytes
  <2> HIDE DEF j
  <2>2. d1 = Write(d, e, j)
    BY DEF j
  <2>3. /\ Write(d, e, j) \in Bytes8 /\ Extends(d, Write(d, e, j))
        /\ Len(Write(d, e, j)) = IF e + Len(j) > Len(d) THEN e + Len(j) ELSE Len(d)
    <3>1. Len(d) <= e
      BY <1>1, <1>2
    <3>2. d \in Bytes8 /\ e \in Nat
      BY <1>1, <1>2
    <3> HIDE DEF d, e
    <3>3. /\ Write(d, e, j) \in Bytes8
          /\ Len(Write(d, e, j)) = IF e + Len(j) > Len(d) THEN e + Len(j) ELSE Len(d)
      BY <2>1, <3>2, WriteBytes, Zenon
    <3>4. Extends(d, Write(d, e, j))
      BY <2>1, <3>1, <3>2, WriteExtends, Zenon
    <3> QED
      BY <3>3, <3>4
  <2>4. (IF e + Len(j) > Len(d) THEN e + Len(j) ELSE Len(d)) = e + n
    BY <1>1, <1>2, <2>1
  <2> HIDE DEF d, e, d1
  <2> QED
    BY <2>2, <2>3, <2>4 DEF Extends
<1> HIDE DEF d1
<1>5. Makes(h, o1, c, A, Part(d1, r.at, r.len + n))
  <2> DEFINE o == [h |-> h, r |-> r]
             o3 == [h |-> [o.h EXCEPT ![o.r.base].data = d1], r |-> [o.r EXCEPT !.len = r.len + n]]
  <2>1. o.r.held /\ o.r.at + (r.len + n) <= Len(d1) /\ r.len + n \in Nat
        /\ Extends(h[o.r.base].data, d1) /\ o.r.at = r.at
    BY <1>1, <1>2, <1>4
  <2>2. o3 = o1
    OBVIOUS
  <2>3. Makes(h, o, c, A, Bytes(h, r))
    BY <1>3
  <2> HIDE DEF o
  <2>4. Makes(h, o3, c, A, Part(d1, o.r.at, r.len + n))
    BY <1>1, <1>4, <2>1, <2>3, WriteMakes
  <2> HIDE DEF o3, o1
  <2> QED
    BY <2>1, <2>2, <2>4
<1>6. /\ o1.r = [r EXCEPT !.len = r.len + n] /\ o1.r.base = b /\ o1.r.held = r.held
      /\ o1.r.at = r.at /\ o1.r.len = r.len + n /\ o1.h = [h EXCEPT ![b].data = d1]
      /\ o1.h[b].data = d1
  BY <1>1, <1>2 DEF RepType, HeapType
<1>7. Bytes(o1.h, s) = t /\ t \in Bytes8 /\ Len(t) = n
  <2>1. Frame(h, o1.h, c, A) /\ o1.h \in HeapType
    BY <1>5 DEF Makes, Owns
  <2> QED
    BY <1>1, <2>1, ReadableFramed
<1> HIDE DEF o1, t
<1>8. AppendCopy(h, r, s) = o2
  <2>1. AppendSpace(h, r, n) = o1
    BY DEF AppendSpace, o1, d1
  <2>2. o1.r.at + o1.r.len - n = e
    BY <1>1, <1>6
  <2>3. AppendCopy(h, r, s) =
          [o1 EXCEPT !.h[o1.r.base].data = Write(@, o1.r.at + o1.r.len - s.len, Bytes(o1.h, s))]
    BY <2>1 DEF AppendCopy
  <2>4. o1 = [h |-> o1.h, r |-> o1.r]
    BY DEF o1
  <2>5. AppendCopy(h, r, s) =
          [h |-> [o1.h EXCEPT ![o1.r.base].data =
                    Write(o1.h[o1.r.base].data, o1.r.at + o1.r.len - s.len, Bytes(o1.h, s))],
           r |-> o1.r]
    BY <2>3, <2>4
  <2>6. o1.h[o1.r.base].data = d1
    BY <1>6
  <2> HIDE DEF e
  <2> QED
    BY <1>7, <2>2, <2>5, <2>6
<1>9. /\ d2 \in Bytes8 /\ Len(d2) = e + n
      /\ \A i \in 1..(e + n) : d2[i] = IF i > e /\ i <= e + n THEN t[i - e] ELSE d1[i]
  <2>1. /\ d2 \in Bytes8
        /\ Len(d2) = IF e + Len(t) > Len(d1) THEN e + Len(t) ELSE Len(d1)
        /\ \A i \in 1..Len(d2) : d2[i] = IF i > e /\ i <= e + Len(t) THEN t[i - e]
                                         ELSE IF i <= Len(d1) THEN d1[i] ELSE Junk
    BY <1>1, <1>4, <1>7, WriteBytes
  <2> HIDE DEF d2
  <2> QED
    BY <1>1, <1>4, <1>7, <2>1
<1> HIDE DEF d2
<1>10. Extends(d, d2)
  BY <1>1, <1>2, <1>4, <1>9 DEF Extends
<1>11. Makes(h, o2, c, A, Part(d2, r.at, r.len + n))
  <2> DEFINE o3 == [h |-> [o1.h EXCEPT ![o1.r.base].data = d2], r |-> [o1.r EXCEPT !.len = r.len + n]]
  <2>1. o1.r.held /\ o1.r.at + (r.len + n) <= Len(d2) /\ r.len + n \in Nat
        /\ Extends(h[o1.r.base].data, d2)
    BY <1>1, <1>2, <1>6, <1>9, <1>10
  <2>2. Makes(h, o3, c, A, Part(d2, o1.r.at, r.len + n))
    BY <1>1, <1>5, <1>9, <2>1, WriteMakes
  <2>3. [o1.r EXCEPT !.len = r.len + n] = o1.r
    BY <1>1, <1>6 DEF RepType
  <2> QED
    BY <1>6, <2>2, <2>3
<1>12. Part(d2, r.at, r.len + n) = Bytes(h, r) \o t
  <2> DEFINE p == Bytes(h, r)
  <2>1. /\ p \in Bytes8 /\ Len(p) = r.len /\ p = Part(d, r.at, r.len)
    BY <1>1, <1>2, BytesOfRep DEF Source
  <2>2. \A i \in 1..r.len : p[i] = d[r.at + i]
    <3>1. \A i \in 1..r.len : p[i] = IF r.at + i <= Len(d) THEN d[r.at + i] ELSE Junk
      <4>1. d \in Bytes8 /\ r.at \in Nat /\ r.len \in Nat /\ p = Part(d, r.at, r.len)
        BY <1>1, <1>2, <2>1
      <4> HIDE DEF p, d
      <4> QED
        BY <4>1, PartBytes, Zenon
    <3>2. \A i \in 1..r.len : r.at + i <= Len(d)
      BY <1>1, <1>2
    <3> HIDE DEF p, d
    <3> QED
      BY <3>1, <3>2
  <2>3. \A i \in 1..r.len : d2[r.at + i] = p[i]
    <3> SUFFICES ASSUME NEW i \in 1..r.len PROVE d2[r.at + i] = p[i]
      OBVIOUS
    <3>1. r.at + i \in 1..(e + n) /\ ~(r.at + i > e) /\ r.at + i \in 1..Len(d)
      BY <1>1, <1>2
    <3> QED
      BY <1>4, <1>9, <2>2, <3>1
  <2>4. \A i \in 1..n : d2[r.at + r.len + i] = t[i]
    <3> SUFFICES ASSUME NEW i \in 1..n PROVE d2[r.at + r.len + i] = t[i]
      OBVIOUS
    <3>1. e + i \in 1..(e + n) /\ e + i > e /\ e + i <= e + n /\ (e + i) - e = i
      BY <1>1
    <3> QED
      BY <1>9, <3>1
  <2>5. r.at + Len(p) + Len(t) <= Len(d2)
    BY <1>1, <1>7, <1>9, <2>1
  <2>6. /\ \A i \in 1..Len(p) : d2[r.at + i] = p[i]
        /\ \A i \in 1..Len(t) : d2[r.at + Len(p) + i] = t[i]
    BY <1>7, <2>1, <2>3, <2>4
  <2> HIDE DEF p
  <2>7. Part(d2, r.at, Len(p) + Len(t)) = p \o t
    <3>1. r.at \in Nat /\ d2 \in Bytes8 /\ p \in Bytes8 /\ t \in Bytes8
      BY <1>1, <1>7, <1>9, <2>1
    <3> QED
      BY <2>5, <2>6, <3>1, PartConcat, Zenon
  <2> QED
    BY <1>7, <2>1, <2>7 DEF p
<1>13. o2.r.held
  BY <1>2, <1>6
<1> HIDE DEF o2
<1> QED
  BY <1>8, <1>11, <1>12, <1>13 DEF t

(* Text written behind the part p.                                         *)
LEMMA WrittenPart ==
  ASSUME NEW d \in Bytes8, NEW at \in Nat, NEW p \in Bytes8, NEW t \in Bytes8,
         at + Len(p) + Len(t) = Len(d), \A i \in 1..Len(p) : d[at + i] = p[i]
  PROVE  /\ Write(d, at + Len(p), t) \in Bytes8 /\ Len(Write(d, at + Len(p), t)) = Len(d)
         /\ Part(Write(d, at + Len(p), t), at, Len(p) + Len(t)) = p \o t
<1> DEFINE e == at + Len(p)
           w == Write(d, e, t)
<1>1. Len(p) \in Nat /\ Len(t) \in Nat /\ Len(d) \in Nat /\ e \in Nat
  BY DEF Bytes8
<1>2. /\ w \in Bytes8
      /\ Len(w) = IF e + Len(t) > Len(d) THEN e + Len(t) ELSE Len(d)
      /\ \A i \in 1..Len(w) : w[i] = IF i > e /\ i <= e + Len(t) THEN t[i - e]
                                     ELSE IF i <= Len(d) THEN d[i] ELSE Junk
  <2> HIDE DEF e
  <2> QED
    BY <1>1, WriteBytes, Zenon
<1> HIDE DEF w
<1>3. Len(w) = Len(d)
  BY <1>1, <1>2
<1>4. ASSUME NEW i \in 1..Len(p) PROVE w[at + i] = p[i]
  <2>1. at + i \in 1..Len(w) /\ ~(at + i > e) /\ at + i <= Len(d)
    BY <1>1, <1>3
  <2> HIDE DEF e
  <2> QED
    BY <1>2, <2>1
<1>5. ASSUME NEW i \in 1..Len(t) PROVE w[at + Len(p) + i] = t[i]
  <2>1. e + i \in 1..Len(w) /\ e + i > e /\ e + i <= e + Len(t) /\ (e + i) - e = i
    BY <1>1, <1>3
  <2>2. w[e + i] = t[(e + i) - e]
    <3> HIDE DEF e
    <3> QED
      BY <1>2, <2>1
  <2> QED
    BY <2>1, <2>2
<1>6. at + Len(p) + Len(t) <= Len(w)
  BY <1>1, <1>3
<1>7. Part(w, at, Len(p) + Len(t)) = p \o t
  BY <1>2, <1>4, <1>5, <1>6, PartConcat, Zenon
<1> QED
  BY <1>2, <1>3, <1>7 DEF w, e

(* The capacity append_uninitialized asks for.                             *)
LEMMA AppendRoom ==
  ASSUME NEW m \in Nat, NEW n \in Nat, n > 0, m + n <= MaxLength + 1
  PROVE  LET want == m + n + MemoSpace
             cap == IF want <= SmallMemo THEN RoundUp(want) ELSE Doubled(want)
         IN  cap - MemoSpace \in Nat /\ cap - MemoSpace > 0
<1> DEFINE want == m + n + MemoSpace
           cap == IF want <= SmallMemo THEN RoundUp(want) ELSE Doubled(want)
<1>1. MemoSpace \in Nat /\ MaxLength \in Nat /\ SmallMemo \in Nat
  BY MemoAssumption
<1>2. want \in Nat /\ want \in 1..(MaxLength + MemoSpace + 1) /\ want > MemoSpace
  BY <1>1
<1> HIDE DEF want
<1>3. RoundUp(want) \in Nat /\ RoundUp(want) >= want
  BY <1>2, RoundUpRoom
<1>4. Doubled(want) \in Nat /\ Doubled(want) >= want
  BY <1>2, DoubledAssumption
<1>5. cap \in Nat /\ cap >= want
  BY <1>3, <1>4
<1> HIDE DEF cap
<1>6. cap - MemoSpace \in Nat /\ cap - MemoSpace > 0
  BY <1>1, <1>2, <1>5
<1> QED
  BY <1>6 DEF cap, want

(* append_uninitialized into a new memo, then the copy.                    *)
LEMMA AppendFreshMakes ==
  ASSUME NEW h, NEW cnt, NEW A \in SUBSET BlockIds, Owns(h, cnt, A), FreeBlocks(h) # {},
         NEW r, Good(h, r), Counted(cnt, r), NEW s, Readable(h, Minus(cnt, r), A, s),
         s.len > 0, r.len + s.len <= MaxLength + 1, ~AppendInPlace(h, r, s.len)
  PROVE  /\ Makes(h, AppendCopy(h, r, s), Minus(cnt, r), A, Bytes(h, r) \o Bytes(h, s))
         /\ AppendCopy(h, r, s).r.held
<1> DEFINE c == Minus(cnt, r)
           p == Bytes(h, r)
           t == Bytes(h, s)
           n == s.len
           j == [i \in 1..n |-> Junk]
           want == r.len + n + MemoSpace
           cap == (IF want <= SmallMemo THEN RoundUp(want) ELSE Doubled(want)) - MemoSpace
           cr == CreateMemo(h, p \o j, cap)
           N == NewBlock(h)
           o1 == [h |-> DerefMemo(cr.h, r), r |-> cr.r]
           d2 == Write(p \o j, r.len, t)
<1>1. /\ h \in HeapType /\ cnt \in CountType /\ r \in RepType /\ s \in RepType
      /\ n \in Nat /\ r.len \in Nat
  BY DEF Owns, Good, Readable, RepType
<1>2. p \in Bytes8 /\ Len(p) = r.len
  BY <1>1, BytesOfRep
<1>3. j \in Bytes8 /\ Len(j) = n
  BY <1>1, JunkBytes
<1>4. cap \in Nat /\ cap > 0
  BY <1>1, AppendRoom
<1>5. AppendSpace(h, r, n) = o1
  BY DEF AppendSpace
<1> HIDE DEF j, cap, p
<1>6. p \o j \in Bytes8 /\ Len(p \o j) = r.len + n /\ \A i \in 1..Len(p) : (p \o j)[i] = p[i]
  <2>1. Len(p) \in Nat
    BY <1>1, <1>2
  <2>2. /\ p \o j \in Bytes8 /\ Len(p \o j) = Len(p) + Len(j)
        /\ \A i \in 1..(Len(p) + Len(j)) : (p \o j)[i] = IF i <= Len(p) THEN p[i] ELSE j[i - Len(p)]
    BY <1>2, <1>3, ConcatProperties DEF Bytes8
  <2>3. \A i \in 1..Len(p) : i \in 1..(Len(p) + Len(j)) /\ i <= Len(p)
    BY <1>1, <1>2, <1>3
  <2> QED
    BY <1>2, <1>3, <2>2, <2>3
<1>7. /\ Makes(h, cr, cnt, A, p \o j) /\ N \in BlockIds /\ cnt[N] = 0 /\ N \notin A
      /\ cr.r = Rep(N, <<>>, 0, Len(p \o j), TRUE) /\ cr.h[N].data = p \o j
  <2> DEFINE q == p \o j
  <2>1. q \in Bytes8 /\ cap \in Nat /\ cap > 0
    BY <1>4, <1>6
  <2> HIDE DEF q, cr
  <2>2. cr = CreateMemo(h, q, cap)
    BY DEF cr, q
  <2>3. /\ Makes(h, CreateMemo(h, q, cap), cnt, A, q)
        /\ NewBlock(h) \in BlockIds /\ cnt[NewBlock(h)] = 0 /\ NewBlock(h) \notin A
        /\ CreateMemo(h, q, cap).r = Rep(NewBlock(h), <<>>, 0, Len(q), TRUE)
        /\ CreateMemo(h, q, cap).h[NewBlock(h)].data = q
    BY <2>1, CreateMemoMakes, ZenonT(60)
  <2> QED
    BY <2>2, <2>3 DEF q
<1> HIDE DEF cr, N
<1>8. Makes(h, o1, c, A, p \o j)
  BY <1>1, <1>7, MakesThenDeref
<1>9. /\ o1.r.base = N /\ o1.r.held = TRUE /\ o1.r.at = 0 /\ o1.r.len = r.len + n
      /\ o1.r \in RepType
  <2>1. o1.r \in RepType
    BY <1>8 DEF Makes, Good
  <2> QED
    BY <1>6, <1>7, <2>1 DEF Rep
<1>10. o1.h[N].data = p \o j /\ o1.h \in HeapType /\ c[N] = 0
  <2> DEFINE c1 == Plus(cnt, cr.r)
  <2>1. Owns(cr.h, c1, A) /\ c1 \in CountType /\ cr.r \in RepType
    BY <1>7 DEF Makes, Owns, Good
  <2>2. ~Holds(r, N)
    BY <1>7 DEF Holds, Counted
  <2>3. Counted(c1, r)
    BY <1>1 DEF Counted, Plus, CountType
  <2>4. Minus(c1, r)[N] = 1
    <3>1. Plus(cnt, cr.r)[N] = 1
      BY <1>7 DEF Plus, Holds, Rep
    <3> QED
      BY <1>7, <2>2, <3>1 DEF Minus
  <2>5. c[N] = 0
    BY <1>7, <2>2 DEF Minus
  <2> HIDE DEF c1
  <2>6. DerefMemo(cr.h, r)[N].data = cr.h[N].data
    <3>1. Minus(c1, r)[N] > 0
      BY <2>4
    <3>2. \A b \in BlockIds : Minus(c1, r)[b] > 0 \/ b \in A =>
                               DerefMemo(cr.h, r)[b].data = cr.h[b].data
      BY <1>1, <2>1, <2>3, DerefMemoOwns
    <3> QED
      BY <1>7, <3>1, <3>2
  <2> QED
    BY <1>7, <1>8, <2>5, <2>6 DEF Makes, Owns
<1>11. Bytes(o1.h, s) = t /\ t \in Bytes8 /\ Len(t) = n
  <2>1. Frame(h, o1.h, c, A)
    BY <1>8 DEF Makes
  <2> QED
    BY <1>1, <1>10, <2>1, ReadableFramed
<1> HIDE DEF t, o1
<1>12. AppendCopy(h, r, s) =
        [h |-> [o1.h EXCEPT ![o1.r.base].data = d2], r |-> [o1.r EXCEPT !.len = r.len + n]]
  <2>1. o1.r.at + o1.r.len - n = r.len
    BY <1>1, <1>9
  <2>2. AppendCopy(h, r, s) =
          [o1 EXCEPT !.h[o1.r.base].data = Write(@, o1.r.at + o1.r.len - s.len, Bytes(o1.h, s))]
    BY <1>5 DEF AppendCopy
  <2>3. [o1.r EXCEPT !.len = r.len + n] = o1.r
    BY <1>9 DEF RepType
  <2>4. o1 = [h |-> o1.h, r |-> o1.r]
    BY DEF o1
  <2>5. [o1 EXCEPT !.h[o1.r.base].data = d2] = [h |-> [o1.h EXCEPT ![o1.r.base].data = d2], r |-> o1.r]
    BY <2>4
  <2>6. Write(o1.h[o1.r.base].data, o1.r.at + o1.r.len - s.len, Bytes(o1.h, s)) = d2
    BY <1>9, <1>10, <1>11, <2>1
  <2>7. AppendCopy(h, r, s) = [o1 EXCEPT !.h[o1.r.base].data = d2]
    BY <2>2, <2>6
  <2> QED
    BY <2>3, <2>5, <2>7
<1>13. d2 \in Bytes8 /\ Len(d2) = r.len + n /\ Part(d2, 0, r.len + n) = p \o t
  <2> DEFINE d1 == p \o j
  <2>1. 0 + Len(p) + Len(t) = Len(d1) /\ 0 + Len(p) = r.len /\ Len(p) + Len(t) = r.len + n
    BY <1>1, <1>2, <1>6, <1>11
  <2>2. \A i \in 1..Len(p) : 0 + i = i
    BY <1>1, <1>2
  <2>3. \A i \in 1..Len(p) : d1[0 + i] = p[i]
    BY <1>6, <2>2
  <2>4. d1 \in Bytes8 /\ p \in Bytes8 /\ t \in Bytes8 /\ 0 \in Nat
    BY <1>2, <1>6, <1>11
  <2>5. d2 = Write(d1, r.len, t)
    OBVIOUS
  <2> HIDE DEF d1, d2
  <2>6. /\ Write(d1, 0 + Len(p), t) \in Bytes8 /\ Len(Write(d1, 0 + Len(p), t)) = Len(d1)
        /\ Part(Write(d1, 0 + Len(p), t), 0, Len(p) + Len(t)) = p \o t
    BY <2>1, <2>3, <2>4, WrittenPart, Zenon
  <2> QED
    BY <1>6, <2>1, <2>5, <2>6 DEF d1
<1> HIDE DEF d2
<1>14. Makes(h, AppendCopy(h, r, s), c, A, p \o t)
  <2>1. r.len + n \in Nat /\ o1.r.at + (r.len + n) <= Len(d2) /\ ~(c[o1.r.base] > 0)
    BY <1>1, <1>9, <1>10, <1>13
  <2>2. Makes(h, [h |-> [o1.h EXCEPT ![o1.r.base].data = d2], r |-> [o1.r EXCEPT !.len = r.len + n]],
              c, A, Part(d2, o1.r.at, r.len + n))
    BY <1>1, <1>8, <1>9, <1>13, <2>1, WriteMakes
  <2> QED
    BY <1>9, <1>12, <1>13, <2>2
<1>15. AppendCopy(h, r, s).r.held
  BY <1>9, <1>12 DEF RepType
<1> QED
  BY <1>14, <1>15 DEF p, t

(* append of characters, in place or into a new memo.                      *)
LEMMA AppendCopyMakes ==
  ASSUME NEW h, NEW cnt, NEW A \in SUBSET BlockIds, Owns(h, cnt, A), FreeBlocks(h) # {},
         NEW r, Good(h, r), Counted(cnt, r), NEW s, Readable(h, Minus(cnt, r), A, s),
         s.len > 0, r.len + s.len <= MaxLength + 1
  PROVE  /\ Makes(h, AppendCopy(h, r, s), Minus(cnt, r), A, Bytes(h, r) \o Bytes(h, s))
         /\ AppendCopy(h, r, s).r.held
BY AppendInPlaceMakes, AppendFreshMakes, Zenon

(* A memory that differs in counts only is as good a place to begin.       *)
LEMMA SameData ==
  ASSUME NEW h, NEW g, NEW o, NEW cnt, NEW A, NEW text, Makes(g, o, cnt, A, text),
         \A b \in BlockIds : g[b].data = h[b].data
  PROVE  Makes(h, o, cnt, A, text)
<1>1. Frame(h, o.h, cnt, A)
  BY DEF Makes, Frame
<1> QED
  BY <1>1 DEF Makes

(* What is read depends on the bytes of the blocks only.                   *)
LEMMA SameBytes ==
  ASSUME NEW h, NEW g, NEW r \in RepType, \A b \in BlockIds : g[b].data = h[b].data
  PROVE  Bytes(g, r) = Bytes(h, r) /\ InRange(g, r) = InRange(h, r)
BY DEF Bytes, InRange, Source, RepType, Pointers

(* append(s, len, memo): s is text from outside, another String, which the *)
(* String then does not own alone, or a part of the String itself.         *)
LEMMA Append0Makes ==
  ASSUME NEW h, NEW cnt, NEW A \in SUBSET BlockIds, Owns(h, cnt, A), FreeBlocks(h) # {},
         NEW r, Good(h, r), Counted(cnt, r), NEW s, Good(h, s), Counted(cnt, s),
         NEW whole \in BOOLEAN, whole => s = r \/ Counted(Minus(cnt, r), s),
         r.len + s.len <= MaxLength
  PROVE  Makes(h, Append0(h, r, s, whole), Minus(cnt, r), A, Bytes(h, r) \o Bytes(h, s))
<1> DEFINE c == Minus(cnt, r)
<1>1. /\ h \in HeapType /\ cnt \in CountType /\ r \in RepType /\ s \in RepType
      /\ r.len \in Nat /\ s.len \in Nat /\ MaxLength \in Nat
  BY MemoAssumption DEF Owns, Good, RepType
<1>2. /\ Bytes(h, r) \in Bytes8 /\ Len(Bytes(h, r)) = r.len
      /\ Bytes(h, s) \in Bytes8 /\ Len(Bytes(h, s)) = s.len
  BY <1>1, BytesOfRep
<1>3. CASE s.len = 0
  <2>1. Bytes(h, s) = <<>>
    BY <1>2, <1>3, EmptySeq DEF Bytes8
  <2>2. Bytes(h, r) \o <<>> = Bytes(h, r)
    BY <1>2, ConcatEmptySeq DEF Bytes8
  <2>3. Append0(h, r, s, whole) = [h |-> h, r |-> r]
    BY <1>3 DEF Append0
  <2>4. Makes(h, [h |-> h, r |-> r], c, A, Bytes(h, r))
    BY SelfMakes
  <2> QED
    BY <2>1, <2>2, <2>3, <2>4
<1>4. CASE s.len # 0 /\ r.len = 0 /\ whole /\ s.held
  <2> DEFINE g == DerefMemo(h, r)
  <2>1. Append0(h, r, s, whole) = [h |-> RefMemo(g, s), r |-> s]
    BY <1>4 DEF Append0
  <2>2. Counted(c, s)
    BY <1>4
  <2>3. /\ Owns(g, c, A)
        /\ \A b \in BlockIds : c[b] > 0 \/ b \in A => g[b].data = h[b].data
    BY <1>1, DerefMemoOwns
  <2> HIDE DEF g
  <2>4. g[s.base].data = h[s.base].data /\ s.base \in BlockIds
    BY <1>4, <2>2, <2>3 DEF Counted
  <2>5. Bytes(g, s) = Bytes(h, s) /\ Good(g, s)
    BY <1>4, <2>4 DEF Bytes, Good, InRange, Source
  <2>6. Makes(g, [h |-> RefMemo(g, s), r |-> s], c, A, Bytes(g, s))
    BY <2>2, <2>3, <2>5, ShareMakes
  <2>7. Makes(h, [h |-> RefMemo(g, s), r |-> s], c, A, Bytes(h, s))
    <3>1. Makes(g, [h |-> RefMemo(g, s), r |-> s], c, A, Bytes(h, s))
      BY <2>5, <2>6
    <3> DEFINE o == [h |-> RefMemo(g, s), r |-> s]
    <3> HIDE DEF o
    <3>2. Makes(DerefMemo(h, r), o, Minus(cnt, r), A, Bytes(h, s))
      BY <3>1 DEF g, o
    <3>3. Makes(h, o, Minus(cnt, r), A, Bytes(h, s))
      BY <1>1, <3>2, DerefThenMakes
    <3> QED
      BY <3>3 DEF o
  <2>8. Bytes(h, r) = <<>>
    BY <1>2, <1>4, EmptySeq DEF Bytes8
  <2>9. <<>> \o Bytes(h, s) = Bytes(h, s)
    BY <1>2, ConcatEmptySeq DEF Bytes8
  <2> QED
    BY <2>1, <2>7, <2>8, <2>9
<1>5. CASE s.len # 0 /\ ~(r.len = 0 /\ whole /\ s.held) /\ r.held /\ s.base = r.base
  <2> DEFINE g == RefMemo(h, r)
             c1 == Plus(cnt, r)
             a == AppendCopy(g, r, s)
  <2>1. Append0(h, r, s, whole) = [a EXCEPT !.h = DerefMemo(@, r)]
    BY <1>5 DEF Append0
  <2>2. /\ Owns(g, c1, A) /\ \A b \in BlockIds : g[b].data = h[b].data
        /\ \A b \in BlockIds : g[b].cap = h[b].cap
    BY <1>1, RefMemoOwns
  <2>3. g \in HeapType /\ c1 \in CountType /\ FreeBlocks(g) # {} /\ Minus(c1, r) = cnt
    <3>1. FreeBlocks(g) = FreeBlocks(h)
      BY <2>2 DEF FreeBlocks
    <3> QED
      BY <1>1, <2>2, <3>1, CountsTyped DEF Owns
  <2> HIDE DEF g, c1
  <2>4. /\ Bytes(g, r) = Bytes(h, r) /\ Good(g, r)
        /\ Bytes(g, s) = Bytes(h, s) /\ InRange(g, s)
    BY <1>1, <2>2, SameBytes DEF Good
  <2>5. Counted(c1, r)
    BY <1>1, CountsTyped DEF c1, Good
  <2>6. Readable(g, Minus(c1, r), A, s)
    BY <1>1, <1>5, <2>3, <2>4 DEF Readable, Counted
  <2>7. s.len > 0 /\ r.len + s.len <= MaxLength + 1
    BY <1>1, <1>5
  <2>8. Makes(g, a, cnt, A, Bytes(h, r) \o Bytes(h, s))
    <3>1. Makes(g, a, Minus(c1, r), A, Bytes(g, r) \o Bytes(g, s))
      BY <2>2, <2>3, <2>4, <2>5, <2>6, <2>7, AppendCopyMakes
    <3> QED
      BY <2>3, <2>4, <3>1
  <2>9. a = [h |-> a.h, r |-> a.r]
    <3> DEFINE x == AppendSpace(g, r, s.len)
    <3>1. x = [h |-> x.h, r |-> x.r]
      BY DEF AppendSpace
    <3>2. a = [x EXCEPT !.h[x.r.base].data = Write(@, x.r.at + x.r.len - s.len, Bytes(x.h, s))]
      BY DEF AppendCopy
    <3> HIDE DEF x, a
    <3> QED
      BY <3>1, <3>2
  <2> HIDE DEF a
  <2>10. Append0(h, r, s, whole) = [h |-> DerefMemo(a.h, r), r |-> a.r]
    BY <2>1, <2>9
  <2>11. Makes(g, [h |-> DerefMemo(a.h, r), r |-> a.r], c, A, Bytes(h, r) \o Bytes(h, s))
    BY <1>1, <2>3, <2>8, MakesThenDeref
  <2> QED
    BY <2>2, <2>10, <2>11, SameData
<1>6. CASE s.len # 0 /\ ~(r.len = 0 /\ whole /\ s.held) /\ ~(r.held /\ s.base = r.base)
  <2>1. Append0(h, r, s, whole) = AppendCopy(h, r, s)
    BY <1>6 DEF Append0
  <2>2. s.base # Static => c[s.base] > 0
    BY <1>1, <1>6 DEF Good, Counted, Minus, Holds
  <2>3. Readable(h, c, A, s)
    BY <1>1, <2>2 DEF Readable, Good
  <2>4. s.len > 0 /\ r.len + s.len <= MaxLength + 1
    BY <1>1, <1>6
  <2> QED
    BY <2>1, <2>3, <2>4, AppendCopyMakes
<1> QED
  BY <1>3, <1>4, <1>5, <1>6

-----------------------------------------------------------------------------
(* Parts of a String, terminated, unshared and lower-case copies           *)

(* The representation of n bytes from byte i on.                           *)
Cut(r, i, n) == [r EXCEPT !.at = @ + i, !.len = n]

(* The bytes of a subsequence within the sequence.                         *)
LEMMA SubSeqBytes ==
  ASSUME NEW p \in Bytes8, NEW i \in Nat, NEW n \in Nat, i + n <= Len(p)
  PROVE  /\ SubSeq(p, i + 1, i + n) \in Bytes8 /\ Len(SubSeq(p, i + 1, i + n)) = n
         /\ \A k \in 1..n : SubSeq(p, i + 1, i + n)[k] = p[i + k]
<1> DEFINE lo == i + 1
           hi == i + n
           q == SubSeq(p, lo, hi)
<1>1. lo \in Int /\ hi \in Int /\ \A k \in lo..hi : k \in 1..Len(p)
  BY DEF Bytes8
<1>2. \A k \in lo..hi : p[k] \in Int
  BY <1>1 DEF Bytes8
<1> HIDE DEF lo, hi
<1>3. /\ q \in Seq(Int) /\ Len(q) = IF lo <= hi THEN hi - lo + 1 ELSE 0
      /\ \A k \in 1..(hi - lo + 1) : q[k] = p[lo + k - 1]
  BY <1>1, <1>2, SubSeqProperties
<1>4. (IF lo <= hi THEN hi - lo + 1 ELSE 0) = n /\ hi - lo + 1 = n /\ \A k \in 1..n : lo + k - 1 = i + k
  BY DEF lo, hi
<1> QED
  BY <1>3, <1>4 DEF Bytes8, lo, hi

(* A part of what a representation reads is the part of its text.          *)
LEMMA CutRep ==
  ASSUME NEW h \in HeapType, NEW r, Good(h, r), NEW i \in Nat, NEW n \in Nat, i + n <= r.len
  PROVE  /\ Good(h, Cut(r, i, n)) /\ Bytes(h, Cut(r, i, n)) = SubSeq(Bytes(h, r), i + 1, i + n)
         /\ Cut(r, i, n).base = r.base /\ Cut(r, i, n).held = r.held
         /\ Cut(r, i, n).len = n /\ Cut(r, i, n).at = r.at + i
<1> DEFINE q == Cut(r, i, n)
           d == Source(h, r)
           p == Bytes(h, r)
<1>1. r \in RepType /\ r.at \in Nat /\ r.len \in Nat /\ r.at + i \in Nat
  BY DEF Good, RepType
<1>2. /\ q \in RepType /\ q.base = r.base /\ q.held = r.held /\ q.text = r.text
      /\ q.at = r.at + i /\ q.len = n
  BY <1>1 DEF Cut, RepType
<1> HIDE DEF q
<1>3. /\ d \in Bytes8 /\ p = Part(d, r.at, r.len) /\ p \in Bytes8 /\ Len(p) = r.len
      /\ Source(h, q) = d
  BY <1>1, <1>2, BytesOfRep DEF Source
<1>4. r.at + r.len <= Len(d) /\ Len(d) \in Nat
  BY <1>3 DEF Good, InRange, Bytes8
<1> HIDE DEF d, p
<1>5. Bytes(h, q) = Part(d, r.at + i, n) /\ Bytes(h, q) \in Bytes8 /\ Len(Bytes(h, q)) = n
  BY <1>2, <1>3, BytesOfRep
<1>6. /\ SubSeq(p, i + 1, i + n) \in Bytes8 /\ Len(SubSeq(p, i + 1, i + n)) = n
      /\ \A k \in 1..n : SubSeq(p, i + 1, i + n)[k] = p[i + k]
  <2>1. i + n <= Len(p)
    BY <1>3
  <2> QED
    BY <1>3, <2>1, SubSeqBytes, Zenon
<1>7. \A k \in 1..n : Bytes(h, q)[k] = p[i + k]
  <2>1. \A k \in 1..n : Part(d, r.at + i, n)[k] =
                          IF (r.at + i) + k <= Len(d) THEN d[(r.at + i) + k] ELSE Junk
    BY DEF Part
  <2>2. \A k \in 1..r.len : p[k] = IF r.at + k <= Len(d) THEN d[r.at + k] ELSE Junk
    <3>1. \A k \in 1..r.len : Part(d, r.at, r.len)[k] =
                              IF r.at + k <= Len(d) THEN d[r.at + k] ELSE Junk
      BY DEF Part
    <3> QED
      BY <1>3, <3>1
  <2>3. \A k \in 1..n : i + k \in 1..r.len /\ (r.at + i) + k = r.at + (i + k)
    BY <1>1
  <2> QED
    BY <1>5, <2>1, <2>2, <2>3
<1>8. Bytes(h, q) = SubSeq(p, i + 1, i + n)
  <2> DEFINE u == SubSeq(p, i + 1, i + n)
             v == Bytes(h, q)
  <2>1. u \in Seq(Int) /\ v \in Seq(Int) /\ Len(u) = Len(v) /\ \A k \in 1..Len(v) : v[k] = u[k]
    BY <1>5, <1>6, <1>7 DEF Bytes8
  <2> HIDE DEF u, v
  <2>2. v = u
    BY <2>1, SeqEqual
  <2> QED
    BY <2>2 DEF u, v
<1>9. Good(h, q)
  BY <1>1, <1>2, <1>3, <1>4 DEF Good, InRange
<1> QED
  BY <1>2, <1>8, <1>9 DEF q, p

(* An operation whose result is cut short afterwards.                      *)
LEMMA CutMakes ==
  ASSUME NEW h, NEW o, NEW cnt, NEW A, NEW text, Makes(h, o, cnt, A, text),
         NEW i \in Nat, NEW n \in Nat, i + n <= o.r.len
  PROVE  Makes(h, [h |-> o.h, r |-> Cut(o.r, i, n)], cnt, A, SubSeq(text, i + 1, i + n))
<1>1. o.h \in HeapType /\ Good(o.h, o.r) /\ Bytes(o.h, o.r) = text
  BY DEF Makes, Owns
<1>2. /\ Good(o.h, Cut(o.r, i, n)) /\ Bytes(o.h, Cut(o.r, i, n)) = SubSeq(text, i + 1, i + n)
      /\ Cut(o.r, i, n).base = o.r.base /\ Cut(o.r, i, n).held = o.r.held
  BY <1>1, CutRep
<1>3. Plus(cnt, Cut(o.r, i, n)) = Plus(cnt, o.r)
  BY <1>2 DEF Plus, Holds
<1> QED
  BY <1>2, <1>3 DEF Makes

(* The byte behind the data is there and is NUL.                           *)
Ended(h, r) ==
  IF r.base = Static THEN r.at + r.len = Len(r.text)
  ELSE r.at + r.len < Len(h[r.base].data) /\ h[r.base].data[r.at + r.len + 1] = Nul

(* c_str: the pointer it returns is terminated.                            *)
LEMMA CStrMakes ==
  ASSUME NEW h, NEW cnt, NEW A \in SUBSET BlockIds, Owns(h, cnt, A), FreeBlocks(h) # {},
         NEW r, Good(h, r), Counted(cnt, r), r.len <= MaxLength
  PROVE  /\ Makes(h, CStrOf(h, r), Minus(cnt, r), A, Bytes(h, r))
         /\ Ended(CStrOf(h, r).h, CStrOf(h, r).r)
<1> DEFINE c == Minus(cnt, r)
           s == Stable(<<Nul>>)
           a == AppendCopy(h, r, s)
           p == Bytes(h, r)
<1>1. h \in HeapType /\ r \in RepType /\ r.len \in Nat /\ MaxLength \in Nat
  BY MemoAssumption DEF Owns, Good, RepType
<1>2. CASE Ended(h, r)
  <2>1. CStrOf(h, r) = [h |-> h, r |-> r]
    BY <1>2 DEF CStrOf, Ended
  <2> QED
    BY <1>2, <2>1, SelfMakes
<1>3. CASE ~Ended(h, r)
  <2>1. CStrOf(h, r) = [h |-> a.h, r |-> [a.r EXCEPT !.len = @ - 1]]
    BY <1>3 DEF CStrOf, Ended
  <2>2. <<Nul>> \in Bytes8 /\ Len(<<Nul>>) = 1 /\ <<Nul>>[1] = Nul
    BY DEF Nul, Bytes8
  <2>3. Good(h, s) /\ Bytes(h, s) = <<Nul>> /\ s.base = Static /\ s.len = 1 /\ s \in RepType
    BY <1>1, <2>2, StableRep
  <2> HIDE DEF s
  <2>4. Readable(h, c, A, s)
    BY <2>3 DEF Readable, Good
  <2>5. Makes(h, a, c, A, p \o <<Nul>>) /\ a.r.held
    <3>1. s.len > 0 /\ r.len + s.len <= MaxLength + 1
      BY <1>1, <2>3
    <3> QED
      BY <2>3, <2>4, <3>1, AppendCopyMakes
  <2> HIDE DEF a
  <2>6. p \in Bytes8 /\ Len(p) = r.len
    BY <1>1, BytesOfRep
  <2> HIDE DEF p
  <2>7. /\ p \o <<Nul>> \in Bytes8 /\ Len(p \o <<Nul>>) = r.len + 1
        /\ (p \o <<Nul>>)[r.len + 1] = Nul
    <3>1. /\ p \o <<Nul>> \in Seq(Int) /\ Len(p \o <<Nul>>) = Len(p) + Len(<<Nul>>)
          /\ \A i \in 1..(Len(p) + Len(<<Nul>>)) :
               (p \o <<Nul>>)[i] = IF i <= Len(p) THEN p[i] ELSE <<Nul>>[i - Len(p)]
      BY <2>2, <2>6, ConcatProperties DEF Bytes8
    <3>2. r.len + 1 \in 1..(r.len + 1) /\ ~(r.len + 1 <= r.len) /\ (r.len + 1) - r.len = 1
      BY <1>1
    <3> QED
      BY <2>2, <2>6, <3>1, <3>2 DEF Bytes8
  <2>8. SubSeq(p \o <<Nul>>, 0 + 1, 0 + r.len) = p
    <3> DEFINE u == p \o <<Nul>>
    <3>1. \A i \in 1..r.len : i \in 1..Len(u) /\ i \in 1..(Len(p) + 1) /\ i <= Len(p)
      BY <1>1, <2>6, <2>7
    <3>2. \A i \in 1..r.len : u[i] = p[i]
      BY <2>2, <2>6, <3>1, ConcatProperties DEF Bytes8
    <3>3. \A i \in 1..r.len : u[i] \in Int
      BY <2>6, <3>2 DEF Bytes8
    <3> HIDE DEF u
    <3>4. /\ SubSeq(u, 1, r.len) \in Seq(Int)
          /\ Len(SubSeq(u, 1, r.len)) = IF 1 <= r.len THEN r.len - 1 + 1 ELSE 0
          /\ \A i \in 1..(r.len - 1 + 1) : SubSeq(u, 1, r.len)[i] = u[1 + i - 1]
      BY <1>1, <3>3, SubSeqProperties
    <3>5. /\ (IF 1 <= r.len THEN r.len - 1 + 1 ELSE 0) = r.len /\ r.len - 1 + 1 = r.len
          /\ \A i \in 1..r.len : 1 + i - 1 = i
      BY <1>1
    <3>6. SubSeq(u, 1, r.len) = p
      <4>1. \A i \in 1..r.len : SubSeq(u, 1, r.len)[i] = p[i]
        BY <3>2, <3>4, <3>5
      <4> QED
        BY <2>6, <3>4, <3>5, <4>1, SeqEqual DEF Bytes8
    <3>7. 0 + 1 = 1 /\ 0 + r.len = r.len
      BY <1>1
    <3> QED
      BY <3>6, <3>7 DEF u
  <2>9. /\ Good(a.h, a.r) /\ a.h \in HeapType /\ a.r \in RepType /\ Bytes(a.h, a.r) = p \o <<Nul>>
        /\ a.r.len = r.len + 1 /\ a.r.base # Static /\ a.r.at \in Nat
    <3>1. /\ Good(a.h, a.r) /\ a.h \in HeapType /\ a.r \in RepType
          /\ Bytes(a.h, a.r) = p \o <<Nul>>
      BY <2>5 DEF Makes, Owns, Good
    <3>2. Len(Bytes(a.h, a.r)) = a.r.len
      BY <3>1, BytesOfRep
    <3> QED
      BY <2>5, <2>7, <3>1, <3>2 DEF Good, RepType
  <2>10. [a.r EXCEPT !.len = @ - 1] = Cut(a.r, 0, r.len)
    <3>1. (r.len + 1) - 1 = r.len /\ a.r.at + 0 = a.r.at
      BY <1>1, <2>9
    <3>2. Cut(a.r, 0, r.len) = [a.r EXCEPT !.at = a.r.at, !.len = r.len]
      BY <3>1 DEF Cut
    <3>3. [a.r EXCEPT !.len = @ - 1] = [a.r EXCEPT !.len = r.len]
      BY <2>9, <3>1
    <3> QED
      BY <2>9, <3>2, <3>3 DEF RepType
  <2>11. Makes(h, [h |-> a.h, r |-> Cut(a.r, 0, r.len)], c, A, p)
    <3>1. 0 + r.len <= a.r.len
      BY <1>1, <2>9
    <3> QED
      BY <1>1, <2>5, <2>8, <3>1, CutMakes
  <2>12. Ended(a.h, Cut(a.r, 0, r.len))
    <3> DEFINE d == a.h[a.r.base].data
               q == Cut(a.r, 0, r.len)
    <3>1. q.base = a.r.base /\ q.at = a.r.at /\ q.len = r.len
      BY <1>1, <2>9 DEF Cut, RepType
    <3>2. Source(a.h, a.r) = d /\ a.r.at + a.r.len <= Len(d) /\ d \in Bytes8 /\ Len(d) \in Nat
      BY <2>9, BytesOfRep DEF Good, InRange, Source, Bytes8
    <3>3. p \o <<Nul>> = Part(d, a.r.at, a.r.len)
      BY <2>9, <3>2, BytesOfRep
    <3> HIDE DEF d, q
    <3>4. Part(d, a.r.at, a.r.len)[r.len + 1] =
            IF a.r.at + (r.len + 1) <= Len(d) THEN d[a.r.at + (r.len + 1)] ELSE Junk
      <4>1. r.len + 1 \in 1..a.r.len /\ a.r.len \in Nat
        BY <1>1, <2>9
      <4> QED
        BY <2>9, <3>2, <4>1, PartBytes, Zenon
    <3>5. /\ a.r.at + (r.len + 1) <= Len(d) /\ a.r.at + r.len < Len(d)
          /\ a.r.at + (r.len + 1) = a.r.at + r.len + 1
      BY <1>1, <2>9, <3>2
    <3>6. d[a.r.at + r.len + 1] = Nul
      BY <2>7, <3>3, <3>4, <3>5
    <3> QED
      BY <2>9, <3>1, <3>5, <3>6 DEF Ended, d, q
  <2> DEFINE z == CStrOf(h, r)
  <2>13. z = [h |-> a.h, r |-> Cut(a.r, 0, r.len)]
    BY <2>1, <2>10
  <2> HIDE DEF z
  <2>14. Makes(h, z, c, A, p) /\ Ended(z.h, z.r)
    BY <2>11, <2>12, <2>13
  <2> QED
    BY <2>14 DEF z, p
<1> QED
  BY <1>2, <1>3

(* mutable_data of a String that shares its memo with no other: a copy.    *)
LEMMA MutableMakes ==
  ASSUME NEW h, NEW cnt, NEW A \in SUBSET BlockIds, Owns(h, cnt, A), FreeBlocks(h) # {},
         NEW r, Good(h, r), Counted(cnt, r), IsShared(h, r)
  PROVE  /\ Makes(h, MutableData(h, r), Minus(cnt, r), A, Bytes(h, r))
         /\ \E g : \E a :
              /\ Makes(g, a, cnt, A, Bytes(h, r)) /\ a = AssignNew(g, Bytes(h, r))
              /\ Owns(g, cnt, A) /\ FreeBlocks(g) # {}
              /\ MutableData(h, r) = [h |-> DerefMemo(a.h, r), r |-> a.r]
<1> DEFINE h1 == RefMemo(h, r)
           g == DerefMemo(h1, r)
           a == AssignNew(g, Bytes(h, r))
<1>1. h \in HeapType /\ cnt \in CountType /\ r \in RepType
  BY DEF Owns, Good
<1>2. /\ Owns(h1, Plus(cnt, r), A) /\ \A b \in BlockIds : h1[b].data = h[b].data
      /\ \A b \in BlockIds : h1[b].cap = h[b].cap
  BY <1>1, RefMemoOwns
<1>3. FreeBlocks(h1) = FreeBlocks(h)
  BY <1>2 DEF FreeBlocks
<1>4. Bytes(h1, r) = Bytes(h, r)
  BY <1>1, <1>2, SameBytes
<1>5. MutableData(h, r) = [AssignNew(g, Bytes(h1, r)) EXCEPT !.h = DerefMemo(@, r)]
  BY DEF MutableData
<1> HIDE DEF h1
<1>6. Counted(Plus(cnt, r), r) /\ Minus(Plus(cnt, r), r) = cnt
  BY <1>1, CountsTyped DEF Good
<1>7. /\ Owns(g, Minus(Plus(cnt, r), r), A) /\ FreeBlocks(h1) \subseteq FreeBlocks(g)
      /\ \A b \in BlockIds : Minus(Plus(cnt, r), r)[b] > 0 \/ b \in A => g[b].data = h1[b].data
  BY <1>1, <1>2, <1>6, DerefMemoOwns
<1>8. /\ Owns(g, cnt, A) /\ FreeBlocks(g) # {}
      /\ \A b \in BlockIds : cnt[b] > 0 \/ b \in A => g[b].data = h[b].data
  BY <1>2, <1>3, <1>6, <1>7
<1> HIDE DEF g
<1>9. Bytes(h, r) \in Bytes8
  BY <1>1, BytesOfRep
<1>10. Makes(g, a, cnt, A, Bytes(h, r))
  BY <1>8, <1>9, AssignNewMakes
<1>11. a = [h |-> a.h, r |-> a.r]
  BY DEF AssignNew, CreateMemo
<1>12. a = AssignNew(g, Bytes(h, r))
  OBVIOUS
<1>13. MutableData(h, r) = [a EXCEPT !.h = DerefMemo(@, r)]
  BY <1>4, <1>5
<1> HIDE DEF a
<1>14. MutableData(h, r) = [h |-> DerefMemo(a.h, r), r |-> a.r]
  BY <1>11, <1>13
<1>15. g \in HeapType
  BY <1>8 DEF Owns
<1>16. Makes(g, MutableData(h, r), Minus(cnt, r), A, Bytes(h, r))
  BY <1>1, <1>10, <1>14, <1>15, MakesThenDeref
<1>17. Makes(h, MutableData(h, r), Minus(cnt, r), A, Bytes(h, r))
  <2>1. \A b \in BlockIds : Minus(cnt, r)[b] > 0 => cnt[b] > 0
    BY <1>1 DEF Minus, CountType
  <2>2. Frame(h, MutableData(h, r).h, Minus(cnt, r), A)
    BY <1>8, <1>16, <2>1 DEF Makes, Frame
  <2> QED
    BY <1>16, <2>2 DEF Makes
<1> QED
  BY <1>8, <1>10, <1>12, <1>14, <1>17

(* unique() and shrink_to_fit(): a copy, or the same memo once more.       *)
LEMMA UniqueMakes ==
  ASSUME NEW h, NEW cnt, NEW A \in SUBSET BlockIds, Owns(h, cnt, A), FreeBlocks(h) # {},
         NEW r, Good(h, r), Counted(cnt, r)
  PROVE  /\ Makes(h, UniqueOf(h, r), cnt, A, Bytes(h, r))
         /\ Makes(h, ShrinkOf(h, r), cnt, A, Bytes(h, r))
<1>1. Bytes(h, r) \in Bytes8
  BY BytesOfRep DEF Owns, Good
<1>2. Makes(h, AssignNew(h, Bytes(h, r)), cnt, A, Bytes(h, r))
  BY <1>1, AssignNewMakes
<1>3. Makes(h, [h |-> RefMemo(h, r), r |-> r], cnt, A, Bytes(h, r))
  BY ShareMakes
<1> QED
  BY <1>2, <1>3 DEF UniqueOf, ShrinkOf

(* The text in lower case.                                                 *)
LowerText(t) == [i \in 1..Len(t) |-> Lower(t[i])]

(* lower() keeps the length.                                               *)
LEMMA LowerBytes ==
  ASSUME NEW t \in Bytes8
  PROVE  LowerText(t) \in Bytes8 /\ Len(LowerText(t)) = Len(t)
<1>1. Len(t) \in Nat /\ \A i \in 1..Len(t) : Lower(t[i]) \in Int
  BY DEF Bytes8, Lower
<1>2. LowerText(t) \in [1..Len(t) -> Int]
  BY <1>1 DEF LowerText
<1> QED
  BY <1>1, <1>2, FunctionSeq

(* lower: a copy when a character changes, otherwise a share.              *)
LEMMA LowerMakes ==
  ASSUME NEW h, NEW cnt, NEW A \in SUBSET BlockIds, Owns(h, cnt, A), FreeBlocks(h) # {},
         NEW r, Good(h, r), Counted(cnt, r)
  PROVE  Makes(h, LowerOf(h, r), cnt, A, LowerText(Bytes(h, r)))
<1> DEFINE t == Bytes(h, r)
<1>1. t \in Bytes8
  BY BytesOfRep DEF Owns, Good
<1>2. CASE \E i \in 1..Len(t) : Lower(t[i]) # t[i]
  <2>1. LowerOf(h, r) = AssignNew(h, LowerText(t))
    BY <1>2 DEF LowerOf, LowerText
  <2> QED
    BY <1>1, <2>1, LowerBytes, AssignNewMakes
<1>3. CASE ~\E i \in 1..Len(t) : Lower(t[i]) # t[i]
  <2>1. LowerOf(h, r) = [h |-> RefMemo(h, r), r |-> r]
    BY <1>3 DEF LowerOf
  <2>2. LowerText(t) = t
    <3> HIDE DEF t
    <3>1. \A i \in 1..Len(t) : LowerText(t)[i] = t[i]
      BY <1>3 DEF LowerText
    <3>2. LowerText(t) \in Seq(Int) /\ Len(LowerText(t)) = Len(t) /\ t \in Seq(Int)
      BY <1>1, LowerBytes DEF Bytes8
    <3> QED
      BY <3>1, <3>2, SeqEqual
  <2>3. Makes(h, [h |-> RefMemo(h, r), r |-> r], cnt, A, t)
    BY ShareMakes
  <2> QED
    BY <2>1, <2>2, <2>3
<1> QED
  BY <1>2, <1>3

(* substr: the part Perl's substr would give, as another holder.           *)
LEMMA SubstrMakes ==
  ASSUME NEW h, NEW cnt, NEW A \in SUBSET BlockIds, Owns(h, cnt, A),
         NEW r, Good(h, r), Counted(cnt, r), NEW pos \in Int, NEW len \in Int
  PROVE  Makes(h, [h |-> RefMemo(h, SubstrOf(r, pos, len)), r |-> SubstrOf(r, pos, len)], cnt, A,
               SubstrText(Bytes(h, r), pos, len))
<1> DEFINE t == Bytes(h, r)
           L == r.len
           from == IF pos < 0 THEN pos + L ELSE pos
           past == IF len < 0 THEN L + len ELSE IF from >= 0 /\ len >= L THEN L ELSE from + len
           i == IF from < 0 THEN 0 ELSE from
           e == IF past > L THEN L ELSE past
           q == SubstrOf(r, pos, len)
<1>1. h \in HeapType /\ r \in RepType /\ L \in Nat /\ t \in Bytes8 /\ Len(t) = L
  BY BytesOfRep DEF Owns, Good, RepType
<1>2. q = IF i >= e THEN EmptyRep ELSE Cut(r, i, e - i)
  BY DEF SubstrOf, Cut
<1>3. SubstrText(t, pos, len) = SubSeq(t, i + 1, e)
  <2> DEFINE f2 == IF pos < 0 THEN Len(t) + pos ELSE pos
             t2 == IF len < 0 THEN Len(t) + len ELSE f2 + len
             e2 == IF t2 > Len(t) THEN Len(t) ELSE t2
             i2 == IF f2 < 0 THEN 0 ELSE f2
  <2>1. SubstrText(t, pos, len) = SubSeq(t, i2 + 1, e2)
    BY DEF SubstrText
  <2>2. i2 = i /\ e2 = e
    BY <1>1
  <2> HIDE DEF i2, e2, i, e
  <2> QED
    BY <2>1, <2>2
<1>4. i \in Nat /\ e \in Int /\ e <= L
  BY <1>1
<1> HIDE DEF i, e, q
<1>5. CASE i >= e
  <2>1. SubSeq(t, i + 1, e) = <<>>
    BY <1>4, <1>5, SubSeqEmpty
  <2>2. RefMemo(h, EmptyRep) = h
    BY DEF RefMemo, EmptyRep, Stable, Rep
  <2>3. Makes(h, [h |-> h, r |-> EmptyRep], cnt, A, <<>>)
    BY EmptyMakes
  <2> QED
    BY <1>2, <1>3, <1>5, <2>1, <2>2, <2>3 DEF q
<1>6. CASE ~(i >= e)
  <2>1. e - i \in Nat /\ i + (e - i) = e /\ i + (e - i) <= r.len
    BY <1>1, <1>4, <1>6
  <2>2. /\ Good(h, Cut(r, i, e - i)) /\ Bytes(h, Cut(r, i, e - i)) = SubSeq(t, i + 1, i + (e - i))
        /\ Cut(r, i, e - i).base = r.base /\ Cut(r, i, e - i).held = r.held
    BY <1>1, <1>4, <2>1, CutRep
  <2>3. q = Cut(r, i, e - i)
    BY <1>2, <1>6
  <2>4. Good(h, q) /\ Bytes(h, q) = SubSeq(t, i + 1, e) /\ Counted(cnt, q)
    BY <2>1, <2>2, <2>3 DEF Counted
  <2>5. Makes(h, [h |-> RefMemo(h, q), r |-> q], cnt, A, Bytes(h, q))
    BY <2>4, ShareMakes
  <2> QED
    BY <1>3, <2>4, <2>5 DEF q
<1> QED
  BY <1>5, <1>6

(* A write through mutable_data(): the memo is the String's alone.         *)
LEMMA SetFirstMakes ==
  ASSUME NEW h, NEW cnt, NEW A \in SUBSET BlockIds, Owns(h, cnt, A), FreeBlocks(h) # {},
         NEW r, Good(h, r), Counted(cnt, r), IsShared(h, r), r.len > 0, NEW v \in Int
  PROVE  LET o == MutableData(h, r)
         IN  Makes(h, [o EXCEPT !.h[o.r.base].data[o.r.at + 1] = v], Minus(cnt, r), A,
                   [Bytes(h, r) EXCEPT ![1] = v])
<1> DEFINE o == MutableData(h, r)
           c == Minus(cnt, r)
           b == o.r.base
           d == o.h[b].data
           e == [d EXCEPT ![o.r.at + 1] = v]
           t == Bytes(h, r)
<1>1. h \in HeapType /\ cnt \in CountType /\ r \in RepType /\ r.len \in Nat
  BY DEF Owns, Good, RepType
<1>2. t \in Bytes8 /\ Len(t) = r.len
  BY <1>1, BytesOfRep
<1>3. Makes(h, o, c, A, t)
  BY MutableMakes
<1>4. PICK g : \E a :
        /\ Makes(g, a, cnt, A, t) /\ a = AssignNew(g, t)
        /\ Owns(g, cnt, A) /\ FreeBlocks(g) # {}
        /\ o = [h |-> DerefMemo(a.h, r), r |-> a.r]
  BY MutableMakes
<1>5. PICK a :
        /\ Makes(g, a, cnt, A, t) /\ a = AssignNew(g, t)
        /\ Owns(g, cnt, A) /\ FreeBlocks(g) # {}
        /\ o = [h |-> DerefMemo(a.h, r), r |-> a.r]
  BY <1>4
<1>6. o.r = a.r /\ o = [h |-> o.h, r |-> o.r]
  BY <1>5
<1> HIDE DEF o, t
<1>7. o.r.held /\ b = NewBlock(g) /\ b \in BlockIds /\ cnt[b] = 0
  <2> DEFINE room == RoundUp(Len(t) + MemoSpace)
             cap == room - MemoSpace
  <2>1. t # <<>> /\ MemoSpace \in Nat
    BY <1>1, <1>2, EmptySeq, MemoAssumption
  <2>2. room \in Nat /\ room >= Len(t) + MemoSpace
    <3> DEFINE n == Len(t) + MemoSpace
    <3>1. n \in Nat
      BY <1>1, <1>2, <2>1
    <3> HIDE DEF n
    <3>2. RoundUp(n) \in Nat /\ RoundUp(n) >= n
      BY <3>1, RoundUpRoom
    <3> QED
      BY <3>2 DEF n
  <2>3. cap \in Nat /\ cap > 0
    BY <1>1, <1>2, <2>1, <2>2
  <2>4. a = CreateMemo(g, t, cap)
    BY <1>5, <2>1 DEF AssignNew
  <2> HIDE DEF cap
  <2>5. /\ NewBlock(g) \in BlockIds /\ cnt[NewBlock(g)] = 0
        /\ CreateMemo(g, t, cap).r = Rep(NewBlock(g), <<>>, 0, Len(t), TRUE)
    <3>1. Owns(g, cnt, A) /\ FreeBlocks(g) # {} /\ t \in Bytes8 /\ cap \in Nat /\ cap > 0
      BY <1>2, <1>5, <2>3
    <3>2. NewBlock(g) \in FreeBlocks(g)
      BY <3>1 DEF NewBlock
    <3>3. NewBlock(g) \in BlockIds /\ g[NewBlock(g)].cap = 0
      BY <3>2 DEF FreeBlocks
    <3>4. cnt[NewBlock(g)] = 0
      BY <3>1, <3>3 DEF Owns, CountType
    <3> QED
      BY <3>3, <3>4 DEF CreateMemo
  <2> QED
    BY <1>6, <2>4, <2>5 DEF Rep
<1>8. /\ o.h \in HeapType /\ o.r \in RepType /\ Good(o.h, o.r) /\ Bytes(o.h, o.r) = t
      /\ o.r.at \in Nat /\ b # Static
  BY <1>3, <1>7, ProgramAssumption DEF Makes, Owns, Good, RepType
<1>9. /\ o.r.len = r.len /\ d \in Bytes8 /\ Len(d) \in Nat /\ o.r.at + o.r.len <= Len(d)
      /\ t = Part(d, o.r.at, r.len)
  <2>1. Source(o.h, o.r) = d
    BY <1>8 DEF Source
  <2>2. d \in Bytes8 /\ t = Part(d, o.r.at, o.r.len) /\ Len(t) = o.r.len
    BY <1>8, <2>1, BytesOfRep
  <2>3. o.r.at + o.r.len <= Len(d)
    BY <1>8, <2>1 DEF Good, InRange
  <2> QED
    BY <1>2, <2>2, <2>3 DEF Bytes8
<1> HIDE DEF d
<1>10. o.r.at + 1 \in 1..Len(d)
  BY <1>1, <1>8, <1>9
<1>11. e \in Bytes8 /\ Len(e) = Len(d) /\ \A i \in 1..Len(d) : e[i] = IF i = o.r.at + 1 THEN v ELSE d[i]
  BY <1>9, <1>10 DEF Bytes8
<1>12. Part(e, o.r.at, r.len) = [t EXCEPT ![1] = v]
  <2> DEFINE u == [t EXCEPT ![1] = v]
             w == Part(e, o.r.at, r.len)
  <2>1. 1 \in 1..r.len
    BY <1>1
  <2>2. u \in Seq(Int) /\ Len(u) = r.len /\ \A i \in 1..r.len : u[i] = IF i = 1 THEN v ELSE t[i]
    BY <1>2, <2>1 DEF Bytes8
  <2> HIDE DEF e
  <2>3. /\ w \in Bytes8 /\ Len(w) = r.len
        /\ \A i \in 1..r.len : w[i] = IF o.r.at + i <= Len(e) THEN e[o.r.at + i] ELSE Junk
    <3>1. e \in Bytes8 /\ o.r.at \in Nat /\ r.len \in Nat
      BY <1>1, <1>8, <1>11
    <3> QED
      BY <3>1, PartBytes
  <2>4. \A i \in 1..r.len : t[i] = IF o.r.at + i <= Len(d) THEN d[o.r.at + i] ELSE Junk
    <3>1. \A i \in 1..r.len : Part(d, o.r.at, r.len)[i] =
                              IF o.r.at + i <= Len(d) THEN d[o.r.at + i] ELSE Junk
      BY <1>1, <1>8, <1>9, PartBytes, Zenon
    <3> QED
      BY <1>9, <3>1
  <2>5. \A i \in 1..r.len : /\ o.r.at + i <= Len(d) /\ o.r.at + i \in 1..Len(d)
                            /\ o.r.at + i = o.r.at + 1 <=> i = 1
    BY <1>1, <1>8, <1>9
  <2> HIDE DEF u, w
  <2>6. ASSUME NEW i \in 1..r.len PROVE w[i] = u[i]
    <3>1. w[i] = e[o.r.at + i]
      BY <1>11, <2>3, <2>5
    <3>2. e[o.r.at + i] = IF i = 1 THEN v ELSE d[o.r.at + i]
      BY <1>11, <2>5
    <3>3. t[i] = d[o.r.at + i]
      BY <2>4, <2>5
    <3> QED
      BY <2>2, <3>1, <3>2, <3>3
  <2>7. w = u
    BY <2>2, <2>3, <2>6, SeqEqual DEF Bytes8
  <2> QED
    BY <2>7 DEF u, w
<1>13. [o EXCEPT !.h[b].data[o.r.at + 1] = v] =
        [h |-> [o.h EXCEPT ![b].data = e], r |-> [o.r EXCEPT !.len = r.len]]
  <2>1. [o.r EXCEPT !.len = r.len] = o.r
    BY <1>8, <1>9 DEF RepType
  <2>2. [o EXCEPT !.h[b].data[o.r.at + 1] = v] =
          [o EXCEPT !.h = [o.h EXCEPT ![b].data = [o.h[b].data EXCEPT ![o.r.at + 1] = v]]]
    BY <1>6
  <2>3. [o.h[b].data EXCEPT ![o.r.at + 1] = v] = e
    BY DEF d
  <2> HIDE DEF e
  <2> QED
    BY <1>6, <2>1, <2>2, <2>3
<1> HIDE DEF e
<1>14. Makes(h, [h |-> [o.h EXCEPT ![b].data = e], r |-> [o.r EXCEPT !.len = r.len]],
             c, A, [t EXCEPT ![1] = v])
  <2>1. ~(c[b] > 0)
    BY <1>7 DEF Minus
  <2>2. o.r.at + r.len <= Len(e)
    BY <1>9, <1>11
  <2>3. e \in Bytes8 /\ o.r.held
    BY <1>7, <1>11
  <2>4. Makes(h, [h |-> [o.h EXCEPT ![b].data = e], r |-> [o.r EXCEPT !.len = r.len]],
              c, A, Part(e, o.r.at, r.len))
    BY <1>1, <1>3, <2>1, <2>2, <2>3, WriteMakes
  <2> QED
    BY <1>12, <2>4, Zenon
<1> QED
  BY <1>13, <1>14 DEF o, t

-----------------------------------------------------------------------------
(* The accumulator                                                         *)

(* The block of an accumulator, if it has one.                             *)
AccSet(a) == IF a.cap > 0 THEN {a.block} ELSE {}

GoodAccum(h, a) ==
  /\ a \in AccumType
  /\ a.cap > 0 <=> a.block # Static
  /\ a.cap = 0 => a.len = 0
  /\ a.cap > 0 => a.len <= Len(h[a.block].data)

(* An operation of an accumulator ends with memory o.h and accumulator o.a *)
(* of the text; A are the blocks of other accumulators.                    *)
AccMakes(h, o, cnt, A, text) ==
  /\ Owns(o.h, cnt, A \cup AccSet(o.a)) /\ AccSet(o.a) \cap A = {}
  /\ Frame(h, o.h, cnt, A)
  /\ GoodAccum(o.h, o.a) /\ AccumBytes(o.h, o.a) = text

(* What a good accumulator's block and content are.                        *)
LEMMA AccumFacts ==
  ASSUME NEW h \in HeapType, NEW a, GoodAccum(h, a)
  PROVE  /\ AccumBytes(h, a) \in Bytes8 /\ Len(AccumBytes(h, a)) = a.len /\ a.len \in Nat
         /\ AccSet(a) \in SUBSET BlockIds
         /\ a.cap > 0 => /\ a.block \in BlockIds /\ AccSet(a) = {a.block}
                         /\ h[a.block].data \in Bytes8 /\ a.len <= Len(h[a.block].data)
                         /\ AccumBytes(h, a) = Part(h[a.block].data, 0, a.len)
                         /\ \A i \in 1..a.len : AccumBytes(h, a)[i] = h[a.block].data[i]
         /\ ~(a.cap > 0) => AccSet(a) = {} /\ AccumBytes(h, a) = <<>>
<1> DEFINE d == h[a.block].data
<1>1. a.len \in Nat /\ a.cap \in Nat /\ a.block \in Pointers
  BY DEF GoodAccum, AccumType
<1>2. CASE a.cap > 0
  <2>1. a.block \in BlockIds /\ a.block # Static
    BY <1>1, <1>2 DEF GoodAccum, Pointers
  <2>2. d \in Bytes8 /\ a.len <= Len(d) /\ Len(d) \in Nat
    BY <1>2, <2>1 DEF GoodAccum, HeapType, Bytes8
  <2>3. AccumBytes(h, a) = Part(d, 0, a.len)
    BY <2>1 DEF AccumBytes
  <2> HIDE DEF d
  <2>4. /\ Part(d, 0, a.len) \in Bytes8 /\ Len(Part(d, 0, a.len)) = a.len
        /\ \A i \in 1..a.len : Part(d, 0, a.len)[i] = IF 0 + i <= Len(d) THEN d[0 + i] ELSE Junk
    <3>1. 0 \in Nat
      OBVIOUS
    <3> QED
      BY <1>1, <2>2, <3>1, PartBytes, Zenon
  <2>5. \A i \in 1..a.len : 0 + i = i /\ i <= Len(d)
    BY <1>1, <2>2
  <2>6. \A i \in 1..a.len : AccumBytes(h, a)[i] = d[i]
    BY <2>3, <2>4, <2>5
  <2>7. AccSet(a) = {a.block}
    BY <1>2 DEF AccSet
  <2> QED
    <3>1. /\ AccumBytes(h, a) \in Bytes8 /\ Len(AccumBytes(h, a)) = a.len
          /\ AccSet(a) \in SUBSET BlockIds
      BY <2>1, <2>3, <2>4, <2>7
    <3> QED
      BY <1>1, <1>2, <2>1, <2>2, <2>3, <2>6, <2>7, <3>1, Zenon DEF d
<1>3. CASE ~(a.cap > 0)
  <2>1. a.block = Static /\ a.len = 0
    BY <1>1, <1>3 DEF GoodAccum
  <2>2. AccumBytes(h, a) = <<>> /\ AccSet(a) = {}
    BY <1>3, <2>1 DEF AccumBytes, AccSet
  <2> QED
    BY <1>3, <2>1, <2>2 DEF Bytes8
<1> QED
  BY <1>2, <1>3

(* A block for an accumulator.                                             *)
AccumBlock(h, cap, d) == [h EXCEPT ![NewBlock(h)] = [ref |-> 0, cap |-> cap, data |-> d]]

LEMMA NewAccumOwns ==
  ASSUME NEW h, NEW cnt, NEW A \in SUBSET BlockIds, Owns(h, cnt, A), FreeBlocks(h) # {},
         NEW cap \in Nat, cap > 0, NEW d \in Bytes8
  PROVE  /\ Owns(AccumBlock(h, cap, d), cnt, A \cup {NewBlock(h)})
         /\ NewBlock(h) \in BlockIds /\ NewBlock(h) \notin A /\ cnt[NewBlock(h)] = 0
         /\ AccumBlock(h, cap, d)[NewBlock(h)].data = d
         /\ \A c \in BlockIds : c # NewBlock(h) => AccumBlock(h, cap, d)[c] = h[c]
<1> DEFINE new == [ref |-> 0, cap |-> cap, data |-> d]
           b == NewBlock(h)
           g == AccumBlock(h, cap, d)
<1>1. h \in HeapType /\ cnt \in CountType
  BY DEF Owns
<1>2. b \in FreeBlocks(h)
  BY DEF NewBlock
<1>3. b \in BlockIds /\ h[b].cap = 0
  BY <1>2 DEF FreeBlocks
<1>4. cnt[b] = 0 /\ b \notin A
  BY <1>1, <1>3 DEF Owns, CountType
<1>5. new \in [ref : Nat, cap : Nat, data : Bytes8] /\ new.cap = cap /\ new.data = d
  OBVIOUS
<1>6. g = [h EXCEPT ![b] = new]
  BY DEF AccumBlock
<1> HIDE DEF new, b, g
<1>7. g \in HeapType /\ g[b] = new /\ \A c \in BlockIds : c # b => g[c] = h[c]
  BY <1>1, <1>3, <1>5, <1>6 DEF HeapType
<1>8. Owns(g, cnt, A \cup {b})
  BY <1>1, <1>3, <1>4, <1>5, <1>7 DEF Owns, CountType
<1> QED
  BY <1>3, <1>4, <1>5, <1>7, <1>8 DEF b, g

(* An accumulator's block is freed.                                        *)
LEMMA FreeAccumOwns ==
  ASSUME NEW h, NEW cnt, NEW A \in SUBSET BlockIds, Owns(h, cnt, A),
         NEW a, GoodAccum(h, a), AccSet(a) \subseteq A
  PROVE  /\ Owns(FreeAccum(h, a), cnt, A \ AccSet(a))
         /\ \A b \in BlockIds : b \notin AccSet(a) => FreeAccum(h, a)[b] = h[b]
<1> DEFINE g == FreeAccum(h, a)
<1>1. h \in HeapType /\ cnt \in CountType
  BY DEF Owns
<1>2. CASE ~(a.cap > 0)
  <2>1. g = h /\ A \ AccSet(a) = A
    BY <1>2 DEF FreeAccum, AccSet
  <2> QED
    BY <2>1
<1>3. CASE a.cap > 0
  <2>1. a.block \in BlockIds /\ AccSet(a) = {a.block}
    BY <1>1, <1>3, AccumFacts
  <2>2. NoBlock \in [ref : Nat, cap : Nat, data : Bytes8] /\ NoBlock.cap = 0 /\ NoBlock.ref = 0
    BY DEF NoBlock, Bytes8
  <2>3. g = [h EXCEPT ![a.block] = NoBlock]
    BY <1>3 DEF FreeAccum
  <2>4. /\ g \in HeapType /\ g[a.block] = NoBlock
        /\ \A b \in BlockIds : b # a.block => g[b] = h[b]
    BY <1>1, <2>1, <2>2, <2>3 DEF HeapType
  <2>5. a.block \in A /\ cnt[a.block] = 0
    BY <2>1 DEF Owns
  <2> HIDE DEF g
  <2>6. Owns(g, cnt, A \ {a.block})
    BY <1>1, <2>1, <2>2, <2>4, <2>5 DEF Owns, CountType
  <2> QED
    BY <2>1, <2>4, <2>6 DEF g
<1> QED
  BY <1>2, <1>3

(* A block of an accumulator is written.                                   *)
LEMMA WriteAccumOwns ==
  ASSUME NEW h, NEW cnt, NEW A \in SUBSET BlockIds, Owns(h, cnt, A), NEW b \in A, NEW d \in Bytes8
  PROVE  /\ Owns([h EXCEPT ![b].data = d], cnt, A)
         /\ [h EXCEPT ![b].data = d][b].data = d
         /\ \A c \in BlockIds : c # b => [h EXCEPT ![b].data = d][c] = h[c]
<1> DEFINE g == [h EXCEPT ![b].data = d]
<1>1. h \in HeapType /\ b \in BlockIds
  BY DEF Owns
<1>2. /\ g \in HeapType /\ g[b].data = d /\ g[b].cap = h[b].cap /\ g[b].ref = h[b].ref
      /\ \A c \in BlockIds : c # b => g[c] = h[c]
  BY <1>1 DEF HeapType
<1> HIDE DEF g
<1>3. Owns(g, cnt, A)
  BY <1>2 DEF Owns
<1> QED
  BY <1>2, <1>3 DEF g

(* Bytes written from the end of the content on.                           *)
LEMMA OverwrittenPart ==
  ASSUME NEW d \in Bytes8, NEW p \in Bytes8, NEW t \in Bytes8,
         Len(p) <= Len(d), \A i \in 1..Len(p) : d[i] = p[i]
  PROVE  /\ Write(d, Len(p), t) \in Bytes8 /\ Len(p) + Len(t) <= Len(Write(d, Len(p), t))
         /\ Part(Write(d, Len(p), t), 0, Len(p) + Len(t)) = p \o t
<1> DEFINE e == Len(p)
           w == Write(d, e, t)
<1>1. e \in Nat /\ Len(t) \in Nat /\ Len(d) \in Nat
  BY DEF Bytes8
<1> HIDE DEF e
<1>2. /\ w \in Bytes8
      /\ Len(w) = IF e + Len(t) > Len(d) THEN e + Len(t) ELSE Len(d)
      /\ \A i \in 1..Len(w) : w[i] = IF i > e /\ i <= e + Len(t) THEN t[i - e]
                                     ELSE IF i <= Len(d) THEN d[i] ELSE Junk
  BY <1>1, WriteBytes, Zenon
<1> HIDE DEF w
<1>3. e + Len(t) <= Len(w) /\ Len(w) \in Nat
  BY <1>1, <1>2
<1>4. ASSUME NEW i \in 1..Len(p) PROVE w[0 + i] = p[i]
  <2>1. i \in 1..Len(w) /\ ~(i > e) /\ i <= Len(d) /\ 0 + i = i
    BY <1>1, <1>3 DEF e
  <2> QED
    BY <1>2, <2>1
<1>5. ASSUME NEW i \in 1..Len(t) PROVE w[0 + Len(p) + i] = t[i]
  <2>1. /\ e + i \in 1..Len(w) /\ e + i > e /\ e + i <= e + Len(t) /\ (e + i) - e = i
        /\ 0 + Len(p) + i = e + i
    BY <1>1, <1>3 DEF e
  <2> QED
    BY <1>2, <2>1
<1>6. 0 + Len(p) + Len(t) <= Len(w)
  BY <1>1, <1>3 DEF e
<1>7. 0 \in Nat
  OBVIOUS
<1>8. Part(w, 0, Len(p) + Len(t)) = p \o t
  BY <1>2, <1>4, <1>5, <1>6, <1>7, PartConcat, Zenon
<1> QED
  BY <1>2, <1>3, <1>8 DEF w, e

(* All of a sequence as a part.                                            *)
LEMMA PartWhole ==
  ASSUME NEW d \in Bytes8
  PROVE  Part(d, 0, Len(d)) = d
<1> DEFINE p == Part(d, 0, Len(d))
<1>1. Len(d) \in Nat /\ 0 \in Nat
  BY DEF Bytes8
<1>2. /\ p \in Bytes8 /\ Len(p) = Len(d)
      /\ \A i \in 1..Len(d) : p[i] = IF 0 + i <= Len(d) THEN d[0 + i] ELSE Junk
  BY <1>1, PartBytes, Zenon
<1>3. \A i \in 1..Len(d) : 0 + i = i /\ i <= Len(d)
  BY <1>1
<1> HIDE DEF p
<1>4. \A i \in 1..Len(d) : p[i] = d[i]
  BY <1>2, <1>3
<1>5. p = d
  BY <1>2, <1>4, SeqEqual DEF Bytes8
<1> QED
  BY <1>5 DEF p

(* Frames compose.                                                         *)
LEMMA FrameTrans ==
  ASSUME NEW h \in HeapType, NEW g \in HeapType, NEW f \in HeapType, NEW cnt, NEW A,
         Frame(h, g, cnt, A), Frame(g, f, cnt, A)
  PROVE  Frame(h, f, cnt, A)
<1> SUFFICES ASSUME NEW b \in BlockIds, cnt[b] > 0 \/ b \in A
             PROVE  Extends(h[b].data, f[b].data)
  BY DEF Frame
<1>1. Extends(h[b].data, g[b].data) /\ Extends(g[b].data, f[b].data)
  BY DEF Frame
<1>2. h[b].data \in Bytes8 /\ g[b].data \in Bytes8 /\ f[b].data \in Bytes8
  BY DEF HeapType
<1> QED
  BY <1>1, <1>2, ExtendsTrans

(* Another accumulator lets go of its block.                               *)
LEMMA FreeOldMakes ==
  ASSUME NEW h \in HeapType, NEW p, NEW cnt, NEW A \in SUBSET BlockIds, NEW text,
         NEW a, GoodAccum(h, a), AccSet(a) \cap A = {},
         AccMakes(h, p, cnt, A \cup AccSet(a), text)
  PROVE  AccMakes(h, [h |-> FreeAccum(p.h, a), a |-> p.a], cnt, A, text)
<1> DEFINE g == FreeAccum(p.h, a)
           O == (A \cup AccSet(a)) \cup AccSet(p.a)
<1>1. /\ Owns(p.h, cnt, O) /\ AccSet(p.a) \cap (A \cup AccSet(a)) = {}
      /\ Frame(h, p.h, cnt, A \cup AccSet(a)) /\ GoodAccum(p.h, p.a)
      /\ AccumBytes(p.h, p.a) = text /\ p.h \in HeapType
  BY DEF AccMakes, Owns
<1>2. AccSet(a) \in SUBSET BlockIds /\ AccSet(p.a) \in SUBSET BlockIds
  BY <1>1, AccumFacts
<1>3. GoodAccum(p.h, a)
  <2>1. CASE ~(a.cap > 0)
    BY <2>1 DEF GoodAccum
  <2>2. CASE a.cap > 0
    <3>1. a.block \in BlockIds /\ AccSet(a) = {a.block} /\ a.len <= Len(h[a.block].data)
          /\ a.len \in Nat
      BY <2>2, AccumFacts
    <3>2. Extends(h[a.block].data, p.h[a.block].data)
      BY <1>1, <3>1 DEF Frame
    <3>3. Len(h[a.block].data) \in Nat /\ Len(p.h[a.block].data) \in Nat
      BY <1>1, <3>1 DEF HeapType, Bytes8
    <3>4. a.len <= Len(p.h[a.block].data)
      BY <3>1, <3>2, <3>3 DEF Extends
    <3> QED
      BY <2>2, <3>4 DEF GoodAccum
  <2> QED
    BY <2>1, <2>2
<1>4. /\ Owns(g, cnt, O \ AccSet(a))
      /\ \A b \in BlockIds : b \notin AccSet(a) => g[b] = p.h[b]
  <2>1. O \in SUBSET BlockIds /\ AccSet(a) \subseteq O
    BY <1>2
  <2>2. Owns(p.h, cnt, O)
    BY <1>1
  <2> DEFINE f == p.h
  <2> HIDE DEF O, f
  <2>3. /\ Owns(FreeAccum(f, a), cnt, O \ AccSet(a))
        /\ \A b \in BlockIds : b \notin AccSet(a) => FreeAccum(f, a)[b] = f[b]
    <3>1. Owns(f, cnt, O) /\ GoodAccum(f, a)
      BY <1>3, <2>2 DEF f
    <3> QED
      BY <2>1, <3>1, FreeAccumOwns
  <2> QED
    BY <2>3 DEF f
<1>5. O \ AccSet(a) = A \cup AccSet(p.a) /\ AccSet(p.a) \cap A = {}
  BY <1>1
<1> HIDE DEF g
<1>6. Frame(h, g, cnt, A)
  <2> SUFFICES ASSUME NEW b \in BlockIds, cnt[b] > 0 \/ b \in A
               PROVE  Extends(h[b].data, g[b].data)
    BY DEF Frame
  <2>1. b \notin AccSet(a)
    BY <1>1, <1>2 DEF Owns, CountType
  <2> QED
    BY <1>1, <1>4, <2>1 DEF Frame
<1>7. GoodAccum(g, p.a) /\ AccumBytes(g, p.a) = text
  <2>1. CASE ~(p.a.cap > 0)
    BY <1>1, <2>1 DEF GoodAccum, AccumBytes, AccumType
  <2>2. CASE p.a.cap > 0
    <3>1. p.a.block \in BlockIds /\ AccSet(p.a) = {p.a.block}
      BY <1>1, <2>2, AccumFacts
    <3>2. g[p.a.block] = p.h[p.a.block]
      BY <1>1, <1>4, <3>1
    <3> QED
      BY <1>1, <3>2 DEF GoodAccum, AccumBytes
  <2> QED
    BY <2>1, <2>2
<1>8. Owns(g, cnt, A \cup AccSet(p.a))
  BY <1>4, <1>5 DEF g
<1> DEFINE o == [h |-> g, a |-> p.a]
<1>9. o.h = g /\ o.a = p.a
  OBVIOUS
<1> HIDE DEF o
<1>10. AccMakes(h, o, cnt, A, text)
  BY <1>5, <1>6, <1>7, <1>8, <1>9 DEF AccMakes
<1> QED
  BY <1>10 DEF o, g

(* A String gives its memo up meanwhile.                                   *)
LEMMA AccThenDeref ==
  ASSUME NEW h \in HeapType, NEW p, NEW cnt, NEW A \in SUBSET BlockIds, NEW text,
         AccMakes(h, p, cnt, A, text), NEW r \in RepType, Counted(cnt, r)
  PROVE  AccMakes(h, [h |-> DerefMemo(p.h, r), a |-> p.a], Minus(cnt, r), A, text)
<1> DEFINE g == DerefMemo(p.h, r)
           O == A \cup AccSet(p.a)
<1>1. /\ Owns(p.h, cnt, O) /\ AccSet(p.a) \cap A = {} /\ Frame(h, p.h, cnt, A)
      /\ GoodAccum(p.h, p.a) /\ AccumBytes(p.h, p.a) = text /\ p.h \in HeapType
      /\ cnt \in CountType
  BY DEF AccMakes, Owns
<1>2. AccSet(p.a) \in SUBSET BlockIds
  BY <1>1, AccumFacts
<1>3. O \in SUBSET BlockIds
  BY <1>2
<1> HIDE DEF O
<1>4. /\ Owns(g, Minus(cnt, r), O)
      /\ \A b \in BlockIds : Minus(cnt, r)[b] > 0 \/ b \in O => g[b].data = p.h[b].data
  BY <1>1, <1>3, DerefMemoOwns
<1>5. \A b \in BlockIds : Minus(cnt, r)[b] > 0 => cnt[b] > 0
  BY <1>1 DEF Minus, CountType
<1> HIDE DEF g
<1>6. Frame(h, g, Minus(cnt, r), A)
  BY <1>1, <1>4, <1>5 DEF Frame, O
<1>7. GoodAccum(g, p.a) /\ AccumBytes(g, p.a) = text
  <2>1. CASE ~(p.a.cap > 0)
    BY <1>1, <2>1 DEF GoodAccum, AccumBytes, AccumType
  <2>2. CASE p.a.cap > 0
    <3>1. p.a.block \in BlockIds /\ AccSet(p.a) = {p.a.block}
      BY <1>1, <2>2, AccumFacts
    <3>2. g[p.a.block].data = p.h[p.a.block].data
      BY <1>4, <3>1 DEF O
    <3> QED
      BY <1>1, <3>2 DEF GoodAccum, AccumBytes
  <2> QED
    BY <2>1, <2>2
<1> QED
  BY <1>1, <1>4, <1>6, <1>7 DEF AccMakes, O, g

(* The capacity grow() chooses.                                            *)
LEMMA GrownRoom ==
  ASSUME NEW cap \in Nat, NEW ncap \in Nat
  PROVE  GrownCapacity(cap, ncap) \in Nat /\ GrownCapacity(cap, ncap) > 0
<1>1. AccumMin \in Nat /\ AccumMin > 0 /\ AccumBig \in Nat /\ MemoSpace \in Nat
  BY MemoAssumption
<1>2. AccumBig \div 2 \in Nat
  BY <1>1
<1> QED
  BY <1>1, <1>2 DEF GrownCapacity

(* grow: a larger block with the same content.                             *)
LEMMA GrowMakes ==
  ASSUME NEW h, NEW cnt, NEW A \in SUBSET BlockIds, NEW a, GoodAccum(h, a),
         Owns(h, cnt, A \cup AccSet(a)), AccSet(a) \cap A = {}, FreeBlocks(h) # {},
         NEW ncap \in Nat, ~(ncap < a.cap)
  PROVE  /\ AccMakes(h, Grow(h, a, ncap), cnt, A, AccumBytes(h, a))
         /\ Grow(h, a, ncap).a.cap > 0
<1> DEFINE O == A \cup AccSet(a)
           b == NewBlock(h)
           d == AccumBytes(h, a)
           cap == GrownCapacity(a.cap, ncap)
           g == AccumBlock(h, cap, d)
           n == [block |-> b, len |-> a.len, cap |-> cap]
<1>1. h \in HeapType /\ a.cap \in Nat /\ a.len \in Nat
  BY DEF Owns, GoodAccum, AccumType
<1>2. d \in Bytes8 /\ Len(d) = a.len /\ AccSet(a) \in SUBSET BlockIds
  BY <1>1, AccumFacts
<1>3. cap \in Nat /\ cap > 0
  BY <1>1, GrownRoom
<1>4. Grow(h, a, ncap) = [h |-> FreeAccum(g, a), a |-> n]
  BY DEF Grow, AccumBlock
<1>5. O \in SUBSET BlockIds /\ Owns(h, cnt, O)
  BY <1>2
<1> HIDE DEF O, d, cap
<1>6. /\ Owns(g, cnt, O \cup {b}) /\ b \in BlockIds /\ b \notin O /\ cnt[b] = 0
      /\ g[b].data = d /\ \A c \in BlockIds : c # b => g[c] = h[c]
  <2>1. b \in BlockIds
    BY <1>2, <1>3, <1>5, NewAccumOwns
  <2>2. b \notin O /\ cnt[b] = 0
    BY <1>2, <1>3, <1>5, NewAccumOwns
  <2>3. g[b].data = d /\ \A c \in BlockIds : c # b => g[c] = h[c]
    BY <1>1, <2>1 DEF AccumBlock, HeapType
  <2>4. Owns(g, cnt, O \cup {b})
    BY <1>2, <1>3, <1>5, NewAccumOwns
  <2> QED
    BY <2>1, <2>2, <2>3, <2>4
<1>7. b # Static
  BY <1>6, ProgramAssumption DEF Static
<1> HIDE DEF b, g
<1>8. /\ n \in AccumType /\ n.block = b /\ n.len = a.len /\ n.cap = cap /\ AccSet(n) = {b}
  BY <1>1, <1>3, <1>6 DEF AccumType, Pointers, AccSet
<1> HIDE DEF n
<1>9. GoodAccum(g, n) /\ AccumBytes(g, n) = d
  <2>1. Part(d, 0, a.len) = d
    BY <1>2, PartWhole
  <2> QED
    BY <1>1, <1>2, <1>3, <1>6, <1>7, <1>8, <2>1 DEF GoodAccum, AccumBytes
<1>10. Frame(h, g, cnt, O)
  <2>1. \A c \in BlockIds : h[c].data \in Bytes8
    BY <1>1 DEF HeapType
  <2> QED
    BY <1>6, <2>1, ExtendsSelf DEF Frame
<1> DEFINE p == [h |-> g, a |-> n]
<1>11. AccMakes(h, p, cnt, O, d)
  BY <1>6, <1>8, <1>9, <1>10 DEF AccMakes
<1>12. p.h = g /\ p.a = n
  OBVIOUS
<1> HIDE DEF p
<1>13. AccMakes(h, [h |-> FreeAccum(p.h, a), a |-> p.a], cnt, A, d)
  BY <1>1, <1>11, FreeOldMakes DEF O
<1>14. [h |-> FreeAccum(p.h, a), a |-> p.a] = Grow(h, a, ncap)
  BY <1>4, <1>12
<1>15. Grow(h, a, ncap).a.cap > 0
  BY <1>3, <1>4, <1>8
<1> QED
  BY <1>13, <1>14, <1>15 DEF d

(* An accumulator that nothing was done to.                                *)
LEMMA AccSelf ==
  ASSUME NEW h, NEW cnt, NEW A \in SUBSET BlockIds, NEW a, GoodAccum(h, a),
         Owns(h, cnt, A \cup AccSet(a)), AccSet(a) \cap A = {}
  PROVE  AccMakes(h, [h |-> h, a |-> a], cnt, A, AccumBytes(h, a))
<1> DEFINE o == [h |-> h, a |-> a]
<1>1. o.h = h /\ o.a = a
  OBVIOUS
<1>2. h \in HeapType
  BY DEF Owns
<1>3. \A b \in BlockIds : h[b].data \in Bytes8
  BY <1>2 DEF HeapType
<1>4. Frame(h, h, cnt, A)
  BY <1>3, ExtendsSelf DEF Frame
<1> HIDE DEF o
<1>5. AccMakes(h, o, cnt, A, AccumBytes(h, a))
  BY <1>1, <1>4 DEF AccMakes
<1> QED
  BY <1>5 DEF o

(* Bytes are put behind the content: only the accumulator has the block.   *)
LEMMA PutMakes ==
  ASSUME NEW h \in HeapType, NEW p, NEW cnt, NEW A \in SUBSET BlockIds, NEW text,
         AccMakes(h, p, cnt, A, text), p.a.cap > 0, NEW t \in Bytes8
  PROVE  AccMakes(h, Put0(p.h, p.a, t), cnt, A, text \o t)
<1> DEFINE O == A \cup AccSet(p.a)
           b == p.a.block
           f == p.h
           d == f[b].data
           w == Write(d, p.a.len, t)
           g == [f EXCEPT ![b].data = w]
           n == [p.a EXCEPT !.len = @ + Len(t)]
<1>1. /\ Owns(f, cnt, O) /\ AccSet(p.a) \cap A = {} /\ Frame(h, f, cnt, A)
      /\ GoodAccum(f, p.a) /\ AccumBytes(f, p.a) = text /\ f \in HeapType
      /\ cnt \in CountType
  BY DEF AccMakes, Owns
<1>2. /\ b \in BlockIds /\ AccSet(p.a) = {b} /\ d \in Bytes8 /\ p.a.len <= Len(d)
      /\ text \in Bytes8 /\ Len(text) = p.a.len /\ p.a.len \in Nat
      /\ \A i \in 1..p.a.len : text[i] = d[i]
  BY <1>1, AccumFacts
<1>3. p.a \in AccumType /\ p.a.cap \in Nat /\ b # Static /\ Len(t) \in Nat
  BY <1>1 DEF GoodAccum, AccumType, Bytes8
<1>4. Put0(p.h, p.a, t) = [h |-> g, a |-> n]
  BY DEF Put0
<1>5. /\ n \in AccumType /\ n.block = b /\ n.cap = p.a.cap /\ n.len = p.a.len + Len(t)
      /\ AccSet(n) = {b}
  BY <1>2, <1>3 DEF AccumType, AccSet
<1> HIDE DEF d, n
<1>6. /\ w \in Bytes8 /\ p.a.len + Len(t) <= Len(w)
      /\ Part(w, 0, p.a.len + Len(t)) = text \o t
  <2>1. Len(text) <= Len(d) /\ \A i \in 1..Len(text) : d[i] = text[i]
    BY <1>2
  <2>2. /\ Write(d, Len(text), t) \in Bytes8 /\ Len(text) + Len(t) <= Len(Write(d, Len(text), t))
        /\ Part(Write(d, Len(text), t), 0, Len(text) + Len(t)) = text \o t
    <3>1. d \in Bytes8 /\ text \in Bytes8 /\ t \in Bytes8
      BY <1>2
    <3> QED
      BY <2>1, <3>1, OverwrittenPart, Zenon
  <2> QED
    BY <1>2, <2>2
<1>7. O \in SUBSET BlockIds /\ b \in O
  BY <1>2
<1> HIDE DEF O, f, w, b
<1>8. Owns(g, cnt, O)
  BY <1>1, <1>6, <1>7, WriteAccumOwns
<1>9. g[b].data = w /\ \A c \in BlockIds : c # b => g[c] = f[c]
  BY <1>1, <1>2, <1>6 DEF HeapType
<1>10. g \in HeapType
  BY <1>8 DEF Owns
<1> HIDE DEF g
<1>11. Frame(h, g, cnt, A)
  <2> SUFFICES ASSUME NEW c \in BlockIds, cnt[c] > 0 \/ c \in A
               PROVE  Extends(h[c].data, g[c].data)
    BY DEF Frame
  <2>1. c # b
    BY <1>1, <1>2, <1>7 DEF Owns, CountType, O
  <2> QED
    BY <1>1, <1>9, <2>1 DEF Frame
<1>12. GoodAccum(g, n)
  BY <1>2, <1>3, <1>5, <1>6, <1>9 DEF GoodAccum
<1>13. AccumBytes(g, n) = text \o t
  BY <1>3, <1>5, <1>6, <1>9 DEF AccumBytes
<1> DEFINE o == [h |-> g, a |-> n]
<1>14. o.h = g /\ o.a = n
  OBVIOUS
<1> HIDE DEF o
<1>15. Owns(g, cnt, A \cup AccSet(n)) /\ AccSet(n) \cap A = {}
  BY <1>1, <1>2, <1>5, <1>8 DEF O
<1>16. AccMakes(h, o, cnt, A, text \o t)
  BY <1>11, <1>12, <1>13, <1>14, <1>15 DEF AccMakes
<1> QED
  BY <1>4, <1>16 DEF o

(* append, hard_append: of text, of a String's bytes or of the             *)
(* accumulator's own.                                                      *)
LEMMA AccumAppendMakes ==
  ASSUME NEW h, NEW cnt, NEW A \in SUBSET BlockIds, NEW a, GoodAccum(h, a),
         Owns(h, cnt, A \cup AccSet(a)), AccSet(a) \cap A = {}, FreeBlocks(h) # {},
         NEW s, Readable(h, cnt, AccSet(a), s)
  PROVE  AccMakes(h, AccumAppend0(h, a, s), cnt, A, AccumBytes(h, a) \o Bytes(h, s))
<1> DEFINE t == Bytes(h, s)
           d == AccumBytes(h, a)
<1>1. h \in HeapType /\ cnt \in CountType /\ a.cap \in Nat /\ a.len \in Nat
  BY DEF Owns, GoodAccum, AccumType
<1>2. s \in RepType /\ InRange(h, s) /\ s.len \in Nat
  BY DEF Readable, RepType
<1>3. t \in Bytes8 /\ Len(t) = s.len
  BY <1>1, <1>2, BytesOfRep
<1>4. d \in Bytes8 /\ Len(d) = a.len /\ AccSet(a) \in SUBSET BlockIds
  BY <1>1, AccumFacts
<1>5. a.len + s.len \in Nat
  BY <1>1, <1>2
<1> HIDE DEF t, d
<1>6. CASE a.len + s.len <= a.cap
  <2> DEFINE p == [h |-> h, a |-> a]
  <2>1. AccMakes(h, p, cnt, A, d)
    BY AccSelf DEF d
  <2>2. CASE s.len = 0
    <3>1. AccumAppend0(h, a, s) = p
      BY <1>6, <2>2 DEF AccumAppend0
    <3>2. d \o t = d
      <4>1. t = <<>>
        BY <1>3, <2>2, EmptySeq DEF Bytes8
      <4> QED
        BY <1>4, <4>1 DEF Bytes8
    <3> QED
      BY <2>1, <3>1, <3>2 DEF t, d
  <2>3. CASE s.len # 0
    <3>1. AccumAppend0(h, a, s) = Put0(h, a, t)
      BY <1>6, <2>3 DEF AccumAppend0, t
    <3>2. p.h = h /\ p.a = a /\ p.a.cap > 0
      BY <1>1, <1>2, <1>6, <2>3
    <3> HIDE DEF p
    <3>3. AccMakes(h, Put0(p.h, p.a, t), cnt, A, d \o t)
      BY <1>1, <1>3, <2>1, <3>2, PutMakes
    <3> QED
      BY <3>1, <3>2, <3>3 DEF t, d
  <2> QED
    BY <2>2, <2>3
<1>7. CASE ~(a.len + s.len <= a.cap) /\ ~OwnSource(a, s)
  <2> DEFINE g == Grow(h, a, a.len + s.len)
  <2>1. ~(a.len + s.len < a.cap)
    BY <1>1, <1>2, <1>7
  <2>2. AccMakes(h, g, cnt, A, d) /\ g.a.cap > 0
    BY <1>5, <2>1, GrowMakes DEF d
  <2>3. AccumAppend0(h, a, s) = Put0(g.h, g.a, Bytes(g.h, s))
    BY <1>7 DEF AccumAppend0
  <2> HIDE DEF g
  <2>4. Bytes(g.h, s) = t
    <3>1. g.h \in HeapType /\ Frame(h, g.h, cnt, A)
      BY <2>2 DEF AccMakes, Owns
    <3>2. s.base = Static \/ cnt[s.base] > 0
      BY <1>7 DEF Readable, OwnSource, AccSet
    <3>3. s.base = Static \/ Extends(h[s.base].data, g.h[s.base].data)
      BY <1>2, <3>1, <3>2 DEF Frame, RepType, Pointers
    <3> QED
      BY <1>1, <1>2, <3>1, <3>3, BytesFramed DEF t
  <2>5. AccMakes(h, Put0(g.h, g.a, t), cnt, A, d \o t)
    BY <1>1, <1>3, <2>2, PutMakes
  <2> QED
    BY <2>3, <2>4, <2>5 DEF t, d
<1>8. CASE ~(a.len + s.len <= a.cap) /\ OwnSource(a, s)
  <2> DEFINE g == Grow(h, NoAccum, a.len + s.len)
             O == A \cup AccSet(a)
             p == Put0(g.h, g.a, d \o t)
  <2>1. /\ GoodAccum(h, NoAccum) /\ AccSet(NoAccum) = {} /\ AccumBytes(h, NoAccum) = <<>>
        /\ NoAccum.cap = 0
    BY DEF GoodAccum, NoAccum, AccSet, AccumBytes, AccumType, Pointers
  <2>2. O \in SUBSET BlockIds /\ Owns(h, cnt, O \cup AccSet(NoAccum)) /\ AccSet(NoAccum) \cap O = {}
    <3>1. O \cup AccSet(NoAccum) = O
      BY <2>1
    <3> QED
      BY <1>4, <2>1, <3>1
  <2>3. ~(a.len + s.len < NoAccum.cap)
    BY <1>5, <2>1
  <2> HIDE DEF O
  <2>4. AccMakes(h, g, cnt, O, <<>>) /\ g.a.cap > 0
    BY <1>5, <2>1, <2>2, <2>3, GrowMakes
  <2>5. AccumAppend0(h, a, s) = [p EXCEPT !.h = FreeAccum(@, a)]
    BY <1>8 DEF AccumAppend0, t, d
  <2>6. p = [h |-> p.h, a |-> p.a]
    BY DEF Put0
  <2>7. d \o t \in Bytes8 /\ <<>> \o (d \o t) = d \o t
    BY <1>3, <1>4 DEF Bytes8
  <2> HIDE DEF g
  <2>8. AccMakes(h, p, cnt, O, d \o t)
    <3> DEFINE u == d \o t
    <3>1. u \in Bytes8 /\ <<>> \o u = u
      BY <2>7
    <3> HIDE DEF u
    <3>2. AccMakes(h, Put0(g.h, g.a, u), cnt, O, <<>> \o u)
      BY <1>1, <2>2, <2>4, <3>1, PutMakes
    <3> QED
      BY <3>1, <3>2 DEF u
  <2> HIDE DEF p
  <2>9. AccumAppend0(h, a, s) = [h |-> FreeAccum(p.h, a), a |-> p.a]
    BY <2>5, <2>6
  <2>10. AccMakes(h, [h |-> FreeAccum(p.h, a), a |-> p.a], cnt, A, d \o t)
    BY <1>1, <2>8, FreeOldMakes DEF O
  <2> QED
    BY <2>9, <2>10 DEF t, d
<1> QED
  BY <1>6, <1>7, <1>8

(* An accumulator without a block is empty.                                *)
LEMMA NoAccumFacts ==
  ASSUME NEW h
  PROVE  /\ GoodAccum(h, NoAccum) /\ AccSet(NoAccum) = {} /\ AccumBytes(h, NoAccum) = <<>>
         /\ NoAccum.cap = 0 /\ NoAccum.len = 0
BY DEF GoodAccum, NoAccum, AccSet, AccumBytes, AccumType, Pointers

(* take_string: the block becomes a memo with one holder.                  *)
LEMMA TakeMakes ==
  ASSUME NEW h, NEW cnt, NEW a, GoodAccum(h, a), Owns(h, cnt, AccSet(a))
  PROVE  LET o == TakeOf(h, a)
         IN  /\ Makes(h, [h |-> o.h, r |-> o.r], cnt, AccSet(o.a), AccumBytes(h, a))
             /\ GoodAccum(o.h, o.a) /\ AccumBytes(o.h, o.a) = <<>>
<1> DEFINE o == TakeOf(h, a)
<1>1. h \in HeapType /\ cnt \in CountType /\ a.cap \in Nat /\ a.len \in Nat
  BY DEF Owns, GoodAccum, AccumType
<1>2. /\ AccumBytes(h, a) \in Bytes8 /\ Len(AccumBytes(h, a)) = a.len
      /\ AccSet(a) \in SUBSET BlockIds
  BY <1>1, AccumFacts
<1>3. CASE ~(a.len > 0)
  <2>1. o = [h |-> h, r |-> EmptyRep, a |-> a]
    BY <1>3 DEF TakeOf
  <2>2. AccumBytes(h, a) = <<>>
    BY <1>1, <1>2, <1>3, EmptySeq DEF Bytes8
  <2>3. Makes(h, [h |-> h, r |-> EmptyRep], cnt, AccSet(a), <<>>)
    BY <1>2, EmptyMakes
  <2> HIDE DEF o
  <2>4. o.h = h /\ o.r = EmptyRep /\ o.a = a
    BY <2>1
  <2>5. /\ Makes(h, [h |-> o.h, r |-> o.r], cnt, AccSet(o.a), AccumBytes(h, a))
        /\ GoodAccum(o.h, o.a) /\ AccumBytes(o.h, o.a) = <<>>
    BY <2>2, <2>3, <2>4
  <2> QED
    BY <2>5 DEF o
<1>4. CASE a.len > 0
  <2> DEFINE b == a.block
             d == Part(h[b].data, 0, a.len)
             g == [h EXCEPT ![b].ref = 1, ![b].data = Part(@, 0, a.len)]
             r == Rep(b, <<>>, 0, a.len, TRUE)
             m == [h |-> g, r |-> r]
  <2>1. a.cap > 0
    BY <1>1, <1>4 DEF GoodAccum
  <2>2. /\ b \in BlockIds /\ AccSet(a) = {b} /\ AccumBytes(h, a) = d /\ b # Static
    BY <1>1, <2>1, AccumFacts DEF GoodAccum
  <2>3. d \in Bytes8 /\ Len(d) = a.len
    BY <1>2, <2>2
  <2>4. o.h = g /\ o.r = r /\ o.a = NoAccum
    BY <1>4 DEF TakeOf
  <2>5. cnt[b] = 0 /\ h[b].cap > 0
    BY <2>2 DEF Owns
  <2>6. /\ g \in HeapType /\ g[b].ref = 1 /\ g[b].data = d /\ g[b].cap = h[b].cap
        /\ \A c \in BlockIds : c # b => g[c] = h[c]
    <3>1. d = Part(h[b].data, 0, a.len)
      OBVIOUS
    <3> HIDE DEF d, b
    <3> QED
      BY <1>1, <2>2, <2>3, <3>1 DEF HeapType
  <2>7. /\ r \in RepType /\ r.held = TRUE /\ r.base = b /\ r.at = 0 /\ r.len = a.len
    BY <1>1, <2>2 DEF Rep, RepType, Pointers, Bytes8
  <2>8. m.h = g /\ m.r = r
    OBVIOUS
  <2> HIDE DEF o, d, g, r, m, b
  <2>9. Plus(cnt, r) \in CountType /\ \A c \in BlockIds : Plus(cnt, r)[c] = IF c = b THEN 1 ELSE cnt[c]
    BY <1>1, <2>2, <2>5, <2>7 DEF Plus, Holds, CountType
  <2>10. Owns(g, Plus(cnt, r), {})
    BY <2>2, <2>5, <2>6, <2>9 DEF Owns, CountType
  <2>11. Frame(h, g, cnt, {})
    <3>1. \A c \in BlockIds : h[c].data \in Bytes8
      BY <1>1 DEF HeapType
    <3> QED
      BY <2>2, <2>5, <2>6, <3>1, ExtendsSelf DEF Frame
  <2>12. Good(g, r)
    BY <1>1, <2>2, <2>3, <2>6, <2>7 DEF Good, InRange, Source
  <2>13. Bytes(g, r) = d
    <3>1. Bytes(g, r) = Part(d, 0, a.len)
      BY <2>2, <2>6, <2>7 DEF Bytes
    <3>2. Part(d, 0, Len(d)) = d
      BY <2>3, PartWhole
    <3> QED
      BY <2>3, <3>1, <3>2
  <2>14. Makes(h, m, cnt, {}, d)
    BY <1>1, <2>8, <2>10, <2>11, <2>12, <2>13 DEF Makes
  <2>15. AccSet(o.a) = {} /\ GoodAccum(o.h, o.a) /\ AccumBytes(o.h, o.a) = <<>>
    BY <2>4, NoAccumFacts
  <2>16. m = [h |-> o.h, r |-> o.r]
    BY <2>4 DEF m
  <2> QED
    BY <2>2, <2>14, <2>15, <2>16 DEF o
<1> QED
  BY <1>3, <1>4

(* transfer_from of a String that shares its memo with no other: its text  *)
(* moves to a new block, its memo goes, and the accumulator's old block.   *)
LEMMA TransferMakes ==
  ASSUME NEW h, NEW cnt, NEW a, GoodAccum(h, a), Owns(h, cnt, AccSet(a)), FreeBlocks(h) # {},
         NEW r, Good(h, r), Counted(cnt, r), IsShared(h, r)
  PROVE  AccMakes(h, [h |-> FreeAccum(TransferFrom(h, r).h, a), a |-> TransferFrom(h, r).a],
                  Minus(cnt, r), {}, Bytes(h, r))
<1> DEFINE p == AccumAppend0(h, NoAccum, r)
           q == [h |-> DerefMemo(p.h, r), a |-> p.a]
           B == AccSet(a)
<1>1. h \in HeapType /\ cnt \in CountType
  BY DEF Owns
<1>2. r \in RepType /\ InRange(h, r) /\ Bytes(h, r) \in Bytes8
  BY <1>1, BytesOfRep DEF Good
<1>3. B \in SUBSET BlockIds
  BY <1>1, AccumFacts
<1>4. GoodAccum(h, NoAccum) /\ AccSet(NoAccum) = {} /\ AccumBytes(h, NoAccum) = <<>>
  BY NoAccumFacts
<1>5. Owns(h, cnt, B \cup AccSet(NoAccum)) /\ AccSet(NoAccum) \cap B = {}
  <2>1. B \cup AccSet(NoAccum) = B
    BY <1>4
  <2> QED
    BY <1>4, <2>1
<1>6. Readable(h, cnt, AccSet(NoAccum), r)
  BY <1>2 DEF Readable, Good, Counted
<1> HIDE DEF B
<1>7. AccMakes(h, p, cnt, B, AccumBytes(h, NoAccum) \o Bytes(h, r))
  BY <1>3, <1>4, <1>5, <1>6, AccumAppendMakes
<1>8. AccumBytes(h, NoAccum) \o Bytes(h, r) = Bytes(h, r)
  BY <1>2, <1>4 DEF Bytes8
<1>9. TransferFrom(h, r) = [p EXCEPT !.h = DerefMemo(@, r)]
  BY DEF TransferFrom
<1>10. p = [h |-> p.h, a |-> p.a]
  BY DEF AccumAppend0, Put0
<1> HIDE DEF p
<1>11. TransferFrom(h, r) = q
  BY <1>9, <1>10
<1>12. AccMakes(h, q, Minus(cnt, r), B, Bytes(h, r))
  BY <1>1, <1>2, <1>3, <1>7, <1>8, AccThenDeref
<1> HIDE DEF q
<1>13. B = {} \cup AccSet(a) /\ AccSet(a) \cap {} = {} /\ {} \in SUBSET BlockIds
  BY DEF B
<1>14. AccMakes(h, q, Minus(cnt, r), {} \cup AccSet(a), Bytes(h, r))
  BY <1>12, <1>13
<1>15. AccMakes(h, [h |-> FreeAccum(q.h, a), a |-> q.a], Minus(cnt, r), {}, Bytes(h, r))
  BY <1>1, <1>13, <1>14, FreeOldMakes
<1> QED
  BY <1>11, <1>15

(* append(char).                                                           *)
LEMMA CharMakes ==
  ASSUME NEW h, NEW cnt, NEW a, GoodAccum(h, a), Owns(h, cnt, AccSet(a)), FreeBlocks(h) # {},
         NEW c \in Int, NEW g,
         g = IF a.len < a.cap THEN [h |-> h, a |-> a] ELSE Grow(h, a, a.len)
  PROVE  AccMakes(h, Put0(g.h, g.a, <<c>>), cnt, {}, Append(AccumBytes(h, a), c))
<1> DEFINE d == AccumBytes(h, a)
<1>1. h \in HeapType /\ a.cap \in Nat /\ a.len \in Nat
  BY DEF Owns, GoodAccum, AccumType
<1>2. d \in Bytes8
  BY <1>1, AccumFacts
<1>3. Owns(h, cnt, {} \cup AccSet(a)) /\ AccSet(a) \cap {} = {} /\ {} \in SUBSET BlockIds
  <2>1. {} \cup AccSet(a) = AccSet(a)
    OBVIOUS
  <2> QED
    BY <2>1
<1>4. AccMakes(h, g, cnt, {}, d) /\ g.a.cap > 0
  <2>1. CASE a.len < a.cap
    <3>1. g = [h |-> h, a |-> a]
      BY <2>1
    <3>2. AccMakes(h, [h |-> h, a |-> a], cnt, {}, AccumBytes(h, a))
      BY <1>3, AccSelf
    <3> QED
      BY <1>1, <2>1, <3>1, <3>2
  <2>2. CASE ~(a.len < a.cap)
    <3>1. g = Grow(h, a, a.len)
      BY <2>2
    <3> QED
      BY <1>1, <1>3, <2>2, <3>1, GrowMakes
  <2> QED
    BY <2>1, <2>2
<1>5. <<c>> \in Bytes8 /\ Append(d, c) = d \o <<c>>
  BY <1>2 DEF Bytes8
<1> HIDE DEF d
<1>6. AccMakes(h, Put0(g.h, g.a, <<c>>), cnt, {}, d \o <<c>>)
  BY <1>1, <1>3, <1>4, <1>5, PutMakes
<1> QED
  BY <1>5, <1>6 DEF d

(* pop_back and clear: the content ends earlier.                           *)
LEMMA ShortenMakes ==
  ASSUME NEW h, NEW cnt, NEW a, GoodAccum(h, a), Owns(h, cnt, AccSet(a)), NEW m \in Nat, m <= a.len
  PROVE  AccMakes(h, [h |-> h, a |-> [a EXCEPT !.len = m]], cnt, {}, SubSeq(AccumBytes(h, a), 1, m))
<1> DEFINE n == [a EXCEPT !.len = m]
           t == SubSeq(AccumBytes(h, a), 1, m)
<1>1. h \in HeapType /\ a.cap \in Nat /\ a.len \in Nat /\ a \in AccumType
  BY DEF Owns, GoodAccum, AccumType
<1>2. n \in AccumType /\ n.len = m /\ n.cap = a.cap /\ n.block = a.block /\ AccSet(n) = AccSet(a)
  BY <1>1 DEF AccumType, AccSet
<1>3. AccumBytes(h, a) \in Bytes8 /\ Len(AccumBytes(h, a)) = a.len
  BY <1>1, AccumFacts
<1>4. t \in Bytes8 /\ Len(t) = m /\ \A k \in 1..m : t[k] = AccumBytes(h, a)[k]
  <2>1. 0 \in Nat /\ 0 + 1 = 1 /\ 0 + m = m /\ 0 + m <= Len(AccumBytes(h, a))
        /\ \A k \in 1..m : 0 + k = k
    BY <1>3
  <2>2. /\ SubSeq(AccumBytes(h, a), 0 + 1, 0 + m) \in Bytes8
        /\ Len(SubSeq(AccumBytes(h, a), 0 + 1, 0 + m)) = m
        /\ \A k \in 1..m : SubSeq(AccumBytes(h, a), 0 + 1, 0 + m)[k] = AccumBytes(h, a)[0 + k]
    BY <1>3, <2>1, SubSeqBytes, Zenon
  <2> QED
    BY <2>1, <2>2
<1> HIDE DEF n, t
<1>5. GoodAccum(h, n)
  <2>1. a.cap > 0 => a.len <= Len(h[a.block].data) /\ Len(h[a.block].data) \in Nat
    BY <1>1, AccumFacts DEF Bytes8
  <2> QED
    BY <1>1, <1>2, <2>1 DEF GoodAccum
<1>6. AccumBytes(h, n) = t
  <2>1. AccumBytes(h, n) \in Bytes8 /\ Len(AccumBytes(h, n)) = m
    BY <1>1, <1>2, <1>5, AccumFacts
  <2>2. CASE ~(a.cap > 0)
    <3>1. m = 0
      BY <1>1, <2>2 DEF GoodAccum
    <3> QED
      BY <1>4, <2>1, <3>1, EmptySeq DEF Bytes8
  <2>3. CASE a.cap > 0
    <3>1. /\ \A i \in 1..a.len : AccumBytes(h, a)[i] = h[a.block].data[i]
          /\ \A i \in 1..m : AccumBytes(h, n)[i] = h[a.block].data[i]
      BY <1>1, <1>2, <1>5, <2>3, AccumFacts
    <3>2. \A i \in 1..m : i \in 1..a.len
      BY <1>1
    <3>3. \A i \in 1..m : AccumBytes(h, n)[i] = t[i]
      BY <1>4, <3>1, <3>2
    <3> QED
      BY <1>4, <2>1, <3>3, SeqEqual DEF Bytes8
  <2> QED
    BY <2>2, <2>3
<1>7. Owns(h, cnt, {} \cup AccSet(n)) /\ AccSet(n) \cap {} = {} /\ {} \in SUBSET BlockIds
  <2>1. {} \cup AccSet(n) = AccSet(a)
    BY <1>2
  <2> QED
    BY <2>1
<1>8. AccMakes(h, [h |-> h, a |-> n], cnt, {}, AccumBytes(h, n))
  BY <1>5, <1>7, AccSelf
<1> QED
  BY <1>6, <1>8 DEF n, t

-----------------------------------------------------------------------------
(* Who holds which block                                                   *)

Holders(s, b) == {x \in SVars : Holds(s[x], b)}
Counts(s) == [b \in BlockIds |-> Cardinality(Holders(s, b))]

(* One String takes another representation.                                *)
LEMMA CountsReplace ==
  ASSUME NEW s \in [SVars -> RepType], NEW x \in SVars, NEW r \in RepType
  PROVE  /\ Counts(s) \in CountType
         /\ s[x].held /\ s[x].base # Static => Counted(Counts(s), s[x])
         /\ Counts([s EXCEPT ![x] = r]) = Plus(Minus(Counts(s), s[x]), r)
         /\ \A y \in SVars \ {x} : s[y].held /\ s[y].base # Static =>
                                     Minus(Counts(s), s[x])[s[y].base] > 0
<1> DEFINE z == [s EXCEPT ![x] = r]
           Others(b) == Holders(s, b) \ {x}
<1>1. /\ z \in [SVars -> RepType] /\ z[x] = r /\ \A y \in SVars : y # x => z[y] = s[y]
      /\ s[x] \in RepType
  OBVIOUS
<1>2. IsFiniteSet(SVars)
  BY ProgramAssumption
<1>3. \A y \in SVars : s[y].base # Static => s[y].base \in BlockIds
  BY DEF RepType, Pointers
<1>4. \A b \in BlockIds : \A y \in SVars : Holds(s[y], b) \in BOOLEAN /\ Holds(z[y], b) \in BOOLEAN
  BY <1>1 DEF Holds, RepType
<1> HIDE DEF z
<1>5. ASSUME NEW b \in BlockIds
      PROVE  /\ Cardinality(Holders(s, b)) = IF Holds(s[x], b) THEN Cardinality(Others(b)) + 1
                                                               ELSE Cardinality(Others(b))
             /\ Cardinality(Holders(z, b)) = IF Holds(r, b) THEN Cardinality(Others(b)) + 1
                                                            ELSE Cardinality(Others(b))
             /\ IsFiniteSet(Others(b)) /\ Cardinality(Others(b)) \in Nat
  <2>1. IsFiniteSet(Others(b)) /\ Cardinality(Others(b)) \in Nat
    <3>1. Others(b) \in SUBSET SVars
      BY DEF Holders
    <3>2. IsFiniteSet(Others(b))
      BY <1>2, <3>1, FS_Subset
    <3> QED
      BY <3>2, FS_CardinalityType
  <2>2. Cardinality(Others(b) \cup {x}) = Cardinality(Others(b)) + 1
    BY <2>1, FS_AddElement
  <2>3. Holders(s, b) = IF Holds(s[x], b) THEN Others(b) \cup {x} ELSE Others(b)
    BY <1>4 DEF Holders
  <2>4. Holders(z, b) = IF Holds(r, b) THEN Others(b) \cup {x} ELSE Others(b)
    BY <1>1, <1>4 DEF Holders
  <2> QED
    BY <2>1, <2>2, <2>3, <2>4
<1> HIDE DEF Others
<1>6. \A b \in BlockIds : Counts(s)[b] \in Nat
  BY <1>5 DEF Counts
<1>7. Counts(s) \in CountType
  BY <1>6 DEF Counts, CountType
<1>8. s[x].held /\ s[x].base # Static => Counted(Counts(s), s[x])
  <2> SUFFICES ASSUME s[x].held, s[x].base # Static
               PROVE  s[x].base \in BlockIds /\ Counts(s)[s[x].base] > 0
    BY DEF Counted
  <2>1. s[x].base \in BlockIds /\ Holds(s[x], s[x].base)
    BY <1>3 DEF Holds
  <2> QED
    BY <1>5, <2>1 DEF Counts
<1>9. \A b \in BlockIds : Minus(Counts(s), s[x])[b] = Cardinality(Others(b))
  BY <1>5 DEF Minus, Counts
<1>10. \A b \in BlockIds : Counts(z)[b] = Plus(Minus(Counts(s), s[x]), r)[b]
  BY <1>5, <1>9 DEF Plus, Counts
<1>11. Counts(z) = Plus(Minus(Counts(s), s[x]), r)
  BY <1>10 DEF Counts, Plus
<1>12. ASSUME NEW y \in SVars \ {x}, s[y].held, s[y].base # Static
       PROVE  Minus(Counts(s), s[x])[s[y].base] > 0
  <2>1. s[y].base \in BlockIds /\ y \in Others(s[y].base)
    BY <1>3, <1>12 DEF Others, Holders, Holds
  <2>2. Cardinality(Others(s[y].base)) # 0
    BY <1>5, <2>1, FS_EmptySet
  <2> QED
    BY <1>5, <1>9, <2>1, <2>2
<1> QED
  BY <1>7, <1>8, <1>11, <1>12 DEF z

-----------------------------------------------------------------------------
(* The inductive invariant                                                 *)

(* A String reads the text it should, or was moved from and holds nothing. *)
Value(h, r, text) == Good(h, r) /\ Bytes(h, r) = text /\ Len(text) <= MaxLength
VarOk(h, r, text) == Value(h, r, text) \/ (text = Gone /\ r \in RepType /\ ~r.held)

(* The invariant of a memory, the Strings with their contents, those with  *)
(* a c_str() pointer, and the accumulator with its content: memos have as  *)
(* many references as holders, every String reads bytes that were written, *)
(* and what a c_str() pointer needs is a NUL that was written behind them. *)
StoreOk(h, s, w, T, a, aw) ==
  /\ s \in [SVars -> RepType] /\ w \in [SVars -> Bytes8] /\ T \in SUBSET SVars
  /\ Owns(h, Counts(s), AccSet(a))
  /\ \A x \in SVars : VarOk(h, s[x], w[x])
  /\ GoodAccum(h, a) /\ AccumBytes(h, a) = aw /\ Len(aw) <= MaxLength
  /\ \A x \in T : Good(h, s[x]) /\ Ended(h, s[x])

StringInv == StoreOk(smem, svar, swant, sterm, sacc, sawant)

(* A String that somebody else's step does not touch.                      *)
LEMMA VarKept ==
  ASSUME NEW h \in HeapType, NEW g \in HeapType, NEW c, NEW r, NEW text, VarOk(h, r, text),
         r.held /\ r.base # Static => c[r.base] > 0, Frame(h, g, c, {})
  PROVE  VarOk(g, r, text) /\ (Good(h, r) /\ Ended(h, r) => Good(g, r) /\ Ended(g, r))
<1>1. r \in RepType
  BY DEF VarOk, Value, Good
<1>2. ASSUME Good(h, r)
      PROVE  /\ Good(g, r) /\ Bytes(g, r) = Bytes(h, r) /\ (Ended(h, r) => Ended(g, r))
  <2>1. InRange(h, r) /\ (r.held <=> r.base # Static)
    BY <1>2 DEF Good
  <2>2. r.base = Static \/ (r.base \in BlockIds /\ Extends(h[r.base].data, g[r.base].data))
    BY <1>1, <2>1 DEF Frame, RepType, Pointers
  <2>3. Bytes(g, r) = Bytes(h, r) /\ InRange(g, r)
    BY <1>1, <2>1, <2>2, BytesFramed
  <2>4. Ended(h, r) => Ended(g, r)
    <3>1. CASE r.base = Static
      BY <3>1 DEF Ended
    <3>2. CASE r.base # Static
      <4>1. Len(h[r.base].data) \in Nat /\ Len(g[r.base].data) \in Nat /\ r.at + r.len \in Nat
        BY <1>1, <2>2, <3>2 DEF HeapType, Bytes8, RepType
      <4>2. SUFFICES ASSUME Ended(h, r) PROVE Ended(g, r)
        OBVIOUS
      <4> DEFINE k == r.at + r.len
      <4>3. k < Len(h[r.base].data) /\ h[r.base].data[k + 1] = Nul
        BY <3>2, <4>2 DEF Ended
      <4>4. k + 1 \in 1..Len(h[r.base].data) /\ Len(h[r.base].data) <= Len(g[r.base].data)
        BY <2>2, <3>2, <4>1, <4>3 DEF Extends
      <4>5. g[r.base].data[k + 1] = h[r.base].data[k + 1] /\ k < Len(g[r.base].data)
        BY <2>2, <3>2, <4>1, <4>3, <4>4 DEF Extends
      <4> QED
        BY <3>2, <4>3, <4>5 DEF Ended
    <3> QED
      BY <3>1, <3>2
  <2> QED
    BY <1>1, <2>1, <2>3, <2>4 DEF Good
<1>3. VarOk(g, r, text)
  BY <1>2 DEF VarOk, Value
<1> QED
  BY <1>2, <1>3

(* An accumulator that a String's step does not touch.                     *)
LEMMA AccumKept ==
  ASSUME NEW h \in HeapType, NEW g \in HeapType, NEW c, NEW a, GoodAccum(h, a),
         Frame(h, g, c, AccSet(a))
  PROVE  GoodAccum(g, a) /\ AccumBytes(g, a) = AccumBytes(h, a)
<1>1. CASE ~(a.cap > 0)
  BY <1>1 DEF GoodAccum, AccumBytes, AccumType
<1>2. CASE a.cap > 0
  <2> DEFINE d == h[a.block].data
             e == g[a.block].data
  <2>1. a.block \in BlockIds /\ AccSet(a) = {a.block} /\ a.len <= Len(d) /\ a.len \in Nat
    BY <1>2, AccumFacts
  <2>2. d \in Bytes8 /\ e \in Bytes8 /\ Len(d) \in Nat /\ Len(e) \in Nat
    BY <2>1 DEF HeapType, Bytes8
  <2>3. Extends(d, e)
    BY <2>1 DEF Frame
  <2> HIDE DEF d, e
  <2>4. Part(e, 0, a.len) = Part(d, 0, a.len)
    <3>1. 0 \in Nat /\ 0 + a.len <= Len(d)
      BY <2>1, <2>2
    <3> QED
      BY <2>1, <2>2, <2>3, <3>1, PartExtends, Zenon
  <2>5. a.len <= Len(e)
    BY <2>1, <2>2, <2>3 DEF Extends
  <2> QED
    BY <2>4, <2>5 DEF GoodAccum, AccumBytes, d, e
<1> QED
  BY <1>1, <1>2

(* A frame for fewer blocks.                                               *)
LEMMA FrameLess ==
  ASSUME NEW h, NEW g, NEW c, NEW A, Frame(h, g, c, A)
  PROVE  Frame(h, g, c, {})
BY DEF Frame

(* String x takes representation r of the text, and the accumulator is n   *)
(* with content nw; nothing that others hold has changed.                  *)
LEMMA VarStep ==
  ASSUME NEW h, NEW s, NEW w, NEW T, NEW a, NEW aw, StoreOk(h, s, w, T, a, aw),
         NEW x \in SVars, NEW g, NEW r, NEW text, Good(g, r), Bytes(g, r) = text,
         Len(text) <= MaxLength, NEW n, NEW nw,
         Owns(g, Plus(Minus(Counts(s), s[x]), r), AccSet(n)),
         Frame(h, g, Minus(Counts(s), s[x]), {}),
         GoodAccum(g, n), AccumBytes(g, n) = nw, Len(nw) <= MaxLength,
         NEW Q, Q \subseteq T \cup {x}, x \in Q => Ended(g, r)
  PROVE  StoreOk(g, [s EXCEPT ![x] = r], [w EXCEPT ![x] = text], Q, n, nw)
<1> DEFINE z == [s EXCEPT ![x] = r]
           v == [w EXCEPT ![x] = text]
           c == Minus(Counts(s), s[x])
<1>1. /\ h \in HeapType /\ g \in HeapType /\ s \in [SVars -> RepType] /\ w \in [SVars -> Bytes8]
      /\ T \in SUBSET SVars /\ r \in RepType
  BY DEF StoreOk, Owns, Good
<1>2. text \in Bytes8
  BY <1>1, BytesOfRep
<1>3. /\ z \in [SVars -> RepType] /\ z[x] = r /\ \A y \in SVars : y # x => z[y] = s[y]
      /\ v \in [SVars -> Bytes8] /\ v[x] = text /\ \A y \in SVars : y # x => v[y] = w[y]
      /\ Q \in SUBSET SVars
  BY <1>1, <1>2
<1>4. /\ Counts(z) = Plus(c, r)
      /\ \A y \in SVars \ {x} : s[y].held /\ s[y].base # Static => c[s[y].base] > 0
  BY <1>1, CountsReplace
<1> HIDE DEF z, v, c
<1>5. ASSUME NEW y \in SVars, y # x
      PROVE  VarOk(g, s[y], w[y]) /\ (Good(h, s[y]) /\ Ended(h, s[y]) => Good(g, s[y]) /\ Ended(g, s[y]))
  <2>1. VarOk(h, s[y], w[y])
    BY DEF StoreOk
  <2>2. s[y].held /\ s[y].base # Static => c[s[y].base] > 0
    BY <1>4, <1>5
  <2>3. Frame(h, g, c, {})
    BY DEF c
  <2> QED
    BY <1>1, <2>1, <2>2, <2>3, VarKept
<1>6. \A y \in SVars : VarOk(g, z[y], v[y])
  <2> SUFFICES ASSUME NEW y \in SVars PROVE VarOk(g, z[y], v[y])
    OBVIOUS
  <2>1. CASE y = x
    BY <1>3, <2>1 DEF VarOk, Value
  <2>2. CASE y # x
    BY <1>3, <1>5, <2>2
  <2> QED
    BY <2>1, <2>2
<1>7. \A y \in Q : Good(g, z[y]) /\ Ended(g, z[y])
  <2> SUFFICES ASSUME NEW y \in Q PROVE Good(g, z[y]) /\ Ended(g, z[y])
    OBVIOUS
  <2>1. CASE y = x
    BY <1>3, <2>1
  <2>2. CASE y # x
    <3>1. y \in T /\ y \in SVars
      BY <1>3, <2>2
    <3>2. Good(h, s[y]) /\ Ended(h, s[y])
      BY <3>1 DEF StoreOk
    <3> QED
      BY <1>3, <1>5, <2>2, <3>1, <3>2
  <2> QED
    BY <2>1, <2>2
<1>8. Owns(g, Counts(z), AccSet(n))
  BY <1>4 DEF c
<1>9. StoreOk(g, z, v, Q, n, nw)
  BY <1>3, <1>6, <1>7, <1>8 DEF StoreOk
<1> QED
  BY <1>9 DEF z, v

(* The accumulator's step.                                                 *)
LEMMA AccStep ==
  ASSUME NEW h, NEW s, NEW w, NEW T, NEW a, NEW aw, StoreOk(h, s, w, T, a, aw),
         NEW o, NEW text, AccMakes(h, o, Counts(s), {}, text), Len(text) <= MaxLength
  PROVE  StoreOk(o.h, s, w, T, o.a, text)
<1> DEFINE g == o.h
           n == o.a
<1>1. /\ Owns(g, Counts(s), {} \cup AccSet(n)) /\ Frame(h, g, Counts(s), {})
      /\ GoodAccum(g, n) /\ AccumBytes(g, n) = text
  BY DEF AccMakes
<1>2. Owns(g, Counts(s), AccSet(n))
  <2>1. {} \cup AccSet(n) = AccSet(n)
    OBVIOUS
  <2> QED
    BY <1>1, <2>1
<1>3. h \in HeapType /\ g \in HeapType /\ s \in [SVars -> RepType] /\ T \in SUBSET SVars
  BY <1>1 DEF StoreOk, Owns
<1> HIDE DEF g, n
<1>4. ASSUME NEW y \in SVars
      PROVE  VarOk(g, s[y], w[y]) /\ (Good(h, s[y]) /\ Ended(h, s[y]) => Good(g, s[y]) /\ Ended(g, s[y]))
  <2>1. VarOk(h, s[y], w[y])
    BY DEF StoreOk
  <2>2. s[y].held /\ s[y].base # Static => Counts(s)[s[y].base] > 0
    <3>1. s[y] \in RepType
      BY <1>3
    <3> QED
      BY <1>3, <3>1, CountsReplace DEF Counted
  <2> QED
    BY <1>1, <1>3, <2>1, <2>2, VarKept
<1>5. \A y \in T : Good(g, s[y]) /\ Ended(g, s[y])
  BY <1>3, <1>4 DEF StoreOk
<1>6. StoreOk(g, s, w, T, n, text)
  BY <1>1, <1>2, <1>4, <1>5 DEF StoreOk
<1> QED
  BY <1>6 DEF g, n

(* String x takes what an operation in its place made.                     *)
LEMMA MakesStep ==
  ASSUME NEW h, NEW s, NEW w, NEW T, NEW a, NEW aw, StoreOk(h, s, w, T, a, aw),
         NEW x \in SVars, NEW o, NEW text, Len(text) <= MaxLength,
         Makes(h, o, Minus(Counts(s), s[x]), AccSet(a), text),
         NEW Q, Q \subseteq T \cup {x}, x \in Q => Ended(o.h, o.r)
  PROVE  StoreOk(o.h, [s EXCEPT ![x] = o.r], [w EXCEPT ![x] = text], Q, a, aw)
<1> DEFINE c == Minus(Counts(s), s[x])
           g == o.h
           r == o.r
<1>1. /\ Owns(g, Plus(c, r), AccSet(a)) /\ Frame(h, g, c, AccSet(a))
      /\ Good(g, r) /\ Bytes(g, r) = text
  BY DEF Makes
<1>2. /\ h \in HeapType /\ g \in HeapType /\ GoodAccum(h, a) /\ AccumBytes(h, a) = aw
      /\ Len(aw) <= MaxLength
  BY <1>1 DEF StoreOk, Owns
<1>3. x \in Q => Ended(g, r)
  OBVIOUS
<1> HIDE DEF g, r, c
<1>4. GoodAccum(g, a) /\ AccumBytes(g, a) = aw
  BY <1>1, <1>2, AccumKept
<1>5. Frame(h, g, c, {})
  BY <1>1, FrameLess
<1>6. StoreOk(g, [s EXCEPT ![x] = r], [w EXCEPT ![x] = text], Q, a, aw)
  BY <1>1, <1>2, <1>3, <1>4, <1>5, VarStep DEF c
<1> QED
  BY <1>6 DEF g, r

(* What the invariant says of one String.                                  *)
LEMMA VarFacts ==
  ASSUME StringInv, NEW x \in SVars
  PROVE  /\ svar[x] \in RepType /\ (svar[x].held => svar[x].base # Static)
         /\ Counted(Counts(svar), svar[x]) /\ AccSet(sacc) \in SUBSET BlockIds
         /\ Owns(smem, Counts(svar), AccSet(sacc)) /\ smem \in HeapType
         /\ Len(swant[x]) \in Nat /\ swant[x] \in Bytes8
         /\ Usable(x) => /\ Good(smem, svar[x]) /\ Bytes(smem, svar[x]) = swant[x]
                         /\ Len(swant[x]) <= MaxLength /\ svar[x].len = Len(swant[x])
<1>1. /\ svar \in [SVars -> RepType] /\ swant \in [SVars -> Bytes8]
      /\ Owns(smem, Counts(svar), AccSet(sacc)) /\ VarOk(smem, svar[x], swant[x])
      /\ GoodAccum(smem, sacc)
  BY DEF StringInv, StoreOk
<1>2. smem \in HeapType /\ svar[x] \in RepType /\ swant[x] \in Bytes8 /\ Len(swant[x]) \in Nat
  BY <1>1 DEF Owns, Bytes8
<1>3. AccSet(sacc) \in SUBSET BlockIds
  BY <1>1, <1>2, AccumFacts
<1>4. svar[x].held => svar[x].base # Static
  BY <1>1 DEF VarOk, Value, Good
<1>5. Counted(Counts(svar), svar[x])
  BY <1>1, <1>2, <1>4, CountsReplace DEF Counted
<1>6. Usable(x) => /\ Good(smem, svar[x]) /\ Bytes(smem, svar[x]) = swant[x]
                   /\ Len(swant[x]) <= MaxLength
  BY <1>1 DEF Usable, VarOk, Value
<1>7. Len(Bytes(smem, svar[x])) = svar[x].len
  BY <1>2, BytesOfRep
<1> QED
  BY <1>1, <1>2, <1>3, <1>4, <1>5, <1>6, <1>7

(* x becomes what an operation in its place made.                          *)
LEMMA BecomeInv ==
  ASSUME StringInv, NEW x \in SVars, NEW o, NEW text, Become(x, o, text),
         Makes(smem, o, Minus(Counts(svar), svar[x]), AccSet(sacc), text)
  PROVE  StringInv'
<1>1. /\ Len(text) <= MaxLength /\ smem' = o.h /\ svar' = [svar EXCEPT ![x] = o.r]
      /\ swant' = [swant EXCEPT ![x] = text] /\ sterm' = sterm \ {x}
      /\ sacc' = sacc /\ sawant' = sawant
  BY DEF Become, LengthFits, UnchangedAccum
<1>2. StoreOk(smem, svar, swant, sterm, sacc, sawant)
  BY DEF StringInv
<1> DEFINE Q == sterm \ {x}
<1>3. Q \subseteq sterm \cup {x} /\ x \notin Q
  OBVIOUS
<1> HIDE DEF Q
<1>4. StoreOk(o.h, [svar EXCEPT ![x] = o.r], [swant EXCEPT ![x] = text], Q, sacc, sawant)
  BY <1>1, <1>2, <1>3, MakesStep
<1> QED
  BY <1>1, <1>4 DEF StringInv, Q

(* x becomes a temporary that an operation beside it made.                 *)
LEMMA MoveIntoInv ==
  ASSUME StringInv, NEW x \in SVars, NEW o, NEW text, MoveInto(x, o, text),
         o = [h |-> o.h, r |-> o.r], Makes(smem, o, Counts(svar), AccSet(sacc), text)
  PROVE  StringInv'
<1> DEFINE p == [h |-> DerefMemo(o.h, svar[x]), r |-> o.r]
<1>1. [o EXCEPT !.h = DerefMemo(@, svar[x])] = p
  OBVIOUS
<1>2. Become(x, p, text)
  BY <1>1 DEF MoveInto
<1>3. /\ svar[x] \in RepType /\ Counted(Counts(svar), svar[x]) /\ smem \in HeapType
      /\ AccSet(sacc) \in SUBSET BlockIds
  BY VarFacts
<1>4. Makes(smem, p, Minus(Counts(svar), svar[x]), AccSet(sacc), text)
  BY <1>3, MakesThenDeref
<1> HIDE DEF p
<1> QED
  BY <1>2, <1>4, BecomeInv

-----------------------------------------------------------------------------
(* Every operation keeps the invariant                                     *)

LEMMA TextBytes ==
  ASSUME NEW t \in Texts
  PROVE  t \in Bytes8
<1>1. t \in Seq(0..255)
  BY ProgramAssumption
<1> DEFINE S == 0..255
<1>2. S \subseteq Int /\ t \in Seq(S)
  BY <1>1
<1> HIDE DEF S
<1>3. Len(t) \in Nat /\ t \in [1..Len(t) -> S]
  BY <1>2, LenProperties
<1>4. t \in [1..Len(t) -> Int]
  BY <1>2, <1>3
<1> QED
  BY <1>3, <1>4, FunctionSeq

(* assign of text from outside.                                            *)
LEMMA AssignTextInv ==
  ASSUME StringInv, NEW x \in SVars, NEW t \in Texts, AssignText(x, t)
  PROVE  StringInv'
<1> DEFINE o == AssignRaw(smem, svar[x], Stable(t))
<1>1. Become(x, o, t) /\ FreeBlocks(smem) # {}
  BY DEF AssignText, CanAllocate
<1>2. t \in Bytes8
  BY TextBytes
<1>3. /\ svar[x] \in RepType /\ (svar[x].held => svar[x].base # Static) /\ smem \in HeapType
      /\ Counted(Counts(svar), svar[x]) /\ AccSet(sacc) \in SUBSET BlockIds
      /\ Owns(smem, Counts(svar), AccSet(sacc))
  BY VarFacts
<1>4. /\ Stable(t) \in RepType /\ InRange(smem, Stable(t)) /\ Bytes(smem, Stable(t)) = t
      /\ Stable(t).base = Static
  BY <1>2, <1>3, StableRep DEF Good
<1>5. Makes(smem, o, Minus(Counts(svar), svar[x]), AccSet(sacc), Bytes(smem, Stable(t)))
  BY <1>1, <1>3, <1>4, AssignRawMakes
<1> HIDE DEF o
<1> QED
  BY <1>1, <1>4, <1>5, BecomeInv

(* assign of a literal.                                                    *)
LEMMA AssignLiteralInv ==
  ASSUME StringInv, NEW x \in SVars, NEW t \in Texts, AssignLiteral(x, t)
  PROVE  StringInv'
<1> DEFINE p == [h |-> smem, r |-> Stable(t)]
           o == [h |-> DerefMemo(smem, svar[x]), r |-> Stable(t)]
<1>1. Become(x, o, t)
  BY DEF AssignLiteral
<1>2. /\ svar[x] \in RepType /\ smem \in HeapType
      /\ Counted(Counts(svar), svar[x]) /\ AccSet(sacc) \in SUBSET BlockIds
      /\ Owns(smem, Counts(svar), AccSet(sacc))
  BY VarFacts
<1>3. Makes(smem, p, Counts(svar), AccSet(sacc), t)
  BY <1>2, TextBytes, StableMakes
<1>4. p.h = smem /\ p.r = Stable(t)
  OBVIOUS
<1> HIDE DEF p
<1>5. Makes(smem, [h |-> DerefMemo(p.h, svar[x]), r |-> p.r], Minus(Counts(svar), svar[x]), AccSet(sacc), t)
  BY <1>2, <1>3, MakesThenDeref
<1>6. Makes(smem, o, Minus(Counts(svar), svar[x]), AccSet(sacc), t)
  BY <1>4, <1>5
<1> HIDE DEF o
<1> QED
  BY <1>1, <1>6, BecomeInv

(* The copy assignment.                                                    *)
LEMMA CopyInv ==
  ASSUME StringInv, NEW x \in SVars, NEW y \in SVars, Copy0(x, y)
  PROVE  StringInv'
<1> DEFINE p == [h |-> RefMemo(smem, svar[y]), r |-> svar[y]]
           o == [h |-> DerefMemo(RefMemo(smem, svar[y]), svar[x]), r |-> svar[y]]
<1>1. Become(x, o, swant[y]) /\ Usable(y)
  BY DEF Copy0
<1>2. /\ svar[x] \in RepType /\ smem \in HeapType
      /\ Counted(Counts(svar), svar[x]) /\ AccSet(sacc) \in SUBSET BlockIds
      /\ Owns(smem, Counts(svar), AccSet(sacc))
  BY VarFacts
<1>3. Good(smem, svar[y]) /\ Bytes(smem, svar[y]) = swant[y] /\ Counted(Counts(svar), svar[y])
  BY <1>1, VarFacts
<1>4. Makes(smem, p, Counts(svar), AccSet(sacc), swant[y])
  BY <1>2, <1>3, ShareMakes
<1>5. p.h = RefMemo(smem, svar[y]) /\ p.r = svar[y]
  OBVIOUS
<1> HIDE DEF p
<1>6. Makes(smem, [h |-> DerefMemo(p.h, svar[x]), r |-> p.r], Minus(Counts(svar), svar[x]), AccSet(sacc), swant[y])
  BY <1>2, <1>4, MakesThenDeref
<1>7. Makes(smem, o, Minus(Counts(svar), svar[x]), AccSet(sacc), swant[y])
  BY <1>5, <1>6
<1> HIDE DEF o
<1> QED
  BY <1>1, <1>7, BecomeInv

(* assign of a tail of its own characters.                                 *)
LEMMA AssignOwnInv ==
  ASSUME StringInv, NEW x \in SVars, NEW i \in Nat, AssignOwn(x, i)
  PROVE  StringInv'
<1> DEFINE r == svar[x]
           n == r.len - i
           q == Cut(r, i, n)
           o == AssignRaw(smem, r, q)
           t == SubSeq(swant[x], i + 1, Len(swant[x]))
<1>1. Usable(x) /\ FreeBlocks(smem) # {} /\ i <= r.len /\ Become(x, o, t)
  BY DEF AssignOwn, CanAllocate, OwnPart, Cut
<1>2. /\ r \in RepType /\ (r.held => r.base # Static) /\ smem \in HeapType
      /\ Counted(Counts(svar), r) /\ AccSet(sacc) \in SUBSET BlockIds
      /\ Owns(smem, Counts(svar), AccSet(sacc))
      /\ Good(smem, r) /\ Bytes(smem, r) = swant[x] /\ r.len = Len(swant[x])
  BY <1>1, VarFacts
<1>3. n \in Nat /\ i + n <= r.len /\ i + n = Len(swant[x])
  BY <1>1, <1>2 DEF RepType
<1> HIDE DEF r, n
<1>4. /\ Good(smem, q) /\ Bytes(smem, q) = SubSeq(Bytes(smem, r), i + 1, i + n)
      /\ q.base = r.base /\ q.held = r.held
  BY <1>2, <1>3, CutRep
<1> HIDE DEF q
<1>5. q \in RepType /\ InRange(smem, q) /\ (q.base = Static \/ (r.held /\ q.base = r.base))
  BY <1>2, <1>4 DEF Good
<1>6. Makes(smem, o, Minus(Counts(svar), r), AccSet(sacc), Bytes(smem, q))
  BY <1>1, <1>2, <1>5, AssignRawMakes
<1>7. Bytes(smem, q) = t
  BY <1>2, <1>3, <1>4
<1> HIDE DEF o, t
<1> QED
  BY <1>1, <1>6, <1>7, BecomeInv DEF r

(* append: of another String, of text, or of a part of itself.             *)
LEMMA AppendInv ==
  ASSUME StringInv, NEW x \in SVars, Usable(x), FreeBlocks(smem) # {},
         NEW s, Good(smem, s), Counted(Counts(svar), s),
         NEW whole \in BOOLEAN, whole => s = svar[x] \/ Counted(Minus(Counts(svar), svar[x]), s),
         NEW text, Bytes(smem, s) = text,
         Become(x, Append0(smem, svar[x], s, whole), swant[x] \o text)
  PROVE  StringInv'
<1> DEFINE o == Append0(smem, svar[x], s, whole)
<1>1. /\ smem \in HeapType /\ Counted(Counts(svar), svar[x]) /\ AccSet(sacc) \in SUBSET BlockIds
      /\ Owns(smem, Counts(svar), AccSet(sacc)) /\ swant[x] \in Bytes8
      /\ Good(smem, svar[x]) /\ Bytes(smem, svar[x]) = swant[x] /\ svar[x].len = Len(swant[x])
  BY VarFacts
<1>2. text \in Bytes8 /\ Len(text) = s.len
  BY <1>1, BytesOfRep DEF Good
<1>3. svar[x].len + s.len <= MaxLength
  <2>1. Len(swant[x] \o text) <= MaxLength
    BY DEF Become, LengthFits
  <2>2. Len(swant[x] \o text) = Len(swant[x]) + Len(text)
    BY <1>1, <1>2, ConcatProperties DEF Bytes8
  <2> QED
    BY <1>1, <1>2, <2>1, <2>2
<1>4. Makes(smem, o, Minus(Counts(svar), svar[x]), AccSet(sacc), Bytes(smem, svar[x]) \o Bytes(smem, s))
  BY <1>1, <1>3, Append0Makes
<1>5. Makes(smem, o, Minus(Counts(svar), svar[x]), AccSet(sacc), swant[x] \o text)
  BY <1>1, <1>4
<1> HIDE DEF o
<1> DEFINE t == swant[x] \o text
<1>6. Become(x, o, t) /\ Makes(smem, o, Minus(Counts(svar), svar[x]), AccSet(sacc), t)
  BY <1>5 DEF o
<1> HIDE DEF t
<1> QED
  BY <1>6, BecomeInv

(* append of a String, perhaps of itself.                                  *)
LEMMA AppendStringInv ==
  ASSUME StringInv, NEW x \in SVars, NEW y \in SVars, AppendString(x, y)
  PROVE  StringInv'
<1>1. /\ Usable(x) /\ Usable(y) /\ FreeBlocks(smem) # {}
      /\ Become(x, Append0(smem, svar[x], svar[y], TRUE), swant[x] \o swant[y])
  BY DEF AppendString, CanAllocate
<1>2. /\ Good(smem, svar[y]) /\ Bytes(smem, svar[y]) = swant[y] /\ Counted(Counts(svar), svar[y])
      /\ svar[y] \in RepType
  BY <1>1, VarFacts
<1>3. svar[y] = svar[x] \/ Counted(Minus(Counts(svar), svar[x]), svar[y])
  <2>1. CASE y = x
    BY <2>1
  <2>2. CASE y # x
    <3>1. svar \in [SVars -> RepType]
      BY DEF StringInv, StoreOk
    <3>2. svar[y].held => svar[y].base # Static /\ svar[y].base \in BlockIds
      BY <1>2 DEF Good, RepType, Pointers
    <3>3. svar[y].held => Minus(Counts(svar), svar[x])[svar[y].base] > 0
      BY <1>2, <2>2, <3>1, <3>2, CountsReplace
    <3> QED
      BY <3>2, <3>3 DEF Counted
  <2> QED
    BY <2>1, <2>2
<1> QED
  BY <1>1, <1>2, <1>3, AppendInv

(* append of text from outside.                                            *)
LEMMA AppendTextInv ==
  ASSUME StringInv, NEW x \in SVars, NEW t \in Texts, AppendText(x, t)
  PROVE  StringInv'
<1>1. /\ Usable(x) /\ FreeBlocks(smem) # {}
      /\ Become(x, Append0(smem, svar[x], Stable(t), FALSE), swant[x] \o t)
  BY DEF AppendText, CanAllocate
<1>2. smem \in HeapType
  BY VarFacts
<1>3. Good(smem, Stable(t)) /\ Bytes(smem, Stable(t)) = t /\ Stable(t).held = FALSE
  BY <1>2, TextBytes, StableRep
<1>4. Counted(Counts(svar), Stable(t))
  BY <1>3 DEF Counted
<1> QED
  BY <1>1, <1>3, <1>4, AppendInv

(* append of a part of its own characters.                                 *)
LEMMA AppendOwnInv ==
  ASSUME StringInv, NEW x \in SVars, NEW i \in Nat, NEW n \in Nat, AppendOwn(x, i, n)
  PROVE  StringInv'
<1> DEFINE q == Cut(svar[x], i, n)
           t == SubSeq(swant[x], i + 1, i + n)
<1>1. /\ Usable(x) /\ FreeBlocks(smem) # {} /\ i + n <= svar[x].len
      /\ Become(x, Append0(smem, svar[x], q, FALSE), swant[x] \o t)
  BY DEF AppendOwn, CanAllocate, OwnPart, Cut
<1>2. /\ smem \in HeapType /\ Good(smem, svar[x]) /\ Bytes(smem, svar[x]) = swant[x]
      /\ Counted(Counts(svar), svar[x])
  BY <1>1, VarFacts
<1>3. Good(smem, q) /\ Bytes(smem, q) = t /\ q.base = svar[x].base /\ q.held = svar[x].held
  BY <1>1, <1>2, CutRep
<1> HIDE DEF q, t
<1>4. Counted(Counts(svar), q)
  BY <1>2, <1>3 DEF Counted
<1> QED
  BY <1>1, <1>3, <1>4, AppendInv

(* c_str: the NUL it writes is not a character of any String.              *)
LEMMA CStrInv ==
  ASSUME StringInv, NEW x \in SVars, CStr(x)
  PROVE  StringInv'
<1> DEFINE o == CStrOf(smem, svar[x])
           Q == sterm \cup {x}
<1>1. /\ Usable(x) /\ FreeBlocks(smem) # {} /\ smem' = o.h /\ svar' = [svar EXCEPT ![x] = o.r]
      /\ sterm' = Q /\ swant' = swant /\ sacc' = sacc /\ sawant' = sawant
  BY DEF CStr, CanAllocate
<1>2. /\ Counted(Counts(svar), svar[x]) /\ AccSet(sacc) \in SUBSET BlockIds
      /\ Owns(smem, Counts(svar), AccSet(sacc))
      /\ Good(smem, svar[x]) /\ Bytes(smem, svar[x]) = swant[x] /\ svar[x].len = Len(swant[x])
      /\ Len(swant[x]) <= MaxLength
  BY <1>1, VarFacts
<1>3. /\ Makes(smem, o, Minus(Counts(svar), svar[x]), AccSet(sacc), swant[x])
      /\ Ended(o.h, o.r)
  BY <1>1, <1>2, CStrMakes
<1>4. StoreOk(smem, svar, swant, sterm, sacc, sawant) /\ Q \subseteq sterm \cup {x}
  BY DEF StringInv
<1> HIDE DEF o, Q
<1>5. StoreOk(o.h, [svar EXCEPT ![x] = o.r], [swant EXCEPT ![x] = swant[x]], Q, sacc, sawant)
  BY <1>2, <1>3, <1>4, MakesStep
<1>6. [swant EXCEPT ![x] = swant[x]] = swant
  BY <1>4 DEF StoreOk
<1> QED
  BY <1>1, <1>5, <1>6 DEF StringInv

(* A write through mutable_data().                                         *)
LEMMA SetFirstInv ==
  ASSUME StringInv, NEW x \in SVars, NEW c \in Int, SetFirst(x, c)
  PROVE  StringInv'
<1> DEFINE m == MutableData(smem, svar[x])
           o == [m EXCEPT !.h[m.r.base].data[m.r.at + 1] = c]
           t == [swant[x] EXCEPT ![1] = c]
<1>1. /\ Usable(x) /\ svar[x].len > 0 /\ FreeBlocks(smem) # {} /\ Become(x, o, t)
      /\ IsShared(smem, svar[x])
  BY DEF SetFirst, CanAllocate, MayMutate, IsShared
<1>2. /\ Counted(Counts(svar), svar[x]) /\ AccSet(sacc) \in SUBSET BlockIds
      /\ Owns(smem, Counts(svar), AccSet(sacc))
      /\ Good(smem, svar[x]) /\ Bytes(smem, svar[x]) = swant[x]
  BY <1>1, VarFacts
<1>3. Makes(smem, o, Minus(Counts(svar), svar[x]), AccSet(sacc), t)
  BY <1>1, <1>2, SetFirstMakes
<1> HIDE DEF o, t
<1> QED
  BY <1>1, <1>3, BecomeInv

(* unique, shrink_to_fit, lower and substr of y, assigned to x.            *)
LEMMA TemporaryInv ==
  ASSUME StringInv, NEW x \in SVars, NEW y \in SVars,
         \/ Unique(x, y) \/ LowerTo(x, y) \/ (x = y /\ ShrinkToFit(x))
         \/ \E pos \in Int, len \in Int : Substr(x, y, pos, len)
  PROVE  StringInv'
<1> DEFINE r == svar[y]
<1>1. Usable(y)
  BY DEF Unique, LowerTo, ShrinkToFit, Substr
<1>2. /\ Counted(Counts(svar), r) /\ AccSet(sacc) \in SUBSET BlockIds
      /\ Owns(smem, Counts(svar), AccSet(sacc))
      /\ Good(smem, r) /\ Bytes(smem, r) = swant[y]
  BY <1>1, VarFacts
<1>3. CASE Unique(x, y)
  <2> DEFINE o == UniqueOf(smem, r)
  <2>1. FreeBlocks(smem) # {} /\ MoveInto(x, o, swant[y])
    BY <1>3 DEF Unique, CanAllocate
  <2>2. Makes(smem, o, Counts(svar), AccSet(sacc), swant[y])
    BY <1>2, <2>1, UniqueMakes
  <2>3. o = [h |-> o.h, r |-> o.r]
    BY DEF UniqueOf, AssignNew, CreateMemo
  <2> HIDE DEF o
  <2> QED
    BY <2>1, <2>2, <2>3, MoveIntoInv
<1>4. CASE LowerTo(x, y)
  <2> DEFINE o == LowerOf(smem, r)
             t == LowerText(swant[y])
  <2>1. FreeBlocks(smem) # {} /\ MoveInto(x, o, t)
    BY <1>4 DEF LowerTo, CanAllocate, LowerText
  <2>2. Makes(smem, o, Counts(svar), AccSet(sacc), t)
    BY <1>2, <2>1, LowerMakes
  <2>3. o = [h |-> o.h, r |-> o.r]
    BY DEF LowerOf, AssignNew, CreateMemo
  <2> HIDE DEF o, t
  <2> QED
    BY <2>1, <2>2, <2>3, MoveIntoInv
<1>5. CASE x = y /\ ShrinkToFit(x)
  <2> DEFINE o == ShrinkOf(smem, r)
  <2>1. FreeBlocks(smem) # {} /\ MoveInto(x, o, swant[y])
    BY <1>5 DEF ShrinkToFit, CanAllocate
  <2>2. Makes(smem, o, Counts(svar), AccSet(sacc), swant[y])
    BY <1>2, <2>1, UniqueMakes
  <2>3. o = [h |-> o.h, r |-> o.r]
    BY DEF ShrinkOf, AssignNew, CreateMemo
  <2> HIDE DEF o
  <2> QED
    BY <2>1, <2>2, <2>3, MoveIntoInv
<1>6. ASSUME NEW pos \in Int, NEW len \in Int, Substr(x, y, pos, len)
      PROVE  StringInv'
  <2> DEFINE q == SubstrOf(r, pos, len)
             o == [h |-> RefMemo(smem, q), r |-> q]
             t == SubstrText(swant[y], pos, len)
  <2>1. MoveInto(x, o, t)
    BY <1>6 DEF Substr
  <2>2. Makes(smem, o, Counts(svar), AccSet(sacc), t)
    BY <1>2, SubstrMakes
  <2>3. o = [h |-> o.h, r |-> o.r]
    OBVIOUS
  <2> HIDE DEF o, t
  <2> QED
    BY <2>1, <2>2, <2>3, MoveIntoInv
<1> QED
  BY <1>3, <1>4, <1>5, <1>6

(* The move: the memo changes hands without being counted.                 *)
LEMMA MoveInv ==
  ASSUME StringInv, NEW x \in SVars, NEW y \in SVars, Move(x, y)
  PROVE  StringInv'
<1> DEFINE A == AccSet(sacc)
           c == Minus(Counts(svar), svar[x])
           g == DerefMemo(smem, svar[x])
           r == [svar[y] EXCEPT !.held = FALSE]
           s == [svar EXCEPT ![x] = svar[y]]
           z == [s EXCEPT ![y] = r]
           w == [swant EXCEPT ![x] = swant[y], ![y] = Gone]
           Q == sterm \ {x, y}
<1>1. /\ x # y /\ Usable(y) /\ smem' = g /\ svar' = z /\ swant' = w /\ sterm' = Q
      /\ sacc' = sacc /\ sawant' = sawant
  BY DEF Move, UnchangedAccum
<1>2. /\ svar \in [SVars -> RepType] /\ swant \in [SVars -> Bytes8] /\ sterm \in SUBSET SVars
      /\ GoodAccum(smem, sacc) /\ AccumBytes(smem, sacc) = sawant /\ Len(sawant) <= MaxLength
      /\ \A u \in SVars : VarOk(smem, svar[u], swant[u])
      /\ \A u \in sterm : Good(smem, svar[u]) /\ Ended(smem, svar[u])
  BY DEF StringInv, StoreOk
<1>3. /\ svar[x] \in RepType /\ smem \in HeapType /\ Counted(Counts(svar), svar[x])
      /\ A \in SUBSET BlockIds /\ Owns(smem, Counts(svar), A)
  BY VarFacts
<1>4. svar[y] \in RepType /\ r \in RepType /\ r.held = FALSE /\ Gone \in Bytes8
  <2>1. svar[y] \in RepType
    BY <1>2
  <2>2. r \in RepType /\ r.held = FALSE
    BY <2>1 DEF RepType
  <2>3. Junk \in Int
    BY DEF Junk
  <2>4. Gone \in Bytes8
    BY <2>3 DEF Gone, Bytes8
  <2> QED
    BY <2>1, <2>2, <2>4
<1>5. /\ s \in [SVars -> RepType] /\ s[y] = svar[y] /\ z \in [SVars -> RepType]
      /\ z[x] = svar[y] /\ z[y] = r /\ \A u \in SVars \ {x, y} : z[u] = svar[u]
      /\ w \in [SVars -> Bytes8] /\ w[x] = swant[y] /\ w[y] = Gone
      /\ \A u \in SVars \ {x, y} : w[u] = swant[u]
  BY <1>1, <1>2, <1>4
<1> HIDE DEF A, g, r, w, Q
<1>6. /\ c \in CountType
      /\ \A u \in SVars \ {x} : svar[u].held /\ svar[u].base # Static => c[svar[u].base] > 0
      /\ Counts(s) = Plus(c, svar[y])
  <2>1. Counts(svar) \in CountType
    BY <1>3 DEF Owns
  <2> QED
    BY <1>2, <1>3, <1>4, <2>1, CountsReplace, CountsTyped
<1> HIDE DEF s, c
<1>7. Counts(z) = c
  <2>1. Counts([s EXCEPT ![y] = r]) = Plus(Minus(Counts(s), s[y]), r)
    <3>1. s \in [SVars -> RepType] /\ r \in RepType
      BY <1>4, <1>5
    <3> QED
      BY <3>1, CountsReplace
  <2>2. Minus(Plus(c, svar[y]), svar[y]) = c
    BY <1>4, <1>6, CountsTyped
  <2>3. Plus(c, r) = c
    BY <1>4, <1>6 DEF Plus, Holds, CountType
  <2> QED
    BY <1>5, <1>6, <2>1, <2>2, <2>3
<1> HIDE DEF z
<1>8. /\ Owns(g, c, A) /\ g \in HeapType
      /\ \A b \in BlockIds : c[b] > 0 \/ b \in A => g[b].data = smem[b].data
  <2>1. /\ Owns(DerefMemo(smem, svar[x]), Minus(Counts(svar), svar[x]), A)
        /\ \A b \in BlockIds : Minus(Counts(svar), svar[x])[b] > 0 \/ b \in A =>
                                 DerefMemo(smem, svar[x])[b].data = smem[b].data
    BY <1>3, DerefMemoOwns
  <2> QED
    BY <2>1 DEF c, g, Owns
<1>9. Frame(smem, g, c, A)
  <2>1. \A b \in BlockIds : smem[b].data \in Bytes8
    BY <1>3 DEF HeapType
  <2> QED
    BY <1>8, <2>1, ExtendsSelf DEF Frame
<1>10. Frame(smem, g, c, {})
  BY <1>9, FrameLess
<1>11. GoodAccum(g, sacc) /\ AccumBytes(g, sacc) = sawant
  BY <1>2, <1>3, <1>8, <1>9, AccumKept DEF A
<1>12. ASSUME NEW u \in SVars, u # x
       PROVE  /\ VarOk(g, svar[u], swant[u])
              /\ Good(smem, svar[u]) /\ Ended(smem, svar[u]) => Good(g, svar[u]) /\ Ended(g, svar[u])
  <2>1. VarOk(smem, svar[u], swant[u]) /\ (svar[u].held /\ svar[u].base # Static => c[svar[u].base] > 0)
    BY <1>2, <1>6, <1>12
  <2> QED
    BY <1>3, <1>8, <1>10, <2>1, VarKept
<1>13. \A u \in SVars : VarOk(g, z[u], w[u])
  <2> SUFFICES ASSUME NEW u \in SVars PROVE VarOk(g, z[u], w[u])
    OBVIOUS
  <2>1. CASE u = x
    BY <1>1, <1>5, <1>12, <2>1
  <2>2. CASE u = y
    BY <1>4, <1>5, <2>2 DEF VarOk
  <2>3. CASE u # x /\ u # y
    BY <1>5, <1>12, <2>3
  <2> QED
    BY <2>1, <2>2, <2>3
<1>14. \A u \in Q : Good(g, z[u]) /\ Ended(g, z[u])
  BY <1>2, <1>5, <1>12 DEF Q
<1>15. Q \in SUBSET SVars
  BY <1>2 DEF Q
<1>16. Owns(g, Counts(z), AccSet(sacc))
  BY <1>7, <1>8 DEF A
<1>17. StoreOk(g, z, w, Q, sacc, sawant)
  BY <1>2, <1>5, <1>11, <1>13, <1>14, <1>15, <1>16 DEF StoreOk
<1> QED
  BY <1>1, <1>17 DEF StringInv

(* The accumulator becomes what an operation of it made.                   *)
LEMMA AccBecomeInv ==
  ASSUME StringInv, NEW o, NEW text, AccBecome(o, text), AccMakes(smem, o, Counts(svar), {}, text)
  PROVE  StringInv'
<1>1. /\ Len(text) <= MaxLength /\ smem' = o.h /\ sacc' = o.a /\ sawant' = text
      /\ svar' = svar /\ swant' = swant /\ sterm' = sterm
  BY DEF AccBecome, LengthFits
<1>2. StoreOk(smem, svar, swant, sterm, sacc, sawant)
  BY DEF StringInv
<1>3. StoreOk(o.h, svar, swant, sterm, o.a, text)
  BY <1>1, <1>2, AccStep
<1> QED
  BY <1>1, <1>3 DEF StringInv

(* What the invariant says of the accumulator.                             *)
LEMMA AccFacts ==
  ASSUME StringInv
  PROVE  /\ Owns(smem, Counts(svar), AccSet(sacc)) /\ smem \in HeapType
         /\ GoodAccum(smem, sacc) /\ AccumBytes(smem, sacc) = sawant /\ Len(sawant) <= MaxLength
         /\ AccSet(sacc) \in SUBSET BlockIds /\ sacc.len = Len(sawant) /\ sawant \in Bytes8
         /\ Owns(smem, Counts(svar), {} \cup AccSet(sacc)) /\ AccSet(sacc) \cap {} = {}
         /\ {} \in SUBSET BlockIds /\ sacc.len \in Nat
<1>1. /\ Owns(smem, Counts(svar), AccSet(sacc))
      /\ GoodAccum(smem, sacc) /\ AccumBytes(smem, sacc) = sawant /\ Len(sawant) <= MaxLength
  BY DEF StringInv, StoreOk
<1>2. smem \in HeapType
  BY <1>1 DEF Owns
<1>3. /\ AccSet(sacc) \in SUBSET BlockIds /\ sacc.len = Len(sawant) /\ sawant \in Bytes8
      /\ sacc.len \in Nat
  BY <1>1, <1>2, AccumFacts
<1>4. {} \cup AccSet(sacc) = AccSet(sacc)
  OBVIOUS
<1> QED
  BY <1>1, <1>2, <1>3, <1>4

(* append of a String's characters, or of the accumulator's own.           *)
LEMMA AccAppendInv ==
  ASSUME StringInv, FreeBlocks(smem) # {}, NEW s, Readable(smem, Counts(svar), AccSet(sacc), s),
         NEW text, Bytes(smem, s) = text,
         AccBecome(AccumAppend0(smem, sacc, s), sawant \o text)
  PROVE  StringInv'
<1> DEFINE o == AccumAppend0(smem, sacc, s)
           t == sawant \o text
<1>1. /\ GoodAccum(smem, sacc) /\ AccumBytes(smem, sacc) = sawant
      /\ Owns(smem, Counts(svar), {} \cup AccSet(sacc)) /\ AccSet(sacc) \cap {} = {}
      /\ {} \in SUBSET BlockIds
  BY AccFacts
<1>2. AccMakes(smem, o, Counts(svar), {}, AccumBytes(smem, sacc) \o Bytes(smem, s))
  BY <1>1, AccumAppendMakes
<1>3. AccMakes(smem, o, Counts(svar), {}, t) /\ AccBecome(o, t)
  BY <1>1, <1>2
<1> HIDE DEF o, t
<1> QED
  BY <1>3, AccBecomeInv

(* append of a String to the accumulator.                                  *)
LEMMA AccAppendStringInv ==
  ASSUME StringInv, NEW y \in SVars, AccAppendString(y)
  PROVE  StringInv'
<1>1. /\ Usable(y) /\ FreeBlocks(smem) # {}
      /\ AccBecome(AccumAppend0(smem, sacc, svar[y]), sawant \o swant[y])
  BY DEF AccAppendString, CanAllocate
<1>2. Good(smem, svar[y]) /\ Bytes(smem, svar[y]) = swant[y] /\ Counted(Counts(svar), svar[y])
  BY <1>1, VarFacts
<1>3. Readable(smem, Counts(svar), AccSet(sacc), svar[y])
  BY <1>2 DEF Readable, Good, Counted
<1> QED
  BY <1>1, <1>2, <1>3, AccAppendInv

(* append of the accumulator's own characters.                             *)
LEMMA AccAppendOwnInv ==
  ASSUME StringInv, NEW i \in Nat, NEW n \in Nat, AccAppendOwn(i, n)
  PROVE  StringInv'
<1> DEFINE s == Rep(sacc.block, <<>>, i, n, FALSE)
           t == SubSeq(sawant, i + 1, i + n)
           d == smem[sacc.block].data
<1>1. /\ FreeBlocks(smem) # {} /\ n > 0 /\ i + n <= sacc.len
      /\ AccBecome(AccumAppend0(smem, sacc, s), sawant \o t)
  BY DEF AccAppendOwn, CanAllocate
<1>2. /\ GoodAccum(smem, sacc) /\ AccumBytes(smem, sacc) = sawant /\ smem \in HeapType
      /\ sacc.len = Len(sawant) /\ sawant \in Bytes8 /\ sacc.len \in Nat
  BY AccFacts
<1>3. sacc.cap > 0
  BY <1>1, <1>2 DEF GoodAccum, AccumType
<1>4. /\ sacc.block \in BlockIds /\ AccSet(sacc) = {sacc.block} /\ d \in Bytes8 /\ sacc.len <= Len(d)
      /\ \A k \in 1..sacc.len : sawant[k] = d[k]
  BY <1>2, <1>3, AccumFacts
<1>5. sacc.block # Static /\ Len(d) \in Nat
  BY <1>2, <1>3, <1>4 DEF GoodAccum, Bytes8
<1>6. /\ s \in RepType /\ s.base = sacc.block /\ s.at = i /\ s.len = n /\ s.held = FALSE
  BY <1>4 DEF Rep, RepType, Pointers, Bytes8
<1> HIDE DEF s, d
<1>7. Readable(smem, Counts(svar), AccSet(sacc), s)
  BY <1>1, <1>2, <1>4, <1>5, <1>6 DEF Readable, InRange, Source, d
<1>8. Bytes(smem, s) = t
  <2>1. /\ t \in Bytes8 /\ Len(t) = n /\ \A k \in 1..n : t[k] = sawant[i + k]
    BY <1>1, <1>2, SubSeqBytes
  <2>2. Bytes(smem, s) = Part(d, i, n)
    BY <1>5, <1>6 DEF Bytes, d
  <2>3. /\ Part(d, i, n) \in Bytes8 /\ Len(Part(d, i, n)) = n
        /\ \A k \in 1..n : Part(d, i, n)[k] = IF i + k <= Len(d) THEN d[i + k] ELSE Junk
    BY <1>4, PartBytes, Zenon
  <2>4. \A k \in 1..n : i + k <= Len(d) /\ i + k \in 1..sacc.len
    BY <1>1, <1>2, <1>4, <1>5
  <2> HIDE DEF t
  <2>5. \A k \in 1..n : Part(d, i, n)[k] = t[k]
    BY <1>4, <2>1, <2>3, <2>4
  <2>6. Part(d, i, n) = t
    BY <2>1, <2>3, <2>5, SeqEqual DEF Bytes8
  <2> QED
    BY <2>2, <2>6
<1> HIDE DEF t
<1> QED
  BY <1>1, <1>7, <1>8, AccAppendInv

(* append(char).                                                           *)
LEMMA AccAppendCharInv ==
  ASSUME StringInv, NEW c \in Int, AccAppendChar(c)
  PROVE  StringInv'
<1> DEFINE g == IF sacc.len < sacc.cap THEN [h |-> smem, a |-> sacc] ELSE Grow(smem, sacc, sacc.len)
           o == Put0(g.h, g.a, <<c>>)
           t == Append(sawant, c)
<1>1. FreeBlocks(smem) # {} /\ AccBecome(o, t)
  BY DEF AccAppendChar, CanAllocate
<1>2. /\ GoodAccum(smem, sacc) /\ AccumBytes(smem, sacc) = sawant
      /\ Owns(smem, Counts(svar), AccSet(sacc))
  BY AccFacts
<1>3. g = IF sacc.len < sacc.cap THEN [h |-> smem, a |-> sacc] ELSE Grow(smem, sacc, sacc.len)
  OBVIOUS
<1> HIDE DEF g
<1>4. AccMakes(smem, o, Counts(svar), {}, Append(AccumBytes(smem, sacc), c))
  BY <1>1, <1>2, <1>3, CharMakes
<1>5. AccMakes(smem, o, Counts(svar), {}, t)
  BY <1>2, <1>4
<1> HIDE DEF o, t
<1> QED
  BY <1>1, <1>5, AccBecomeInv

(* pop_back and clear.                                                     *)
LEMMA AccShortenInv ==
  ASSUME StringInv, AccPopBack \/ AccClear
  PROVE  StringInv'
<1>1. /\ GoodAccum(smem, sacc) /\ AccumBytes(smem, sacc) = sawant /\ sacc.len = Len(sawant)
      /\ Owns(smem, Counts(svar), AccSet(sacc)) /\ sacc.len \in Nat /\ sawant \in Bytes8
  BY AccFacts
<1>2. PICK m \in Nat : /\ m <= sacc.len
                       /\ AccBecome([h |-> smem, a |-> [sacc EXCEPT !.len = m]], SubSeq(sawant, 1, m))
  <2>1. CASE AccPopBack
    <3>1. sacc.len - 1 \in Nat /\ sacc.len - 1 <= sacc.len
      BY <1>1, <2>1 DEF AccPopBack
    <3>2. AccBecome([h |-> smem, a |-> [sacc EXCEPT !.len = sacc.len - 1]], SubSeq(sawant, 1, sacc.len - 1))
      BY <1>1, <2>1 DEF AccPopBack
    <3> QED
      BY <3>1, <3>2
  <2>2. CASE AccClear
    <3>1. SubSeq(sawant, 1, 0) = <<>>
      BY <1>1 DEF Bytes8
    <3>2. AccBecome([h |-> smem, a |-> [sacc EXCEPT !.len = 0]], SubSeq(sawant, 1, 0))
      BY <2>2, <3>1 DEF AccClear
    <3>3. 0 \in Nat /\ 0 <= sacc.len
      BY <1>1
    <3> QED
      BY <3>2, <3>3
  <2> QED
    BY <2>1, <2>2
<1> DEFINE o == [h |-> smem, a |-> [sacc EXCEPT !.len = m]]
           t == SubSeq(sawant, 1, m)
<1>3. AccMakes(smem, o, Counts(svar), {}, SubSeq(AccumBytes(smem, sacc), 1, m))
  BY <1>1, <1>2, ShortenMakes
<1>4. AccMakes(smem, o, Counts(svar), {}, t) /\ AccBecome(o, t)
  BY <1>1, <1>2, <1>3
<1> HIDE DEF o, t
<1> QED
  BY <1>4, AccBecomeInv

(* take_string into x.                                                     *)
LEMMA AccTakeInv ==
  ASSUME StringInv, NEW x \in SVars, AccTake(x)
  PROVE  StringInv'
<1> DEFINE o == TakeOf(smem, sacc)
           p == [h |-> o.h, r |-> o.r]
           g == DerefMemo(o.h, svar[x])
           c == Minus(Counts(svar), svar[x])
           Q == sterm \ {x}
<1>1. /\ smem' = g /\ svar' = [svar EXCEPT ![x] = o.r] /\ swant' = [swant EXCEPT ![x] = sawant]
      /\ sterm' = Q /\ sacc' = o.a /\ sawant' = <<>>
  BY DEF AccTake
<1>2. /\ GoodAccum(smem, sacc) /\ AccumBytes(smem, sacc) = sawant /\ Len(sawant) <= MaxLength
      /\ Owns(smem, Counts(svar), AccSet(sacc)) /\ smem \in HeapType
  BY AccFacts
<1>3. /\ Makes(smem, p, Counts(svar), AccSet(o.a), sawant)
      /\ GoodAccum(o.h, o.a) /\ AccumBytes(o.h, o.a) = <<>>
  BY <1>2, TakeMakes
<1>4. svar[x] \in RepType /\ Counted(Counts(svar), svar[x])
  BY VarFacts
<1> HIDE DEF o
<1>5. p.h = o.h /\ p.r = o.r
  OBVIOUS
<1>6. o.h \in HeapType
  BY <1>3, <1>5 DEF Makes, Owns
<1>7. AccSet(o.a) \in SUBSET BlockIds
  BY <1>3, <1>6, AccumFacts
<1> HIDE DEF p
<1>8. Makes(smem, [h |-> DerefMemo(p.h, svar[x]), r |-> p.r], c, AccSet(o.a), sawant)
  BY <1>2, <1>3, <1>4, <1>7, MakesThenDeref
<1>9. Makes(o.h, p, Counts(svar), AccSet(o.a), sawant)
  <2>1. \A b \in BlockIds : o.h[b].data \in Bytes8
    BY <1>6 DEF HeapType
  <2>2. Frame(o.h, p.h, Counts(svar), AccSet(o.a))
    BY <1>5, <2>1, ExtendsSelf DEF Frame
  <2> QED
    BY <1>3, <2>2 DEF Makes
<1>10. Makes(o.h, [h |-> DerefMemo(p.h, svar[x]), r |-> p.r], c, AccSet(o.a), sawant)
  BY <1>4, <1>6, <1>7, <1>9, MakesThenDeref
<1> DEFINE q == [h |-> DerefMemo(p.h, svar[x]), r |-> p.r]
<1>11. q.h = g /\ q.r = o.r
  BY <1>5
<1> HIDE DEF q, c, g
<1>12. /\ Owns(g, Plus(c, o.r), AccSet(o.a)) /\ Frame(smem, g, c, AccSet(o.a)) /\ Good(g, o.r)
       /\ Bytes(g, o.r) = sawant /\ Frame(o.h, g, c, AccSet(o.a))
  BY <1>8, <1>10, <1>11 DEF Makes, q
<1>13. g \in HeapType /\ Frame(smem, g, c, {})
  BY <1>12, FrameLess DEF Owns
<1>14. GoodAccum(g, o.a) /\ AccumBytes(g, o.a) = <<>>
  BY <1>3, <1>6, <1>12, <1>13, AccumKept
<1>15. StoreOk(smem, svar, swant, sterm, sacc, sawant)
  BY DEF StringInv
<1>16. Q \subseteq sterm \cup {x} /\ x \notin Q /\ Len(<<>>) <= MaxLength
  BY MemoAssumption
<1> HIDE DEF Q
<1> DEFINE e == <<>>
           r == o.r
           n == o.a
<1>17. AccumBytes(g, n) = e /\ Len(e) <= MaxLength
  BY <1>14, <1>16
<1> HIDE DEF e, r, n
<1>18. StoreOk(g, [svar EXCEPT ![x] = r], [swant EXCEPT ![x] = sawant], Q, n, e)
  <2>1. /\ Owns(g, Plus(Minus(Counts(svar), svar[x]), r), AccSet(n)) /\ Good(g, r)
        /\ Frame(smem, g, Minus(Counts(svar), svar[x]), {}) /\ Bytes(g, r) = sawant
        /\ GoodAccum(g, n)
    BY <1>12, <1>13, <1>14 DEF c, r, n
  <2> QED
    BY <1>2, <1>15, <1>16, <1>17, <2>1, VarStep
<1> QED
  BY <1>1, <1>18 DEF StringInv, e, r, n

(* The accumulator takes the text of x.                                    *)
LEMMA AccTransferInv ==
  ASSUME StringInv, NEW x \in SVars, AccTransfer(x)
  PROVE  StringInv'
<1> DEFINE o == [h |-> FreeAccum(TransferFrom(smem, svar[x]).h, sacc), a |-> TransferFrom(smem, svar[x]).a]
           g == o.h
           n == o.a
           c == Minus(Counts(svar), svar[x])
           Q == sterm \ {x}
           r == EmptyRep
           e == <<>>
           text == swant[x]
<1>1. /\ Usable(x) /\ FreeBlocks(smem) # {} /\ IsShared(smem, svar[x])
      /\ smem' = g /\ sacc' = n /\ sawant' = text /\ svar' = [svar EXCEPT ![x] = r]
      /\ swant' = [swant EXCEPT ![x] = e] /\ sterm' = Q
  BY DEF AccTransfer, CanAllocate, MayMutate, IsShared
<1>2. /\ Counted(Counts(svar), svar[x]) /\ Owns(smem, Counts(svar), AccSet(sacc))
      /\ Good(smem, svar[x]) /\ Bytes(smem, svar[x]) = swant[x] /\ Len(swant[x]) <= MaxLength
      /\ svar[x] \in RepType
  BY <1>1, VarFacts
<1>3. GoodAccum(smem, sacc)
  BY AccFacts
<1>4. AccMakes(smem, o, c, {}, text)
  BY <1>1, <1>2, <1>3, TransferMakes
<1> HIDE DEF o
<1>5. /\ Owns(g, c, {} \cup AccSet(n)) /\ Frame(smem, g, c, {}) /\ GoodAccum(g, n)
      /\ AccumBytes(g, n) = text
  BY <1>4 DEF AccMakes
<1>6. Owns(g, c, AccSet(n))
  <2>1. {} \cup AccSet(n) = AccSet(n)
    OBVIOUS
  <2> QED
    BY <1>5, <2>1
<1> HIDE DEF g, n
<1>7. c \in CountType /\ g \in HeapType /\ AccSet(n) \in SUBSET BlockIds
  BY <1>5, <1>6, AccumFacts DEF Owns
<1> HIDE DEF c
<1>8. Makes(g, [h |-> g, r |-> r], c, AccSet(n), e)
  BY <1>6, <1>7, EmptyMakes
<1>9. Owns(g, Plus(c, r), AccSet(n)) /\ Good(g, r) /\ Bytes(g, r) = e
  BY <1>8 DEF Makes
<1>10. StoreOk(smem, svar, swant, sterm, sacc, sawant)
  BY DEF StringInv
<1>11. Q \subseteq sterm \cup {x} /\ x \notin Q /\ Len(e) <= MaxLength /\ Len(text) <= MaxLength
  BY <1>2, MemoAssumption
<1> HIDE DEF Q, r, e, text
<1>12. StoreOk(g, [svar EXCEPT ![x] = r], [swant EXCEPT ![x] = e], Q, n, text)
  <2>1. Owns(g, Plus(Minus(Counts(svar), svar[x]), r), AccSet(n))
        /\ Frame(smem, g, Minus(Counts(svar), svar[x]), {})
    BY <1>5, <1>9 DEF c
  <2> QED
    BY <1>5, <1>9, <1>10, <1>11, <2>1, VarStep
<1> QED
  BY <1>1, <1>12 DEF StringInv

-----------------------------------------------------------------------------
(* The invariant holds of empty Strings.                                   *)
LEMMA InitInv == StringInit => StringInv
<1> SUFFICES ASSUME StringInit PROVE StringInv
  OBVIOUS
<1>1. /\ smem = [b \in BlockIds |-> NoBlock] /\ svar = [x \in SVars |-> EmptyRep]
      /\ swant = [x \in SVars |-> <<>>] /\ sterm = {} /\ sacc = NoAccum /\ sawant = <<>>
  BY DEF StringInit
<1>2. NoBlock \in [ref : Nat, cap : Nat, data : Bytes8] /\ NoBlock.cap = 0 /\ NoBlock.ref = 0
  BY DEF NoBlock, Bytes8
<1>3. smem \in HeapType /\ \A b \in BlockIds : smem[b] = NoBlock
  BY <1>1, <1>2 DEF HeapType
<1>4. <<>> \in Bytes8 /\ Len(<<>>) = 0 /\ Len(<<>>) <= MaxLength
  BY MemoAssumption DEF Bytes8
<1>5. /\ Good(smem, EmptyRep) /\ Bytes(smem, EmptyRep) = <<>> /\ EmptyRep \in RepType
      /\ EmptyRep.held = FALSE
  BY <1>3, <1>4, StableRep DEF EmptyRep
<1> HIDE DEF NoAccum
<1>6. svar \in [SVars -> RepType] /\ swant \in [SVars -> Bytes8] /\ sterm \in SUBSET SVars
  BY <1>1, <1>4, <1>5
<1>7. \A b \in BlockIds : Counts(svar)[b] = 0
  <2>1. \A b \in BlockIds : Holders(svar, b) = {}
    BY <1>1, <1>5 DEF Holders, Holds
  <2> QED
    BY <2>1, FS_EmptySet DEF Counts
<1>8. Counts(svar) \in CountType
  BY <1>7 DEF Counts, CountType
<1>9. GoodAccum(smem, sacc) /\ AccSet(sacc) = {} /\ AccumBytes(smem, sacc) = sawant
  BY <1>1, NoAccumFacts
<1>10. Owns(smem, Counts(svar), AccSet(sacc))
  BY <1>2, <1>3, <1>7, <1>8, <1>9 DEF Owns
<1>11. \A x \in SVars : VarOk(smem, svar[x], swant[x])
  BY <1>1, <1>4, <1>5 DEF VarOk, Value
<1> QED
  BY <1>1, <1>4, <1>6, <1>9, <1>10, <1>11 DEF StringInv, StoreOk

(* Every step keeps the invariant.                                         *)
LEMMA NextInv == StringInv /\ [StringNext]_stringVars => StringInv'
<1> SUFFICES ASSUME StringInv, [StringNext]_stringVars PROVE StringInv'
  OBVIOUS
<1>1. CASE UNCHANGED stringVars
  BY <1>1 DEF stringVars, StringInv
<1>2. ASSUME NEW x \in SVars, NEW t \in Texts, AssignText(x, t) \/ AssignLiteral(x, t) \/ AppendText(x, t)
      PROVE  StringInv'
  BY <1>2, AssignTextInv, AssignLiteralInv, AppendTextInv
<1>3. ASSUME NEW x \in SVars, NEW y \in SVars, Copy0(x, y) \/ Move(x, y) \/ AppendString(x, y)
      PROVE  StringInv'
  BY <1>3, CopyInv, MoveInv, AppendStringInv
<1>4. ASSUME NEW x \in SVars, NEW y \in SVars, NEW cut \in Cuts, Substr(x, y, cut[1], cut[2])
      PROVE  StringInv'
  <2>1. cut[1] \in Int /\ cut[2] \in Int
    BY ProgramAssumption
  <2> QED
    BY <1>4, <2>1, TemporaryInv
<1>5. ASSUME NEW x \in SVars, NEW i \in 1..svar[x].len, AssignOwn(x, i)
      PROVE  StringInv'
  <2>1. i \in Nat
    <3>1. svar[x].len \in Nat
      BY VarFacts DEF RepType
    <3> QED
      BY <3>1
  <2> QED
    BY <1>5, <2>1, AssignOwnInv
<1>6. ASSUME NEW x \in SVars, NEW i \in 0..svar[x].len, NEW n \in 1..(svar[x].len - i), AppendOwn(x, i, n)
      PROVE  StringInv'
  <2>1. i \in Nat /\ n \in Nat
    <3>1. svar[x].len \in Nat
      BY VarFacts DEF RepType
    <3> QED
      BY <3>1
  <2> QED
    BY <1>6, <2>1, AppendOwnInv
<1>7. ASSUME NEW x \in SVars, CStr(x) \/ Unique(x, x) \/ LowerTo(x, x) \/ ShrinkToFit(x)
                              \/ AccAppendString(x) \/ AccTake(x) \/ AccTransfer(x)
      PROVE  StringInv'
  <2>1. CASE Unique(x, x) \/ LowerTo(x, x) \/ ShrinkToFit(x)
    BY <2>1, TemporaryInv
  <2> QED
    BY <1>7, <2>1, CStrInv, AccAppendStringInv, AccTakeInv, AccTransferInv
<1>8. ASSUME NEW x \in SVars, NEW c \in {97}, SetFirst(x, c)
      PROVE  StringInv'
  <2>1. c \in Int
    OBVIOUS
  <2> QED
    BY <1>8, <2>1, SetFirstInv
<1>9. ASSUME NEW i \in 0..sacc.len, NEW n \in 1..(sacc.len - i), AccAppendOwn(i, n)
      PROVE  StringInv'
  <2>1. i \in Nat /\ n \in Nat
    <3>1. sacc.len \in Nat
      BY AccFacts
    <3> QED
      BY <3>1
  <2> QED
    BY <1>9, <2>1, AccAppendOwnInv
<1>10. ASSUME NEW c \in {97}, AccAppendChar(c)
       PROVE  StringInv'
  <2>1. c \in Int
    OBVIOUS
  <2> QED
    BY <1>10, <2>1, AccAppendCharInv
<1>11. CASE AccPopBack \/ AccClear
  BY <1>11, AccShortenInv
<1> QED
  BY <1>1, <1>2, <1>3, <1>4, <1>5, <1>6, <1>7, <1>8, <1>9, <1>10, <1>11 DEF StringNext

(* Counts and references agree, so blocks do.                              *)
LEMMA InvBlocks == StringInv => BlocksExact
<1> SUFFICES ASSUME StringInv, NEW b \in BlockIds
             PROVE  LET holders == Cardinality({x \in SVars : svar[x].held /\ svar[x].base = b})
                        accum == sacc.cap > 0 /\ sacc.block = b
                    IN /\ (smem[b].cap > 0) = (holders > 0 \/ accum)
                       /\ accum => holders = 0
                       /\ ~accum => smem[b].ref = holders
  BY DEF BlocksExact
<1> DEFINE k == Cardinality({x \in SVars : svar[x].held /\ svar[x].base = b})
<1>1. Owns(smem, Counts(svar), AccSet(sacc)) /\ sacc \in AccumType
  BY DEF StringInv, StoreOk, GoodAccum
<1>2. Counts(svar)[b] = k
  BY DEF Counts, Holders, Holds
<1>3. b \in AccSet(sacc) <=> sacc.cap > 0 /\ sacc.block = b
  BY DEF AccSet
<1> HIDE DEF k
<1>4. /\ smem[b].cap > 0 <=> k > 0 \/ b \in AccSet(sacc)
      /\ b \in AccSet(sacc) => k = 0
      /\ b \notin AccSet(sacc) => smem[b].ref = k
  BY <1>1, <1>2 DEF Owns
<1>5. /\ (smem[b].cap > 0) = (k > 0 \/ (sacc.cap > 0 /\ sacc.block = b))
      /\ sacc.cap > 0 /\ sacc.block = b => k = 0
      /\ ~(sacc.cap > 0 /\ sacc.block = b) => smem[b].ref = k
  BY <1>3, <1>4
<1> QED
  BY <1>5 DEF k

(* Strings read what they should, and c_str() pointers end in NUL.         *)
LEMMA InvValue == StringInv => StringIsValue
<1> SUFFICES ASSUME StringInv PROVE StringIsValue
  OBVIOUS
<1>1. \A x \in SVars : Usable(x) => Bytes(smem, svar[x]) = swant[x]
  BY VarFacts
<1>2. AccumBytes(smem, sacc) = sawant
  BY AccFacts
<1>3. ASSUME NEW x \in sterm
      PROVE  CStrOf(smem, svar[x]) = [h |-> smem, r |-> svar[x]]
  <2>1. Ended(smem, svar[x])
    BY DEF StringInv, StoreOk
  <2> QED
    BY <2>1 DEF Ended, CStrOf
<1> QED
  BY <1>1, <1>2, <1>3 DEF StringIsValue

(* Whatever a program does with its Strings and its accumulator, no block  *)
(* is lost or freed early: one is live exactly when somebody holds it, and *)
(* the count of a memo is the number of its holders.                       *)
THEOREM StringBlocksCounted == StringSpec => []BlocksExact
<1>1. StringSpec => []StringInv
  BY InitInv, NextInv, PTL DEF StringSpec
<1> QED
  BY <1>1, InvBlocks, PTL

(* Strings have value semantics: appends into the unused space of a shared *)
(* memo, substrings, self appends, c_str() terminators and blocks that go  *)
(* between Strings and accumulators never change what another one reads.   *)
THEOREM StringsAreValues == StringSpec => []StringIsValue
<1>1. StringSpec => []StringInv
  BY InitInv, NextInv, PTL DEF StringSpec
<1> QED
  BY <1>1, InvValue, PTL
=============================================================================
