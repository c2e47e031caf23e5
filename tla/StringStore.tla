---------------------------- MODULE StringStore -----------------------------
(***************************************************************************)
(* String and StringAccum (src/string.{cc,hh}, src/straccum.{cc,hh}).      *)
(*                                                                         *)
(* A String is a pointer, a length and perhaps a counted memo.  Copies and *)
(* substrings share the memo; an append may write into its unused space,   *)
(* for every other owner beyond the end of its own characters.  A          *)
(* StringAccum owns one block, which take_string() makes the memo of a     *)
(* String and make_transfer() takes back.  The operators take the memory h *)
(* and a representation r to a record of both.  new[] throws when memory   *)
(* is short, so the out-of-memory strings are left out.                    *)
(***************************************************************************)
EXTENDS Integers, Sequences, FiniteSets

CONSTANTS
  SVars,         \* the String variables of a program
  Cuts,          \* pairs <<pos, len>> for substr
  Texts,         \* texts from outside: C strings, std::strings, literals
  MemoSpace,     \* 12: header bytes of a memo
  MemoUnit,      \* 16: small memos are a multiple of it
  SmallMemo,     \* 1024: a longer memo is a power of two, 2 * SmallMemo or more
  ShrinkSlack,   \* 256: what shrink_to_fit leaves shared
  AccumMin,      \* 128: least capacity of an accumulator
  AccumBig,      \* 1 << 20: above it an accumulator grows by half of that
  BlockIds,      \* bound: memory blocks
  MaxLength      \* bound: characters of a String and of a block's data

ASSUME MemoAssumption ==
  /\ MemoSpace \in Nat /\ MemoUnit \in Nat \ {0} /\ SmallMemo \in Nat \ {0}
  /\ ShrinkSlack \in Nat /\ AccumMin \in Nat \ {0} /\ AccumBig \in Nat /\ MaxLength \in Nat
ASSUME ProgramAssumption ==
  /\ IsFiniteSet(SVars) /\ 0 \notin BlockIds /\ Texts \subseteq Seq(0..255)
  /\ Cuts \subseteq Int \X Int

VARIABLES
  smem,          \* the blocks: count, capacity, bytes written so far
  svar,          \* the representation of each String
  swant,         \* what each String should contain
  sterm,         \* Strings whose c_str() pointer the program still holds
  sacc,          \* the accumulator: block, length, capacity
  sawant         \* what the accumulator should contain

stringVars == <<smem, svar, swant, sterm, sacc, sawant>>

Nul == 0
Junk == -1                 \* a byte never written, or of freed memory
Static == 0                \* no block
Gone == <<Junk>>           \* the content of a String that was moved from
NoBlock == [ref |-> 0, cap |-> 0, data |-> <<>>]
FreeBlocks(h) == {b \in BlockIds : h[b].cap = 0}
NewBlock(h) == CHOOSE b \in FreeBlocks(h) : TRUE   \* new[]: which one makes no difference

(* rep_type: base is the block that data points into, Static for text that lasts. *)
Rep(base, text, at, len, held) == [base |-> base, text |-> text, at |-> at, len |-> len, held |-> held]
Stable(text) == Rep(Static, text, 0, Len(text), FALSE)
EmptyRep == Stable(<<>>)
NoAccum == [block |-> Static, len |-> 0, cap |-> 0]

Part(s, at, len) == [i \in 1..len |-> IF at + i <= Len(s) THEN s[at + i] ELSE Junk]
Bytes(h, r) == IF r.base = Static THEN Part(r.text, r.at, r.len) ELSE Part(h[r.base].data, r.at, r.len)
Write(s, at, bytes) ==
  [i \in 1..(IF at + Len(bytes) > Len(s) THEN at + Len(bytes) ELSE Len(s)) |->
     IF i > at /\ i <= at + Len(bytes) THEN bytes[i - at] ELSE IF i <= Len(s) THEN s[i] ELSE Junk]

(* memo_type::incref, decref, delete_memo. *)
RefMemo(h, r) == IF r.held THEN [h EXCEPT ![r.base].ref = @ + 1] ELSE h
DerefMemo(h, r) ==
  IF ~r.held THEN h
  ELSE IF h[r.base].ref = 1 THEN [h EXCEPT ![r.base] = NoBlock]
  ELSE [h EXCEPT ![r.base].ref = @ - 1]
RefUnique(h, r) == h[r.base].ref = 1

RoundUp(n) == ((n + MemoUnit - 1) \div MemoUnit) * MemoUnit
Doubled(n) == CHOOSE c \in {SmallMemo * (2 ^ k) : k \in 1..n} :
                c >= n /\ \A d \in {SmallMemo * (2 ^ k) : k \in 1..n} : d >= n => c <= d
ASSUME DoubledAssumption ==   \* the loop that doubles gets as far as any String needs
  \A n \in 1..(MaxLength + MemoSpace + 1) : Doubled(n) \in Nat /\ Doubled(n) >= n

CreateMemo(h, bytes, cap) ==
  LET b == NewBlock(h)
  IN [h |-> [h EXCEPT ![b] = [ref |-> 1, cap |-> cap, data |-> bytes]], r |-> Rep(b, <<>>, 0, Len(bytes), TRUE)]

(* assign(s, len, false): a memo of its own, none for no characters.       *)
AssignNew(h, bytes) ==
  IF bytes = <<>> THEN [h |-> h, r |-> EmptyRep]
  ELSE CreateMemo(h, bytes, RoundUp(Len(bytes) + MemoSpace) - MemoSpace)

(* assign(s, len, true): s may point into the String's own memo.           *)
AssignRaw(h, r, s) ==
  IF r.held /\ s.base = r.base THEN [h |-> h, r |-> Rep(r.base, <<>>, s.at, s.len, TRUE)]
  ELSE LET h1 == DerefMemo(h, r) IN AssignNew(h1, Bytes(h1, s))

MutAppendInPlace(h, r, n) ==
  r.held /\ h[r.base].cap > Len(h[r.base].data) + n
(* append_uninitialized: into the unused space when it follows the data.   *)
AppendInPlace(h, r, n) ==
  r.held /\ h[r.base].cap > Len(h[r.base].data) + n /\ r.at + r.len = Len(h[r.base].data)
AppendSpace(h, r, n) ==
  LET want == r.len + n + MemoSpace
      cap == IF want <= SmallMemo THEN RoundUp(want) ELSE Doubled(want)
      c == CreateMemo(h, Bytes(h, r) \o [i \in 1..n |-> Junk], cap - MemoSpace)
  IN IF AppendInPlace(h, r, n)
     THEN [h |-> [h EXCEPT ![r.base].data = Write(@, r.at + r.len, [i \in 1..n |-> Junk])], r |-> [r EXCEPT !.len = @ + n]]
     ELSE [h |-> DerefMemo(c.h, r), r |-> c.r]
AppendCopy(h, r, s) ==
  LET a == AppendSpace(h, r, s.len)
  IN [a EXCEPT !.h[a.r.base].data = Write(@, a.r.at + a.r.len - s.len, Bytes(a.h, s))]

(* append(s, len, memo): whole when s is another String with its memo.     *)
Append0(h, r, s, whole) ==
  IF s.len = 0 THEN [h |-> h, r |-> r]
  ELSE IF r.len = 0 /\ whole /\ s.held THEN [h |-> RefMemo(DerefMemo(h, r), s), r |-> s]
  ELSE IF r.held /\ s.base = r.base
  THEN LET a == AppendCopy(RefMemo(h, r), r, s) IN [a EXCEPT !.h = DerefMemo(@, r)]
  ELSE AppendCopy(h, r, s)

(* c_str, hard_c_str: a NUL after the data, written or already there.      *)
CStrOf(h, r) ==
  LET ended == IF r.base = Static THEN r.at + r.len = Len(r.text)
               ELSE r.at + r.len < Len(h[r.base].data) /\ h[r.base].data[r.at + r.len + 1] = Nul
      a == AppendCopy(h, r, Stable(<<Nul>>))
  IN IF ended THEN [h |-> h, r |-> r] ELSE [h |-> a.h, r |-> [a.r EXCEPT !.len = @ - 1]]

(* is_shared answers for a memo with one owner; mutable_data copies then.  *)
IsShared(h, r) == ~r.held \/ RefUnique(h, r)
MutableData(h, r) ==
  IF ~IsShared(h, r) THEN [h |-> h, r |-> r]
  ELSE LET h1 == RefMemo(h, r)
           a == AssignNew(DerefMemo(h1, r), Bytes(h1, r))
       IN [a EXCEPT !.h = DerefMemo(@, r)]
UniqueOf(h, r) ==
  IF ~r.held \/ RefUnique(h, r) THEN [h |-> RefMemo(h, r), r |-> r] ELSE AssignNew(h, Bytes(h, r))
ShrinkOf(h, r) ==
  IF r.held /\ ~RefUnique(h, r) /\ r.len + ShrinkSlack < h[r.base].cap THEN AssignNew(h, Bytes(h, r))
  ELSE [h |-> RefMemo(h, r), r |-> r]

(* substr(pos, len): negative pos and len count from the end.              *)
SubstrOf(r, pos0, len) ==
  LET pos == IF pos0 < 0 THEN pos0 + r.len ELSE pos0
      pos2 == IF len < 0 THEN r.len + len ELSE IF pos >= 0 /\ len >= r.len THEN r.len ELSE pos + len
      from == IF pos < 0 THEN 0 ELSE pos
      to == IF pos2 > r.len THEN r.len ELSE pos2
  IN IF from >= to THEN EmptyRep ELSE [r EXCEPT !.at = @ + from, !.len = to - from]
(* What Perl's substr gives.                                               *)
SubstrText(t, pos, len) ==
  LET from == IF pos < 0 THEN Len(t) + pos ELSE pos
      to == IF len < 0 THEN Len(t) + len ELSE from + len
  IN SubSeq(t, (IF from < 0 THEN 0 ELSE from) + 1, IF to > Len(t) THEN Len(t) ELSE to)

Lower(c) == IF c \in 65..90 THEN c + 32 ELSE c
LowerOf(h, r) ==
  LET t == Bytes(h, r)
  IN IF \E i \in 1..Len(t) : Lower(t[i]) # t[i] THEN AssignNew(h, [i \in 1..Len(t) |-> Lower(t[i])])
     ELSE [h |-> RefMemo(h, r), r |-> r]

-----------------------------------------------------------------------------
(* StringAccum.  grow keeps what fits, and else at least doubles.          *)
GrownCapacity(cap, ncap) ==
  IF ncap < AccumMin THEN AccumMin
  ELSE IF cap < AccumBig /\ ncap < (cap + MemoSpace) * 2 - MemoSpace THEN (cap + MemoSpace) * 2 - MemoSpace
  ELSE IF cap >= AccumBig /\ ncap < cap + (AccumBig \div 2) THEN cap + (AccumBig \div 2)
  ELSE ncap
FreeAccum(h, a) == IF a.cap > 0 THEN [h EXCEPT ![a.block] = NoBlock] ELSE h
AccumBytes(h, a) == IF a.block = Static THEN <<>> ELSE Part(h[a.block].data, 0, a.len)
Grow(h, a, ncap) ==
  IF ncap < a.cap THEN [h |-> h, a |-> a]
  ELSE LET b == NewBlock(h)
           cap == GrownCapacity(a.cap, ncap)
       IN [h |-> FreeAccum([h EXCEPT ![b] = [ref |-> 0, cap |-> cap, data |-> AccumBytes(h, a)]], a),
           a |-> [block |-> b, len |-> a.len, cap |-> cap]]
Put0(h, a, bytes) ==
  [h |-> [h EXCEPT ![a.block].data = Write(@, a.len, bytes)], a |-> [a EXCEPT !.len = @ + Len(bytes)]]

(* append, hard_append: s may lie in the accumulator's own block, which is *)
(* then kept until both parts are copied.                                  *)
OwnSource(a, s) == a.cap > 0 /\ s.base = a.block
AccumAppend0(h, a, s) ==
  IF a.len + s.len <= a.cap THEN (IF s.len = 0 THEN [h |-> h, a |-> a] ELSE Put0(h, a, Bytes(h, s)))
  ELSE IF ~OwnSource(a, s)
  THEN LET g == Grow(h, a, a.len + s.len) IN Put0(g.h, g.a, Bytes(g.h, s))
  ELSE LET g == Grow(h, NoAccum, a.len + s.len)
           p == Put0(g.h, g.a, AccumBytes(h, a) \o Bytes(h, s))
       IN [p EXCEPT !.h = FreeAccum(@, a)]

(* take_string: the block becomes a memo whose dirty part is the content.  *)
TakeOf(h, a) ==
  IF a.len > 0 THEN [h |-> [h EXCEPT ![a.block].ref = 1, ![a.block].data = Part(@, 0, a.len)],
                     r |-> Rep(a.block, <<>>, 0, a.len, TRUE), a |-> NoAccum]
  ELSE [h |-> h, r |-> EmptyRep, a |-> a]

MutTransferFrom(h, r) ==
  IF IsShared(h, r) \/ r.at # 0 THEN AccumAppend0(h, NoAccum, r)
  ELSE [h |-> h, a |-> [block |-> r.base, len |-> r.len, cap |-> h[r.base].cap]]
(* transfer_from: takes the memo of a String that starts at its beginning  *)
(* and for which is_shared() is false, and copies otherwise.               *)
TransferFrom(h, r) ==
  IF IsShared(h, r) \/ r.at # 0 THEN
    LET p == AccumAppend0(h, NoAccum, r) IN [p EXCEPT !.h = DerefMemo(@, r)]
  ELSE [h |-> h, a |-> [block |-> r.base, len |-> r.len, cap |-> h[r.base].cap]]

-----------------------------------------------------------------------------
StringInit ==
  /\ smem = [b \in BlockIds |-> NoBlock]
  /\ svar = [x \in SVars |-> EmptyRep]
  /\ swant = [x \in SVars |-> <<>>]
  /\ sterm = {}
  /\ sacc = NoAccum
  /\ sawant = <<>>

LengthFits(n) == n <= MaxLength
CanAllocate == FreeBlocks(smem) # {}
Fits(h) == \A b \in BlockIds : Len(h[b].data) <= MaxLength + 1
Usable(x) == swant[x] # Gone
UnchangedAccum == UNCHANGED <<sacc, sawant>>

(* x becomes what the operation o made of it, with content text.           *)
Become(x, o, text) ==
  /\ LengthFits(Len(text)) /\ Fits(o.h)
  /\ smem' = o.h
  /\ svar' = [svar EXCEPT ![x] = o.r]
  /\ swant' = [swant EXCEPT ![x] = text]
  /\ sterm' = sterm \ {x}
  /\ UnchangedAccum
(* x = a temporary: the move assignment drops the old memo of x.           *)
MoveInto(x, o, text) == Become(x, [o EXCEPT !.h = DerefMemo(@, svar[x])], text)

AssignText(x, t) == CanAllocate /\ Become(x, AssignRaw(smem, svar[x], Stable(t)), t)
AssignLiteral(x, t) == Become(x, [h |-> DerefMemo(smem, svar[x]), r |-> Stable(t)], t)
Copy0(x, y) == Usable(y) /\ Become(x, [h |-> DerefMemo(RefMemo(smem, svar[y]), svar[x]), r |-> svar[y]], swant[y])
Move(x, y) ==
  /\ x # y /\ Usable(y)
  /\ smem' = DerefMemo(smem, svar[x])
  /\ svar' = [svar EXCEPT ![x] = svar[y], ![y] = [svar[y] EXCEPT !.held = FALSE]]
  /\ swant' = [swant EXCEPT ![x] = swant[y], ![y] = Gone]
  /\ sterm' = sterm \ {x, y}
  /\ UnchangedAccum
Substr(x, y, pos, len) ==
  /\ Usable(y)
  /\ LET r == SubstrOf(svar[y], pos, len)
     IN MoveInto(x, [h |-> RefMemo(smem, r), r |-> r], SubstrText(swant[y], pos, len))
(* s = s.data() + i: a part of its own characters.                         *)
OwnPart(x, i, n) == [svar[x] EXCEPT !.at = @ + i, !.len = n]
AssignOwn(x, i) ==
  /\ Usable(x) /\ CanAllocate /\ i <= svar[x].len
  /\ Become(x, AssignRaw(smem, svar[x], OwnPart(x, i, svar[x].len - i)), SubSeq(swant[x], i + 1, Len(swant[x])))
AppendString(x, y) ==
  /\ Usable(x) /\ Usable(y) /\ CanAllocate
  /\ Become(x, Append0(smem, svar[x], svar[y], TRUE), swant[x] \o swant[y])
AppendText(x, t) == Usable(x) /\ CanAllocate /\ Become(x, Append0(smem, svar[x], Stable(t), FALSE), swant[x] \o t)
AppendOwn(x, i, n) ==
  /\ Usable(x) /\ CanAllocate /\ i + n <= svar[x].len
  /\ Become(x, Append0(smem, svar[x], OwnPart(x, i, n), FALSE), swant[x] \o SubSeq(swant[x], i + 1, i + n))
CStr(x) ==
  /\ Usable(x) /\ CanAllocate
  /\ LET o == CStrOf(smem, svar[x])
     IN Fits(o.h) /\ smem' = o.h /\ svar' = [svar EXCEPT ![x] = o.r]
  /\ sterm' = sterm \cup {x}
  /\ UNCHANGED <<swant, sacc, sawant>>
(* is_shared() answers the opposite of what it should, so mutable_data()    *)
(* copies a String that shares nothing and not one that does: a program can *)
(* rely on it only for a String that shares nothing.                       *)
MayMutate(x) == svar[x].held => RefUnique(smem, svar[x])
SetFirst(x, c) ==
  /\ Usable(x) /\ svar[x].len > 0 /\ CanAllocate /\ MayMutate(x)
  /\ LET o == MutableData(smem, svar[x])
     IN Become(x, [o EXCEPT !.h[o.r.base].data[o.r.at + 1] = c], [swant[x] EXCEPT ![1] = c])
Unique(x, y) == Usable(y) /\ CanAllocate /\ MoveInto(x, UniqueOf(smem, svar[y]), swant[y])
ShrinkToFit(x) == Usable(x) /\ CanAllocate /\ MoveInto(x, ShrinkOf(smem, svar[x]), swant[x])
LowerTo(x, y) ==
  Usable(y) /\ CanAllocate /\ MoveInto(x, LowerOf(smem, svar[y]), [i \in 1..Len(swant[y]) |-> Lower(swant[y][i])])

AccBecome(o, text) ==
  /\ LengthFits(Len(text)) /\ Fits(o.h)
  /\ smem' = o.h /\ sacc' = o.a /\ sawant' = text
  /\ UNCHANGED <<svar, swant, sterm>>
AccAppendString(y) ==
  Usable(y) /\ CanAllocate /\ AccBecome(AccumAppend0(smem, sacc, svar[y]), sawant \o swant[y])
AccAppendOwn(i, n) ==
  /\ CanAllocate /\ n > 0 /\ i + n <= sacc.len
  /\ AccBecome(AccumAppend0(smem, sacc, Rep(sacc.block, <<>>, i, n, FALSE)), sawant \o SubSeq(sawant, i + 1, i + n))
(* append(char): grow(len) when full.                                      *)
AccAppendChar(c) ==
  /\ CanAllocate
  /\ LET g == IF sacc.len < sacc.cap THEN [h |-> smem, a |-> sacc] ELSE Grow(smem, sacc, sacc.len)
     IN AccBecome(Put0(g.h, g.a, <<c>>), Append(sawant, c))
AccPopBack == sacc.len > 0 /\ AccBecome([h |-> smem, a |-> [sacc EXCEPT !.len = @ - 1]], SubSeq(sawant, 1, Len(sawant) - 1))
AccClear == AccBecome([h |-> smem, a |-> [sacc EXCEPT !.len = 0]], <<>>)
AccTake(x) ==
  LET o == TakeOf(smem, sacc)
  IN /\ smem' = DerefMemo(o.h, svar[x])
     /\ svar' = [svar EXCEPT ![x] = o.r]
     /\ swant' = [swant EXCEPT ![x] = sawant]
     /\ sterm' = sterm \ {x}
     /\ sacc' = o.a /\ sawant' = <<>>
(* sa = StringAccum(std::move(x)): sa's old block goes with the temporary. *)
AccTransfer(x) ==
  /\ Usable(x) /\ CanAllocate /\ MayMutate(x)
  /\ LET o == TransferFrom(smem, svar[x])
     IN smem' = FreeAccum(o.h, sacc) /\ sacc' = o.a
  /\ sawant' = swant[x]
  /\ svar' = [svar EXCEPT ![x] = EmptyRep]
  /\ swant' = [swant EXCEPT ![x] = <<>>]
  /\ sterm' = sterm \ {x}

StringNext ==
  \/ \E x \in SVars, t \in Texts : AssignText(x, t) \/ AssignLiteral(x, t) \/ AppendText(x, t)
  \/ \E x, y \in SVars : Copy0(x, y) \/ Move(x, y) \/ AppendString(x, y)
  \/ \E x, y \in SVars, cut \in Cuts : Substr(x, y, cut[1], cut[2])
  \/ \E x \in SVars : \E i \in 1..svar[x].len : AssignOwn(x, i)
  \/ \E x \in SVars : \E i \in 0..svar[x].len : \E n \in 1..(svar[x].len - i) : AppendOwn(x, i, n)
  \/ \E x \in SVars : CStr(x) \/ Unique(x, x) \/ LowerTo(x, x) \/ ShrinkToFit(x) \/ AccAppendString(x) \/ AccTake(x) \/ AccTransfer(x)
  \/ \E x \in SVars, c \in {97} : SetFirst(x, c)
  \/ \E i \in 0..sacc.len : \E n \in 1..(sacc.len - i) : AccAppendOwn(i, n)
  \/ \E c \in {97} : AccAppendChar(c)
  \/ AccPopBack
  \/ AccClear

StringSpec == StringInit /\ [][StringNext]_stringVars

-----------------------------------------------------------------------------
(* String has value semantics: whatever was done to the Strings that share *)
(* its memo, with appends into unused space, writes through mutable_data() *)
(* and blocks handed between Strings and accumulators, each String and the *)
(* accumulator hold exactly the characters their own operations gave them, *)
(* and a c_str() pointer stays terminated "until the string is destroyed   *)
(* or appended to".                                                        *)
StringIsValue ==
  /\ \A x \in SVars : Usable(x) => Bytes(smem, svar[x]) = swant[x]
  /\ AccumBytes(smem, sacc) = sawant
  /\ \A x \in sterm : CStrOf(smem, svar[x]) = [h |-> smem, r |-> svar[x]]

(* Blocks are neither lost nor freed early: a block is live exactly when a *)
(* String holds it, the count of its memo being the number of holders, or  *)
(* when it is the accumulator's, which then shares it with no String.      *)
BlocksExact ==
  \A b \in BlockIds :
    LET holders == Cardinality({x \in SVars : svar[x].held /\ svar[x].base = b})
        accum == sacc.cap > 0 /\ sacc.block = b
    IN /\ (smem[b].cap > 0) = (holders > 0 \/ accum)
       /\ accum => holders = 0
       /\ ~accum => smem[b].ref = holders
=============================================================================
