----------------------------- MODULE StringText -----------------------------
(***************************************************************************)
(* The functions on a string's bytes (src/string.cc, src/string_base.hh):  *)
(* comparison, search, globs, trimming and the conversions.  Bytes are     *)
(* numbers.  Each function is compared with a definition of what it is     *)
(* for, on the words of a bounded set.                                     *)
(***************************************************************************)
EXTENDS Integers, Sequences, FiniteSets, FiniteSetsExt, SequencesExt

CONSTANTS
  NaturalWords,   \* words for natural_compare
  GlobPatterns,   \* patterns and words for glob_match
  GlobWords,
  Utf8Words,      \* byte strings for the character conversions
  Utf8Flags,      \* sets of "bom" and "replace"
  CodeWords       \* byte strings for base64, URI, hex and printable forms

VARIABLE text     \* what the step looks at

Dot == 46
Dash == 45
Star == 42
Question == 63
Backslash == 92
IsDigit(c) == c \in 48..57
IsAlpha(c) == c \in (65..90) \cup (97..122)
IsSpace(c) == c \in (9..13) \cup {32}
ToLower(c) == IF c \in 65..90 THEN c + 32 ELSE c

(* First position from i on at which s ends or has a byte outside C.       *)
SkipAll(s, i, C(_)) == Min({k \in i..(Len(s) + 1) : k = Len(s) + 1 \/ ~C(s[k])})
Digits(s, i) == SkipAll(s, i, IsDigit)
MutIsZero(c) == FALSE
IsZero(c) == c = 48
Has(s, i, c) == i <= Len(s) /\ s[i] = c
From0(s, i) == SubSeq(s, i, Len(s))
Sgn(n) == IF n < 0 THEN -1 ELSE IF n > 0 THEN 1 ELSE 0

-----------------------------------------------------------------------------
(* natural_compare.  i and j are where a and b are read next; per, the     *)
(* position after a decimal point that both have, 0 for none; perNeg, that *)
(* number's sign; raw, the first difference in case.                       *)
NaturalStart == [i |-> 1, j |-> 1, per |-> 0, perNeg |-> FALSE, raw |-> 0]

IpAddress(s, k) == k + 1 <= Len(s) /\ s[k] = Dot /\ ~IsSpace(s[k + 1])

(* A number's digits: where they start behind the leading zeros, how many. *)
DigitsFrom(s, z) == [start |-> z, len |-> Digits(s, z) - z]
Number(s, i) == DigitsFrom(s, SkipAll(s, i, IsZero))

(* The first difference of n digits, 0 for none.                           *)
FirstOf(a, b, x, y, differ) == IF differ = {} THEN 0 ELSE a[x + Min(differ)] - b[y + Min(differ)]
DigitDifference(a, b, x, y, n) == FirstOf(a, b, x, y, {k \in 0..(n - 1) : a[x + k] # b[y + k]})

(* A decimal point with a digit behind it.                                 *)
HasPoint(s, k) == Has(s, k, Dot) /\ k + 1 <= Len(s) /\ IsDigit(s[k + 1])

Negative(s, i) == i > 1 /\ s[i - 1] = Dash /\ (i = 2 \/ IsSpace(s[i - 2]))

(* Both are at a number: what it decides, 0 when the numbers are the same, *)
(* and where to go on.                                                     *)
Verdict(x, y, next, zeros, digit, decimal, neg, pa, pb) ==
  CASE decimal /\ zeros # 0 -> [cmp |-> IF neg THEN 1 ELSE -1, st |-> next]
    [] x.len # y.len /\ ~(decimal /\ (zeros # 0 \/ digit # 0)) ->
         [cmp |-> IF neg = (x.len > y.len) THEN -1 ELSE 1, st |-> next]
    [] ~(decimal /\ zeros # 0) /\ (x.len = y.len \/ decimal) /\ digit # 0 ->
         [cmp |-> IF neg = (digit > 0) THEN -1 ELSE 1, st |-> next]
    [] ~decimal /\ x.len = y.len /\ digit = 0 /\ zeros # 0 -> [cmp |-> zeros, st |-> next]
    [] x.len = y.len /\ digit = 0 /\ zeros = 0 /\ next.per = 0 /\ pa # pb ->
         [cmp |-> IF neg = pb THEN 1 ELSE -1, st |-> next]
    [] OTHER -> [cmp |-> 0, st |-> IF next.per = 0 /\ pa
                                   THEN [next EXCEPT !.per = next.i + 1, !.perNeg = neg] ELSE next]

NumbersStep(a, b, st, x, y, n, decimal) ==
  Verdict(x, y, [st EXCEPT !.i = x.start + n, !.j = y.start + n],
          (x.start - st.i) - (y.start - st.j), DigitDifference(a, b, x.start, y.start, n),
          decimal, IF decimal THEN st.perNeg ELSE Negative(a, st.i),
          HasPoint(a, x.start + n), HasPoint(b, y.start + n))
NumbersAt(a, b, st, x, y) ==
  NumbersStep(a, b, st, x, y, IF x.len < y.len THEN x.len ELSE y.len,
              st.i = st.per /\ ~IpAddress(a, x.start + x.len) /\ ~IpAddress(b, y.start + y.len))
NumberStep(a, b, st) == NumbersAt(a, b, st, Number(a, st.i), Number(b, st.j))

RECURSIVE NaturalFrom(_, _, _), AfterNumber(_, _, _)
AfterNumber(a, b, num) == IF num.cmp # 0 THEN num.cmp ELSE NaturalFrom(a, b, num.st)
NaturalFrom(a, b, st) ==
  LET x == a[st.i]
      y == b[st.j]
      rest == (Len(a) - st.i) - (Len(b) - st.j)
  IN IF st.i > Len(a) \/ st.j > Len(b) THEN (IF rest # 0 THEN rest ELSE st.raw)
     ELSE IF IsDigit(x) /\ IsDigit(y) THEN AfterNumber(a, b, NumberStep(a, b, st))
     ELSE IF IsDigit(x) THEN (IF IsAlpha(y) THEN -1 ELSE 1)
     ELSE IF IsDigit(y) THEN (IF IsAlpha(x) THEN 1 ELSE -1)
     ELSE IF ToLower(x) # ToLower(y) THEN ToLower(x) - ToLower(y)
     ELSE NaturalFrom(a, b, [st EXCEPT !.i = @ + 1, !.j = @ + 1, !.raw = IF @ = 0 THEN x - y ELSE @,
                                       !.per = IF x # Dot THEN 0 ELSE @])
NaturalCompare(a, b) == Sgn(NaturalFrom(a, b, NaturalStart))

(* compare: bytes as memcmp orders them, then the length.                  *)
Compare(a, b) ==
  LET d == {k \in 1..Len(a) : k <= Len(b) /\ a[k] # b[k]}
  IN IF d # {} THEN a[Min(d)] - b[Min(d)] ELSE Len(a) - Len(b)

-----------------------------------------------------------------------------
(* find_left, find_right: start is 0-based, -1 is none.                    *)
Occurs(s, i, x) == i + Len(x) <= Len(s) /\ SubSeq(s, i + 1, i + Len(x)) = x
FindLeft(s, start, x) ==
  LET from == IF start < 0 THEN 0 ELSE start
      at == {i \in from..Len(s) : Occurs(s, i, x)}
  IN IF at = {} THEN -1 ELSE Min(at)
FindRight(s, start, x) ==
  LET from == IF start >= Len(s) THEN Len(s) - Len(x) ELSE start
      at == {i \in 0..from : Occurs(s, i, x)}
  IN IF at = {} THEN -1 ELSE Max(at)

(* ltrim, rtrim, trim.                                                     *)
LTrim(s) == From0(s, SkipAll(s, 1, IsSpace))
RTrim(s) == SubSeq(s, 1, Len(s) - SkipAll(Reverse(s), 1, IsSpace) + 1)
Trim(s) == LTrim(RTrim(s))

-----------------------------------------------------------------------------
(* glob_match.  The end of a pattern without special bytes is matched with *)
(* the end of the string, the rest by the set of pattern positions.        *)
PlainEnd(p) ==
  /\ p # <<>> /\ Last(p) \notin {Star, Question, 93}
  /\ Len(p) = 1 \/ p[Len(p) - 1] # Backslash
RECURSIVE StripSuffix(_, _)
StripSuffix(s, p) ==
  IF ~(s # <<>> /\ PlainEnd(p)) THEN <<<<s, p>>>>
  ELSE IF Last(p) = Last(s) THEN StripSuffix(Front(s), Front(p)) ELSE <<>>

(* Where position k of the pattern can be after byte c; Len(p) + 2 when a  *)
(* last * has matched all that follows.                                    *)
Anything(p) == Len(p) + 2
ClassEnd(p, k) == SkipAll(p, k, LAMBDA c : c # 93)
GlobClass(p, k, c) ==
  LET negated == Has(p, k + 1, 94)
      first == IF negated THEN k + 2 ELSE k + 1
      last == ClassEnd(p, first + 1)
      found == \E i \in (first + 1)..last : Has(p, i, c)
  IN IF first > Len(p) \/ last > Len(p) THEN (IF c = p[k] THEN {k + 1} ELSE {})
     ELSE IF found # negated THEN {last + 1} ELSE {}
RECURSIVE GlobStep(_, _, _)
MutGlobStep(p, k, c) ==
  IF k > Len(p) THEN {}
  ELSE CASE p[k] = Question -> {k + 1}
         [] p[k] = Star -> IF k = Len(p) THEN {Anything(p)} ELSE {k + 1} \cup GlobStep(p, k + 1, c)
         [] p[k] = Backslash -> LET q == IF k < Len(p) THEN k + 1 ELSE k IN IF p[q] = c THEN {q + 1} ELSE {}
         [] p[k] = 91 -> GlobClass(p, k, c)
         [] OTHER -> IF p[k] = c THEN {k + 1} ELSE {}
GlobStep(p, k, c) ==
  IF k > Len(p) THEN {}
  ELSE CASE p[k] = Question -> {k + 1}
         [] p[k] = Star -> IF k = Len(p) THEN {Anything(p)} ELSE {k} \cup GlobStep(p, k + 1, c)
         [] p[k] = Backslash -> LET q == IF k < Len(p) THEN k + 1 ELSE k IN IF p[q] = c THEN {q + 1} ELSE {}
         [] p[k] = 91 -> GlobClass(p, k, c)
         [] OTHER -> IF p[k] = c THEN {k + 1} ELSE {}
GlobStates(s, p) ==
  FoldLeft(LAMBDA S, c : IF Anything(p) \in S THEN S ELSE UNION {GlobStep(p, k, c) : k \in S}, {1}, s)
GlobMatch(s0, p0) ==
  \E sp \in ToSet(StripSuffix(s0, p0)) :
    \E k \in GlobStates(sp[1], sp[2]) : k > Len(sp[2]) \/ SkipAll(sp[2], k, LAMBDA c : c = Star) = Len(sp[2]) + 1

(* What a glob means: * any word, ? any byte, \ the byte after it.         *)
RECURSIVE Matches(_, _)
Matches(s, p) ==
  IF p = <<>> THEN s = <<>>
  ELSE IF p[1] = Star THEN \E i \in 1..(Len(s) + 1) : Matches(From0(s, i), Tail(p))
  ELSE IF p[1] = Backslash /\ Len(p) > 1 THEN s # <<>> /\ s[1] = p[2] /\ Matches(Tail(s), From0(p, 3))
  ELSE s # <<>> /\ (p[1] = Question \/ p[1] = s[1]) /\ Matches(Tail(s), Tail(p))

-----------------------------------------------------------------------------
(* append_utf8: two bytes for all below 0x8000, nothing for no character.  *)
Append8(ch) ==
  LET tail(k) == 128 + ((ch \div (64 ^ k)) % 64)
  IN CASE ch <= 0 \/ ch >= 1114112 -> <<>>
       [] ch \in 1..127 -> <<ch>>
       [] ch \in 128..32767 -> <<(192 + (ch \div 64)) % 256, tail(0)>>
       [] ch \in 32768..65535 -> IF ch \in 55296..57343 \/ ch > 65533 THEN <<>> ELSE <<224 + (ch \div 4096), tail(1), tail(0)>>
       [] OTHER -> <<240 + (ch \div 262144), tail(2), tail(1), tail(0)>>

(* skip_utf8_char: the length of the character at s[i], 0 for none.        *)
InByte(s, i, lo, hi) == i <= Len(s) /\ s[i] >= lo /\ s[i] < hi
MutSkipUtf8Char(s, i) ==
  LET c == s[i]
      cont(k) == \A j \in 1..k : InByte(s, i + j, 128, 192)
  IN IF c > 0 /\ c < 128 THEN 1
     ELSE IF c < 194 THEN 0
     ELSE IF c < 224 THEN (IF cont(1) THEN 2 ELSE 0)
     ELSE IF c < 240 THEN (IF cont(2) THEN 3 ELSE 0)
     ELSE IF c < 245 THEN (IF cont(3) THEN 4 ELSE 0)
     ELSE 0
SkipUtf8Char(s, i) ==
  LET c == s[i]
      cont(k) == \A j \in 1..k : InByte(s, i + j, 128, 192)
  IN IF c > 0 /\ c < 128 THEN 1
     ELSE IF c < 194 THEN 0
     ELSE IF c < 224 THEN (IF cont(1) THEN 2 ELSE 0)
     ELSE IF c < 240 THEN (IF cont(2) /\ (c = 224 => s[i + 1] >= 160) /\ (c = 237 => s[i + 1] < 160) THEN 3 ELSE 0)
     ELSE IF c < 245 THEN (IF cont(3) /\ (c = 240 => s[i + 1] >= 144) /\ (c = 244 => s[i + 1] < 144) THEN 4 ELSE 0)
     ELSE 0
(* parse_cesu8_char: a surrogate pair of three bytes each, 0 for none.     *)
Cesu8Char(s, i) ==
  IF /\ Has(s, i, 237) /\ InByte(s, i + 1, 160, 176) /\ InByte(s, i + 2, 128, 192)
     /\ Has(s, i + 3, 237) /\ InByte(s, i + 4, 176, 192) /\ InByte(s, i + 5, 128, 192)
  THEN 65536 + ((s[i + 1] % 16) * 65536) + ((s[i + 2] % 64) * 1024) + ((s[i + 4] % 16) * 64) + (s[i + 5] % 64)
  ELSE 0
SkipBom(s, flags) == IF "bom" \in flags /\ Has(s, 1, 239) /\ Has(s, 2, 187) /\ Has(s, 3, 191) THEN 4 ELSE 1
Replacement == Append8(65533)

(* utf8_to_utf8, cesu8_to_utf8 from position i.  With pairs, the byte that *)
(* a replacement would stand for has been overwritten by 0: none is made.  *)
IsCont(c) == c \in 128..191
RECURSIVE CleanFrom(_, _, _, _)
CleanFrom(s, i, flags, pairs) ==
  LET n == SkipUtf8Char(s, i)
      ch == IF pairs THEN Cesu8Char(s, i) ELSE 0
      mark == IF "replace" \in flags /\ ~pairs /\ s[i] # 0 THEN Replacement ELSE <<>>
  IN IF i > Len(s) THEN <<>>
     ELSE IF n > 0 THEN SubSeq(s, i, i + n - 1) \o CleanFrom(s, i + n, flags, pairs)
     ELSE IF ch # 0 THEN Append8(ch) \o CleanFrom(s, i + 6, flags, pairs)
     ELSE mark \o CleanFrom(s, SkipAll(s, i + 1, IsCont), flags, pairs)
Utf8ToUtf8(s, flags) == CleanFrom(s, SkipBom(s, flags), flags, FALSE)
Cesu8ToUtf8(s, flags) == CleanFrom(s, SkipBom(s, flags), flags, TRUE)

(* utf16be_to_utf8, utf16le_to_utf8: a last odd byte is ignored.           *)
RECURSIVE Utf16From(_, _, _, _)
Utf16From(s, i, flags, big) ==
  LET unit(k) == IF big THEN (s[k] * 256) + s[k + 1] ELSE (s[k + 1] * 256) + s[k]
      c == unit(i)
      mark == IF "replace" \in flags THEN Replacement ELSE <<>>
  IN IF i + 1 > Len(s) THEN <<>>
     ELSE IF c < 55296 \/ c >= 57344 THEN Append8(c) \o Utf16From(s, i + 2, flags, big)
     ELSE IF c < 56320 /\ i + 3 <= Len(s) /\ unit(i + 2) \in 56320..57343
     THEN Append8(65536 + ((c - 55296) * 1024) + (unit(i + 2) - 56320)) \o Utf16From(s, i + 4, flags, big)
     ELSE mark \o Utf16From(s, i + 2, flags, big)
Utf16ToUtf8(s, flags, big) ==
  LET bom == IF big THEN <<254, 255>> ELSE <<255, 254>>
  IN Utf16From(s, IF "bom" \in flags /\ Len(s) >= 2 /\ SubSeq(s, 1, 2) = bom THEN 3 ELSE 1, flags, big)

(* utf16_to_utf8: little-endian only for its mark, or when preferred.      *)
Utf16Any(s, flags) ==
  IF Len(s) < 2 THEN <<>>
  ELSE Utf16ToUtf8(s, flags, SubSeq(s, 1, 2) = <<254, 255>> \/ (SubSeq(s, 1, 2) # <<255, 254>> /\ "le" \notin flags))

(* windows1252_to_utf8; Cp1252 is windows1252_c1_mapping.                  *)
Cp1252 ==
  <<8364, 129, 8218, 402, 8222, 8230, 8224, 8225, 8390, 8240, 352, 8249, 338, 141, 381, 143,
    144, 8216, 8217, 8220, 8221, 8226, 8211, 8212, 8412, 8482, 353, 8250, 339, 157, 382, 376>>
Windows(c) == IF c < 128 THEN (IF c = 0 THEN <<>> ELSE <<c>>) ELSE Append8(IF c < 160 THEN Cp1252[c - 127] ELSE c)
Windows1252ToUtf8(s) == FlattenSeq([i \in 1..Len(s) |-> Windows(s[i])])

(* to_utf8 guesses: UTF-16 by its first two bytes; UTF-8, until the first  *)
(* byte that is none; Windows-1252 from there on when no long character    *)
(* came before it, and else for that byte alone.                           *)
RECURSIVE GuessFrom(_, _, _)
GuessFrom(s, i, long) ==
  LET n == SkipUtf8Char(s, i)
      ch == Cesu8Char(s, i)
  IN IF i > Len(s) THEN <<>>
     ELSE IF s[i] \in 1..127 THEN <<s[i]>> \o GuessFrom(s, i + 1, long)
     ELSE IF n > 0 THEN SubSeq(s, i, i + n - 1) \o GuessFrom(s, i + n, TRUE)
     ELSE IF ch # 0 THEN Append8(ch) \o GuessFrom(s, i + 6, TRUE)
     ELSE IF s[i] = 0 THEN GuessFrom(s, i + 1, long)
     ELSE IF ~long THEN Windows1252ToUtf8(From0(s, i))
     ELSE Windows(s[i]) \o GuessFrom(s, i + 1, long)
ToUtf8(s, flags) ==
  LET ascii(c) == c > 0 /\ c < 128
      le == Len(s) > 2 /\ (SubSeq(s, 1, 2) = <<255, 254>> \/ (ascii(s[1]) /\ s[2] = 0))
      be == Len(s) > 2 /\ (SubSeq(s, 1, 2) = <<254, 255>> \/ (s[1] = 0 /\ ascii(s[2])))
  IN IF le THEN Utf16ToUtf8(s, flags, FALSE)
     ELSE IF be THEN Utf16ToUtf8(s, flags, TRUE)
     ELSE GuessFrom(s, IF Len(s) > 3 THEN SkipBom(s, flags) ELSE 1, FALSE)

-----------------------------------------------------------------------------
(* encode_base64, decode_base64.  Sextets are kept as numbers 0..63, what  *)
(* the two tables map to and from; 64 stands for a byte outside the table, *)
(* 65 for the padding.                                                     *)
Pad == 65
Encode64(s, pad) ==
  LET group(i) ==
        LET n == IF Len(s) - i + 1 >= 3 THEN 3 ELSE Len(s) - i + 1
            b(k) == IF k < n THEN s[i + k] ELSE 0
            x == (b(0) * 65536) + (b(1) * 256) + b(2)
        IN [k \in 1..(n + 1) |-> (x \div (64 ^ (4 - k))) % 64]
           \o (IF pad /\ n < 3 THEN [k \in 1..(3 - n) |-> Pad] ELSE <<>>)
  IN FlattenSeq([g \in 1..((Len(s) + 2) \div 3) |-> group((3 * g) - 2)])
Decode64(e0) ==
  LET e == SubSeq(e0, 1, Len(e0) - SkipAll(Reverse(e0), 1, LAMBDA c : c = Pad) + 1)
      group(i) ==
        LET n == IF Len(e) - i + 1 >= 4 THEN 4 ELSE Len(e) - i + 1
            c(k) == IF k < n THEN e[i + k] ELSE 0
            x == (c(0) * 262144) + (c(1) * 4096) + (c(2) * 64) + c(3)
        IN [k \in 1..(n - 1) |-> (x \div (256 ^ (3 - k))) % 256]
  IN IF (\E k \in 1..Len(e) : e[k] >= 64) \/ Len(e) % 4 = 1 THEN <<>>
     ELSE <<FlattenSeq([g \in 1..((Len(e) + 3) \div 4) |-> group((4 * g) - 3)])>>

(* encode_uri_component, to_hex and printable write nibbles and octal.     *)
HexDigit(n) == IF n > 9 THEN 55 + n ELSE 48 + n
HexOf(c) == <<HexDigit(c \div 16), HexDigit(c % 16)>>
EncodeUri(s) ==
  FlattenSeq([i \in 1..Len(s) |->
    IF IsAlpha(s[i]) \/ IsDigit(s[i]) \/ s[i] \in {45, 46, 95, 126} THEN <<s[i]>> ELSE <<37>> \o HexOf(s[i])])
ToHex(s) == FlattenSeq([i \in 1..Len(s) |-> HexOf(s[i])])
Octal(c) == <<92, 48 + (c \div 64), 48 + ((c \div 8) % 8), 48 + (c % 8)>>
PrintByte(c, type) ==
  CASE c \in 32..126 -> IF type = 2 /\ c \in {92, 34} THEN <<92, c>> ELSE <<c>>
    [] c < 32 /\ type = 2 -> IF c \in 9..13 THEN <<92, <<116, 110, 118, 102, 114>>[c - 8]>> ELSE Octal(c)
    [] c < 32 /\ type = 0 -> <<94, c + 64>>
    [] OTHER -> Octal(c)
Printable(s, type) ==
  LET first == SkipAll(s, 1, LAMBDA c : c \in 32..126)
  IN SubSeq(s, 1, first - 1) \o FlattenSeq([i \in 1..(Len(s) - first + 1) |-> PrintByte(s[first + i - 1], type)])

(* to_i: the digits after a sign; nothing else counts.                     *)
ToI(s) ==
  LET signed == Len(s) > 0 /\ s[1] \in {45, 43}
      d == SubSeq(s, IF signed THEN 2 ELSE 1, Digits(s, IF signed THEN 2 ELSE 1) - 1)
      n == FoldLeft(LAMBDA v, c : (v * 10) + (c - 48), 0, d)
  IN IF signed /\ s[1] = 45 THEN -n ELSE n

-----------------------------------------------------------------------------
(* The words are looked at one at a time.                                  *)
TextInit == text \in {<<"none", <<>>>>}
TextNext ==
  /\ text[1] = "none"
  /\ \/ \E w \in NaturalWords : text' = <<"natural", w>>
     \/ \E p \in GlobPatterns : text' = <<"glob", p>>
     \/ \E w \in Utf8Words : text' = <<"utf8", w>>
     \/ \E w \in CodeWords : text' = <<"code", w>>

Natural == [p \in NaturalWords \X NaturalWords |-> NaturalCompare(p[1], p[2])]

AreNumbers(W) ==
  \A w \in W : w # <<>> /\ Digits(w, IF w[1] = Dash THEN 2 ELSE 1) = Len(w) + 1 /\ Last(w) # Dash
Orders(cmp, a, b) ==
  /\ (cmp[a, b] = 0) = (a = b)
  /\ cmp[b, a] = -cmp[a, b]
  /\ cmp[a, b] < 0 => \A c \in NaturalWords : cmp[b, c] < 0 => cmp[a, c] < 0
  /\ AreNumbers({a, b}) /\ ToI(a) # ToI(b) => cmp[a, b] = Sgn(ToI(a) - ToI(b))
  /\ (\A c \in ToSet(a \o b) : c \in 97..122) => cmp[a, b] = Sgn(Compare(a, b))

(* natural_compare orders strings: it is 0 only for strings that are byte  *)
(* for byte the same, changes sign with its arguments and is transitive,   *)
(* so that natural_comparator can sort; two numbers compare as numbers and *)
(* two words of small letters as compare() has them.                       *)
NaturalOrder == text[1] = "natural" => \A b \in NaturalWords : Orders(Natural, text[2], b)

(* glob_match, with its check of the suffix and its set of positions, says *)
(* exactly whether the string has the form of the pattern; the searches    *)
(* agree with the globs that say the same.                                 *)
GlobExact ==
  text[1] = "glob" =>
    LET p == text[2]
    IN \A s \in GlobWords :
         /\ GlobMatch(s, p) = Matches(s, p)
         /\ (\A i \in 1..Len(p) : p[i] \notin {Star, Question, Backslash}) =>
              /\ (FindLeft(s, 0, p) >= 0) = Matches(s, <<Star>> \o p \o <<Star>>)
              /\ (FindRight(s, Len(s), p) >= 0) = (FindLeft(s, 0, p) >= 0)

(* A character: the encoding of one code point in RFC 3629.                *)
CodePoint(s) ==
  CASE Len(s) = 1 -> s[1]
    [] Len(s) = 2 -> ((s[1] - 192) * 64) + (s[2] - 128)
    [] Len(s) = 3 -> ((s[1] - 224) * 4096) + ((s[2] - 128) * 64) + (s[3] - 128)
    [] OTHER -> ((s[1] - 240) * 262144) + ((s[2] - 128) * 4096) + ((s[3] - 128) * 64) + (s[4] - 128)
Least == <<1, 128, 2048, 65536>>
Most == <<127, 2047, 65535, 1114111>>
IsChar(s) ==
  /\ \A k \in 2..Len(s) : IsCont(s[k])
  /\ LET ch == CodePoint(s) IN ch >= Least[Len(s)] /\ ch <= Most[Len(s)] /\ ch \notin 55296..57343
RECURSIVE IsUtf8(_)
IsUtf8(s) == s = <<>> \/ \E n \in 1..4 : n <= Len(s) /\ IsChar(SubSeq(s, 1, n)) /\ IsUtf8(From0(s, n + 1))

(* What the encodings are for: the bytes that a reader gets back.          *)
HexValue(c) == IF c >= 65 THEN c - 55 ELSE c - 48
RECURSIVE DecodeUri(_)
DecodeUri(e) ==
  IF e = <<>> THEN <<>>
  ELSE IF e[1] = 37 THEN <<(16 * HexValue(e[2])) + HexValue(e[3])>> \o DecodeUri(From0(e, 4))
  ELSE <<e[1]>> \o DecodeUri(Tail(e))

Swapped(s) == [i \in 1..(2 * (Len(s) \div 2)) |-> IF i % 2 = 1 THEN s[i + 1] ELSE s[i - 1]]

(* Whatever bytes they are given, utf8_to_utf8 and cesu8_to_utf8 return    *)
(* UTF-8 without NUL, and what already is that is returned as it is, also  *)
(* by to_utf8, which must not take it for another encoding.  UTF-16 gives  *)
(* the same text in both byte orders.  Base64 with and without padding,    *)
(* URI components and hex give every byte back, printable() leaves only    *)
(* printable bytes, and trim() removes the spaces at both ends and no more. *)
ConversionsExact ==
  LET s == text[2]
  IN /\ text[1] = "utf8" =>
          \A flags \in Utf8Flags :
            /\ IsUtf8(Utf8ToUtf8(s, flags))
            /\ IsUtf8(Cesu8ToUtf8(s, flags))
            /\ Utf16Any(<<254, 255>> \o s, flags) = Utf16Any(<<255, 254>> \o Swapped(s), flags)
            /\ Utf16Any(<<0>> \o s, flags \cup {"le"}) = Utf16Any(Swapped(<<0>> \o s), flags)
            /\ IsUtf8(s) /\ SkipBom(s, flags) = 1 =>
                 s = Utf8ToUtf8(s, flags) /\ s = Cesu8ToUtf8(s, flags) /\ s = ToUtf8(s, flags)
     /\ text[1] = "code" =>
          /\ \A pad \in BOOLEAN : Decode64(Encode64(s, pad)) = <<s>>
          /\ DecodeUri(EncodeUri(s)) = s
          /\ DecodeUri(FlattenSeq([i \in 1..Len(s) |-> <<37>> \o SubSeq(ToHex(s), (2 * i) - 1, 2 * i)])) = s
          /\ \A type \in 0..2 : \A c \in ToSet(Printable(s, type)) : c \in 32..126
          /\ \E i, j \in 0..Len(s) :
               /\ i <= j /\ Trim(s) = SubSeq(s, i + 1, j) /\ \A k \in 1..Len(s) : k <= i \/ k > j => IsSpace(s[k])
               /\ i < j => ~IsSpace(s[i + 1]) /\ ~IsSpace(s[j])
=============================================================================
