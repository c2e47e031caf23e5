----------------------------- MODULE JsonParser -----------------------------
(***************************************************************************)
(* Json text: unparsing and the streaming parser (src/json.cc,             *)
(* src/json.hh).  consume may be given a text in pieces of any size; what  *)
(* is left of a string, a number or a word at the end of a piece is kept   *)
(* in state_ and str_ for the next one.                                    *)
(*                                                                         *)
(* Text is a sequence of bytes.  A Json is <<"null">>, <<"bool", b>>,      *)
(* <<"int", n>>, <<"dbl", its text>>, <<"str", bytes>>, <<"arr", elements>> *)
(* or <<"obj", pairs>>; strtod and 64-bit wrap-around are left out.        *)
(* Pieces lie behind each other in memory: consume_string may look at the  *)
(* byte after its piece (json.cc:927-932), `peek`.                         *)
(***************************************************************************)
EXTENDS Integers, Sequences, TLC

CONSTANTS
  JsonTexts,   \* bound: texts to parse, with the value wanted, <<>> for none
  MaxJsonDepth \* Json::streaming_parser::max_depth

VARIABLES
  jsp,         \* the streaming parser
  jtext,       \* the member of JsonTexts
  jpos,        \* bytes given to the parser
  jdone        \* the last piece was given with complete = true

parserVars == <<jsp, jtext, jpos, jdone>>

Quote == 34
Bs == 92
LowU == 117
Digit(c) == c \in 48..57
UpperHex(c) == c \in 65..70
LowerHex(c) == c \in 97..102
Hex(c) == Digit(c) \/ UpperHex(c) \/ LowerHex(c)
HexDigitValue(c) == CASE Digit(c) -> c - 48 [] UpperHex(c) -> c - 55 [] OTHER -> c - 87
HexNumber(s) == HexDigitValue(s[1]) * 4096 + HexDigitValue(s[2]) * 256 + HexDigitValue(s[3]) * 16 + HexDigitValue(s[4])
Drop(s, n) == SubSeq(s, n + 1, Len(s))

(* StringAccum::append_utf8, which gives two bytes to all below 0x8000.    *)
AppendUtf8(s, ch) ==
  LET low == 128 + (ch % 64)
      mid(n) == 128 + ((ch \div n) % 64)
  IN  CASE ch \in 1..127 -> s \o <<ch>>
        [] ch \in 128..(32768 - 1) -> s \o <<192 + ((ch \div 64) % 64), low>>
        [] ch \in 32768..65535 -> s \o <<224 + (ch \div 4096), mid(64), low>>
        [] OTHER -> s \o <<240 + (ch \div 262144), mid(4096), mid(64), low>>
Utf8Valid(ch) == ch # 0 /\ ~(ch \in 55296..57343) /\ ~(ch \in 65534..65535) /\ ch < 1114112

-----------------------------------------------------------------------------
(* hard_unparse; m says how.                                               *)
Nibble(n) == IF n < 10 THEN 48 + n ELSE 55 + n
Escape(c) ==
  CASE c = 8 -> <<98>> [] c = 12 -> <<102>> [] c = 10 -> <<110>> [] c = 13 -> <<114>> [] c = 9 -> <<116>>
    [] c \in {Bs, Quote, 47} -> <<c>>
    [] OTHER -> <<LowU, Nibble(c \div 4096), Nibble((c \div 256) % 16), Nibble((c \div 16) % 16), Nibble(c % 16)>>

RECURSIVE EncodeJson(_)
EncodeJson(s) ==
  LET separator == Len(s) >= 3 /\ s[1] = 226 /\ s[2] = 128 /\ s[3] \in {168, 169} IN
  CASE s = <<>> -> <<>>
    [] s # <<>> /\ separator -> <<Bs>> \o Escape(8232 + (s[3] % 2)) \o EncodeJson(Drop(s, 3))
    [] s # <<>> /\ ~separator /\ (s[1] < 32 \/ s[1] \in {Bs, Quote, 47}) ->
         <<Bs>> \o Escape(s[1]) \o EncodeJson(Tail(s))
    [] OTHER -> <<s[1]>> \o EncodeJson(Tail(s))

RECURSIVE DecimalText(_)
DecimalText(n) == IF n < 0 THEN <<45>> \o DecimalText(0 - n)
              ELSE IF n < 10 THEN <<48 + n>> ELSE DecimalText(n \div 10) \o <<48 + (n % 10)>>

IsComplex(v) == v[1] \in {"arr", "obj"} /\ v[2] # <<>>
UnparseIsComplex(v) ==
  \/ v[1] = "obj" /\ (Len(v[2]) > 5 \/ \E i \in DOMAIN v[2] : IsComplex(v[2][i][2]))
  \/ v[1] = "arr" /\ (Len(v[2]) > 1024 \/ \E i \in DOMAIN v[2] : IsComplex(v[2][i]))

Indent(m, depth) ==
  LET width == depth * (IF m.tab = 0 THEN 8 ELSE m.tab) IN
  <<10>> \o [i \in 1..(width \div 8) |-> 9] \o [i \in 1..(width % 8) |-> 32]

RECURSIVE UnparseText(_, _, _)
UnparseText(v, m, depth) ==
  LET expanded == depth < m.indent /\ UnparseIsComplex(v)
      colon == IF expanded \/ m.space THEN <<58, 32>> ELSE <<58>>
      comma == IF ~expanded /\ m.space THEN <<44, 32>> ELSE <<44>>
      line(d) == IF expanded THEN Indent(m, d) ELSE <<>>
      entry(i) == IF v[1] = "arr" THEN UnparseText(v[2][i], m, depth + 1)
                  ELSE <<Quote>> \o EncodeJson(v[2][i][1]) \o <<Quote>> \o colon
                       \o UnparseText(v[2][i][2], m, depth + 1)
      upto[i \in 0..Len(v[2])] ==
        IF i = 0 THEN <<>>
        ELSE upto[i - 1] \o (IF i > 1 THEN comma ELSE <<>>) \o line(depth + 1) \o entry(i)
      body == CASE v[1] = "null" -> <<110, 117, 108, 108>>
                [] v[1] = "bool" -> IF v[2] THEN <<116, 114, 117, 101>> ELSE <<102, 97, 108, 115, 101>>
                [] v[1] = "int" -> DecimalText(v[2])
                [] v[1] = "dbl" -> v[2]
                [] v[1] = "str" -> <<Quote>> \o EncodeJson(v[2]) \o <<Quote>>
                [] v[1] = "arr" -> <<91>> \o upto[Len(v[2])] \o line(depth) \o <<93>>
                [] v[1] = "obj" -> <<123>> \o upto[Len(v[2])] \o line(depth) \o <<125>>
  IN  body \o IF depth = 0 /\ m.newline THEN <<10>> ELSE <<>>

-----------------------------------------------------------------------------
(* The parser: state without the part bits, part and len for them, the     *)
(* stack as paths into the result, str_ and json_.                         *)
StreamingParser ==
  [state |-> "initial", part |-> "none", len |-> 0, stack |-> <<>>, str |-> <<>>, json |-> <<"null">>]
ResetParser(p) == [p EXCEPT !.state = "initial", !.part = "none", !.len = 0, !.stack = <<>>]

WantsValue == {"initial", "array_initial", "array_value", "object_value"}
Alive(p) == p.state \notin {"final", "error"}
ErrorAt(p, s) == [p |-> [p EXCEPT !.state = "error"], s |-> s]
At0(p, s) == [p |-> p, s |-> s]

RECURSIVE Get(_, _), Put(_, _, _)
Get(v, path) ==
  IF path = <<>> THEN v
  ELSE Get(IF v[1] = "arr" THEN v[2][path[1]] ELSE v[2][path[1]][2], Tail(path))
Put(v, path, x) ==
  IF path = <<>> THEN x
  ELSE LET i == path[1]
           y == Put(Get(v, <<i>>), Tail(path), x)
           s == SubSeq(v[2], 1, i - 1) \o <<IF v[1] = "arr" THEN y ELSE <<v[2][i][1], y>>>> \o Drop(v[2], i)
       IN  <<v[1], s>>

JspCurrent(p) == IF p.stack = <<>> THEN <<>> ELSE p.stack[Len(p.stack)]
Popped(p) == [p EXCEPT !.stack = SubSeq(@, 1, Len(@) - 1)]

(* The label `value`: j is stored where the parser is.                     *)
Value(p, j) ==
  LET here == Get(p.json, JspCurrent(p))
      pushes == p.state # "initial" /\ here[1] = "arr"
      at == IF pushes THEN Append(JspCurrent(p), Len(here[2]) + 1) ELSE JspCurrent(p)
      q == [p EXCEPT !.json = Put(@, JspCurrent(p), IF pushes THEN <<"arr", Append(here[2], j)>> ELSE j)]
      up == IF p.state = "object_value" THEN Popped(q) ELSE q
  IN  CASE j[1] \in {"arr", "obj"} ->
             [up EXCEPT !.stack = IF p.state = "initial" THEN @ ELSE Append(@, at),
                        !.state = IF j[1] = "arr" THEN "array_initial" ELSE "object_initial"]
        [] OTHER ->
             [up EXCEPT !.state = CASE p.state = "object_value" -> "object_delim"
                                    [] p.state \in {"array_initial", "array_value"} -> "array_delim"
                                    [] OTHER -> "final"]

CloseValue(p) ==
  LET up == Popped(p) IN
  IF p.stack = <<>> THEN [p EXCEPT !.state = "final"]
  ELSE [up EXCEPT !.state = IF Get(p.json, JspCurrent(up))[1] = "arr" THEN "array_delim" ELSE "object_delim"]

(* After a key, the item of the key is the place of the next value.        *)
KeyDone(p) ==
  LET pairs == Get(p.json, JspCurrent(p))[2]
      old == {i \in DOMAIN pairs : pairs[i][1] = p.str}
      i == IF old = {} THEN Len(pairs) + 1 ELSE CHOOSE j \in old : TRUE
      q == IF old # {} THEN p
           ELSE [p EXCEPT !.json = Put(@, JspCurrent(p), <<"obj", Append(pairs, <<p.str, <<"null">>>>)>>)]
  IN  [q EXCEPT !.stack = Append(@, Append(JspCurrent(p), i))]

(* consume_backslash: s begins with the backslash.                         *)
AfterBackslash(p, s) ==
  LET incomplete == At0([p EXCEPT !.str = @ \o s, !.len = Len(s)], <<>>)
      bad == ErrorAt(p, s)
      got(n, ch) == IF Utf8Valid(ch) THEN At0([p EXCEPT !.str = AppendUtf8(@, ch)], Drop(s, n)) ELSE bad
      \* the first place from i to k that is missing or not as it should be
      hexTo(i, k, ok(_)) == CASE \E j \in i..k : j <= Len(s) /\ ~ok(s[j]) -> "bad"
                              [] Len(s) < k /\ \A j \in i..Len(s) : ok(s[j]) -> "short"
                              [] OTHER -> "ok"
      lowOk(c) == Digit(c) \/ UpperHex(c)
      plain == 98 :> 8 @@ 102 :> 12 @@ 110 :> 10 @@ 114 :> 13 @@ 116 :> 9 @@ 34 :> 34 @@ 92 :> 92 @@ 47 :> 47
      ch == HexNumber(SubSeq(s, 3, 6))
      ch2 == HexNumber(SubSeq(s, 9, 12))
  IN  CASE Len(s) = 1 -> incomplete
        [] Len(s) > 1 /\ s[2] \in DOMAIN plain -> got(2, plain[s[2]])
        [] Len(s) > 1 /\ s[2] \notin DOMAIN plain \cup {LowU} -> bad
        [] OTHER ->
             LET first == hexTo(3, 6, Hex) IN
             CASE first = "bad" -> bad
               [] first = "short" -> incomplete
               [] first = "ok" /\ ch \notin 55296..57343 -> got(6, ch)
               [] first = "ok" /\ ch \in 56320..57343 -> bad
               [] OTHER ->
                    CASE Len(s) = 6 -> incomplete
                      [] Len(s) > 6 /\ s[7] # Bs -> bad
                      [] Len(s) = 7 /\ s[7] = Bs -> incomplete
                      [] Len(s) > 7 /\ s[7] = Bs /\ s[8] # LowU -> bad
                      [] OTHER ->
                           LET second == hexTo(9, 12, lowOk) IN
                           CASE second = "bad" -> bad
                             [] second = "short" -> incomplete
                             [] OTHER -> IF ch2 \in 56320..57343
                                         THEN got(12, 65536 + (ch - 55296) * 1024 + (ch2 - 56320))
                                         ELSE bad

(* consume_string and consume_stringpart.                                  *)
Want(c) == IF c >= 240 THEN 4 ELSE IF c >= 224 THEN 3 ELSE 2
Continues(c) == c \in 128..191
BadSecond(c, d) ==
  \/ c = 224 /\ d < 160
  \/ c = 237 /\ d >= 160
  \/ c = 240 /\ d < 144
  \/ c = 244 /\ d >= 144

RECURSIVE ConsumeString(_, _, _), StringPart(_, _, _), StringBody(_, _, _)
RECURSIVE BodyFrom(_, _), PartFrom(_, _, _)
ConsumeString(p, s, peek) == IF p.len # 0 THEN StringPart(p, s, peek) ELSE StringBody(p, s, peek)

StringBody(p, s, peek) ==
  LET c == s[1]
      want == Want(c)
      n == IF Len(s) < want THEN Len(s) ELSE want
      second == IF Len(s) > 1 THEN s[2] ELSE peek
  IN  CASE ~Alive(p) -> At0(p, s)
        [] Alive(p) /\ s = <<>> -> At0([p EXCEPT !.part = "string"], s)
        [] Alive(p) /\ s # <<>> /\ c = Quote -> At0([p EXCEPT !.part = "none"], Tail(s))
        [] Alive(p) /\ s # <<>> /\ c = Bs -> BodyFrom(AfterBackslash(p, s), peek)
        [] Alive(p) /\ s # <<>> /\ c \in 32..127 \ {Quote, Bs} ->
             StringBody([p EXCEPT !.str = Append(@, c)], Tail(s), peek)
        [] Alive(p) /\ s # <<>> /\ c \in 194..244 ->
             IF (n > 1 /\ ~Continues(s[2])) \/ BadSecond(c, second)
                \/ (n > 2 /\ ~Continues(s[3])) \/ (n > 3 /\ ~Continues(s[4]))
             THEN ErrorAt(p, s)
             ELSE StringBody([p EXCEPT !.str = @ \o SubSeq(s, 1, n), !.len = IF n # want THEN n ELSE 0],
                             Drop(s, n), peek)
        [] OTHER -> ErrorAt(p, s)
BodyFrom(r, peek) == StringBody(r.p, r.s, peek)

MutPartDone(tag, part) == (tag # Bs /\ part = Want(tag) - 1) \/ (tag = Bs /\ part \in {1, 5, 10})
PartDone(tag, part) == (tag # Bs /\ part = Want(tag) - 1) \/ (tag = Bs /\ part \in {1, 5, 11})
PartFits(tag, part, c) ==
  CASE tag # Bs -> Continues(c)
    [] tag = Bs /\ part = 1 -> TRUE
    [] tag = Bs /\ part = 6 -> c = Bs
    [] tag = Bs /\ part = 7 -> c = LowU
    [] OTHER -> Hex(c)

StringPart(p, s, peek) ==
  LET tag == p.str[Len(p.str) - p.len + 1]
      all == Append(p.str, s[1])
      cut == Len(p.str) - p.len
  IN  CASE s = <<>> -> At0([p EXCEPT !.part = "string"], s)
        [] s # <<>> /\ ~PartFits(tag, p.len, s[1]) -> ErrorAt(p, s)
        [] s # <<>> /\ PartFits(tag, p.len, s[1]) /\ PartDone(tag, p.len) ->
             PartFrom(StringBody([p EXCEPT !.str = SubSeq(all, 1, cut), !.part = "none", !.len = 0],
                                 Drop(all, cut), 0),
                      s, peek)
        [] OTHER -> StringPart([p EXCEPT !.str = all, !.len = @ + 1], Tail(s), peek)
PartFrom(r, s, peek) == IF Alive(r.p) THEN ConsumeString(r.p, Tail(s), peek) ELSE ErrorAt(r.p, s)

(* consume_primitive: len counts the characters of the word seen.          *)
Words == <<<<110, 117, 108, 108>>, <<102, 97, 108, 115, 101>>, <<116, 114, 117, 101>>>>
WordValues == <<<<"null">>, <<"bool", FALSE>>, <<"bool", TRUE>>>>
RECURSIVE ConsumePrimitive(_, _, _, _)
ConsumePrimitive(p, s, w, n) ==
  CASE n = Len(Words[w]) -> At0(Value([p EXCEPT !.part = "none", !.len = 0], WordValues[w]), s)
    [] n < Len(Words[w]) /\ s = <<>> -> At0([p EXCEPT !.part = "primitive", !.len = 8 * w + n], s)
    [] n < Len(Words[w]) /\ s # <<>> /\ s[1] # Words[w][n + 1] -> ErrorAt(p, s)
    [] OTHER -> ConsumePrimitive(p, Tail(s), w, n + 1)

(* consume_number: the position within a number; odd ones may end it.      *)
NextPosition(pos, c) ==
  CASE pos = 0 /\ c = 45 -> 2
    [] pos \in {0, 2} /\ c = 48 -> 3
    [] pos \in {0, 2} /\ c \in 49..57 -> 1
    [] pos \in {1, 5, 9} /\ Digit(c) -> pos
    [] pos \in {1, 2, 3} /\ c = 46 -> 4
    [] pos \in {1, 2, 3, 5} /\ c \in {69, 101} -> 6
    [] pos = 4 /\ Digit(c) -> 5
    [] pos = 6 /\ c \in {43, 45} -> 8
    [] pos \in {6, 8} /\ Digit(c) -> 9
    [] OTHER -> -1

IntValue(s) ==
  LET n == IF s[1] = 45 THEN 1 ELSE 0
      upto[i \in n..Len(s)] == IF i = n THEN 0 ELSE upto[i - 1] * 10 + s[i] - 48
  IN  IF n = 1 THEN 0 - upto[Len(s)] ELSE upto[Len(s)]
NumberValue(s, pos) ==
  CASE Len(s) = 1 \/ pos < 4 -> <<"int", IntValue(s)>>
    [] OTHER -> <<"dbl", s>>

RECURSIVE ConsumeNumber(_, _, _, _)
ConsumeNumber(p, s, pos, complete) ==
  LET ended == s # <<>> /\ NextPosition(pos, s[1]) = -1 IN
  CASE s # <<>> /\ ~ended ->
         ConsumeNumber([p EXCEPT !.str = Append(@, s[1])], Tail(s), NextPosition(pos, s[1]), complete)
    [] s = <<>> /\ ~complete -> At0([p EXCEPT !.part = "number", !.len = pos], s)
    [] OTHER ->
         IF pos % 2 = 0 THEN ErrorAt([p EXCEPT !.str = <<>>], s)
         ELSE At0(Value([p EXCEPT !.part = "none", !.len = 0, !.str = <<>>], NumberValue(p.str, pos)), s)

(* consume.                                                                *)
StringDone(r) == Alive(r.p) /\ r.p.part = "none"
AfterString(r) == IF StringDone(r) THEN At0(Value([r.p EXCEPT !.str = <<>>], <<"str", r.p.str>>), r.s) ELSE r
AfterKey(r) == IF StringDone(r) THEN At0([KeyDone(r.p) EXCEPT !.str = <<>>], r.s) ELSE r

Resume(p, s, complete, peek) ==
  CASE p.part = "string" /\ p.state = "object_colon" -> AfterKey(ConsumeString(p, s, peek))
    [] p.part = "string" /\ p.state # "object_colon" -> AfterString(ConsumeString(p, s, peek))
    [] p.part = "primitive" ->
         ConsumePrimitive([p EXCEPT !.part = "none"], s, p.len \div 8, p.len % 8)
    [] OTHER -> ConsumeNumber([p EXCEPT !.part = "none"], s, p.len, complete)

Token(p, s, complete, peek) ==
  LET c == s[1]
      opened == At0(Value(p, IF c = 123 THEN <<"obj", <<>>>> ELSE <<"arr", <<>>>>), Tail(s))
      word == CHOOSE w \in 1..3 : Words[w][1] = c
      value == p.state \in WantsValue
  IN  CASE c \in {32, 10, 13, 9} -> At0(p, Tail(s))
        [] c = 44 /\ p.state = "array_delim" -> At0([p EXCEPT !.state = "array_value"], Tail(s))
        [] c = 44 /\ p.state = "object_delim" -> At0([p EXCEPT !.state = "object_key"], Tail(s))
        [] c = 58 /\ p.state = "object_colon" -> At0([p EXCEPT !.state = "object_value"], Tail(s))
        [] c \in {123, 91} /\ value /\ Len(p.stack) < MaxJsonDepth -> opened
        [] c = 125 /\ p.state \in {"object_initial", "object_delim"} -> At0(CloseValue(p), Tail(s))
        [] c = 93 /\ p.state \in {"array_initial", "array_delim"} -> At0(CloseValue(p), Tail(s))
        [] c = Quote /\ value -> AfterString(ConsumeString([p EXCEPT !.str = <<>>], Tail(s), peek))
        [] c = Quote /\ p.state \in {"object_initial", "object_key"} ->
             AfterKey(ConsumeString([p EXCEPT !.str = <<>>, !.state = "object_colon"], Tail(s), peek))
        [] c \in {110, 102, 116} /\ value -> ConsumePrimitive(p, Tail(s), word, 1)
        [] (c = 45 \/ Digit(c)) /\ value -> ConsumeNumber([p EXCEPT !.str = <<>>], s, 0, complete)
        [] OTHER -> ErrorAt(p, s)

RECURSIVE JspConsume(_, _, _, _), ConsumeRest(_, _, _, _)
ConsumeRest(r, s, complete, peek) == IF s = <<>> THEN r ELSE JspConsume(r.p, r.s, complete, peek)
JspConsume(p, s, complete, peek) ==
  IF ~Alive(p) \/ (s = <<>> /\ p.part = "none") THEN At0(p, s)
  ELSE ConsumeRest(IF p.part # "none" THEN Resume(p, s, complete, peek) ELSE Token(p, s, complete, peek),
                   s, complete, peek)

(* assign_parse: one more blank may follow; <<>> if the text is not Json.  *)
Parsed(r) ==
  LET s == IF r.s # <<>> /\ r.s[1] \in {32, 10, 13, 9} THEN Tail(r.s) ELSE r.s IN
  IF r.p.state = "final" /\ s = <<>> THEN <<r.p.json>> ELSE <<>>
AssignParse(text) == Parsed(JspConsume(StreamingParser, text, TRUE, 0))

-----------------------------------------------------------------------------
(* A program that reads Json texts with one parser, piece by piece.        *)
JspInit == jtext \in JsonTexts /\ jsp = StreamingParser /\ jpos = 0 /\ jdone = FALSE

Piece(n, complete) ==
  /\ ~jdone /\ Alive(jsp)
  /\ complete => jpos + n = Len(jtext.text)
  /\ \E r \in {JspConsume(jsp, SubSeq(jtext.text, jpos + 1, jpos + n), complete,
                        IF jpos + n < Len(jtext.text) THEN jtext.text[jpos + n + 1] ELSE 0)} :
       jsp' = r.p /\ jpos' = jpos + n - Len(r.s)
  /\ jdone' = complete /\ UNCHANGED jtext

(* The parser is used again, wherever it is.                               *)
JspReset ==
  /\ jpos # 0
  /\ jsp' = ResetParser(jsp) /\ jpos' = 0 /\ jdone' = FALSE /\ UNCHANGED jtext

JspNext ==
  \/ \E n \in 0..(Len(jtext.text) - jpos), complete \in BOOLEAN : Piece(n, complete)
  \/ JspReset

-----------------------------------------------------------------------------
(* Properties.                                                             *)

(* Pieces do not matter: whenever the parser is done it says of the text   *)
(* what one call with the whole text says, also if it was reset before     *)
(* (jsontest.cc:274-490 tries a few ways to cut a text).                   *)
ChunksAgree ==
  jdone \/ ~Alive(jsp) =>
    \E whole \in {JspConsume(StreamingParser, jtext.text, TRUE, 0)} :
      /\ jsp.state = whole.p.state
      /\ jsp.state = "final" => jsp.json = whole.p.json /\ jpos = Len(jtext.text) - Len(whole.s)

(* What becomes of a string that is written and read: encode_json writes   *)
(* U+2028 and U+2029 as \u2028 and \u2029, and append_utf8_hard gives two  *)
(* bytes to these (straccum.cc:206), which are no UTF-8.  The other        *)
(* characters stay.                                                        *)
RECURSIVE ReadBack(_)
ReadBack(s) ==
  CASE s = <<>> -> <<>>
    [] Len(s) >= 3 /\ SubSeq(s, 1, 3) = <<226, 128, 168>> -> <<192, 168>> \o ReadBack(Drop(s, 3))
    [] Len(s) >= 3 /\ SubSeq(s, 1, 3) = <<226, 128, 169>> -> <<192, 169>> \o ReadBack(Drop(s, 3))
    [] OTHER -> <<s[1]>> \o ReadBack(Tail(s))

=============================================================================
