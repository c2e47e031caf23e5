------------------------------ MODULE Msgpack ------------------------------
(***************************************************************************)
(* MessagePack, the format of requests, replies and logged changes         *)
(* (src/msgpack.hh, src/msgpack.cc): the unparser, which asks its output   *)
(* for room item by item, and the streaming parser, which keeps what is    *)
(* left of a header or a string at the end of a piece for the next piece.  *)
(*                                                                         *)
(* A Json is <<"null">>, <<"bool", b>>, <<"int", n>>, <<"dbl", its bytes>>,*)
(* <<"str", bytes, where>>, <<"arr", elements>> or <<"obj", pairs>>.  A    *)
(* string the parser made without a copy lies in the caller's memory:      *)
(* where is <<buffer, offset>>, and <<>> for a string of its own.  Integers *)
(* are kept below 2^31 (TLC's), so that a length never turns negative.     *)
(***************************************************************************)
EXTENDS Integers, Sequences, SequencesExt

Rest(s, n) == SubSeq(s, n + 1, Len(s))

-----------------------------------------------------------------------------
(* Writing.                                                                *)

(* write_in_net_order: x in w bytes, negative numbers as two's complement. *)
NetOrder(x, w) ==
  LET byte[i \in 1..w] == IF i = 1 THEN x ELSE byte[i - 1] \div 256 IN
  [i \in 1..w |-> byte[w - i + 1] % 256]

WriteUnsigned(x) ==
  CASE x < 128 -> <<x>>
    [] x \in 128..255 -> <<204>> \o NetOrder(x, 1)
    [] x \in 256..65535 -> <<205>> \o NetOrder(x, 2)
    [] OTHER -> <<206>> \o NetOrder(x, 4)
WriteSigned(x) ==
  CASE x \in -32..127 -> <<x % 256>>
    [] x \in -128..127 /\ x \notin -32..127 -> <<208>> \o NetOrder(x, 1)
    [] x \in -32768..32767 /\ x \notin -128..127 -> <<209>> \o NetOrder(x, 2)
    [] OTHER -> <<210>> \o NetOrder(x, 4)
WriteWide(x) == <<211>> \o NetOrder(x, 8)

WriteString(s) ==
  LET n == Len(s) IN
  (CASE n < 32 -> <<160 + n>>
     [] n \in 32..255 -> <<217>> \o NetOrder(n, 1)
     [] n \in 256..65535 -> <<218>> \o NetOrder(n, 2)
     [] OTHER -> <<219>> \o NetOrder(n, 4)) \o s
WriteHeader(n, fix, wide) ==
  CASE n < 16 -> <<fix + n>>
    [] n \in 16..65535 -> <<wide>> \o NetOrder(n, 2)
    [] OTHER -> <<wide + 1>> \o NetOrder(n, 4)
WriteArrayHeader(n) == WriteHeader(n, 144, 220)
WriteMapHeader(n) == WriteHeader(n, 128, 222)

(* unparser::operator<<(const Json&): the items in order, each with the    *)
(* room it reserves.                                                       *)
Item(room, bytes) == [room |-> room, bytes |-> bytes]
RECURSIVE Items(_)
Items(v) ==
  CASE v[1] = "null" -> <<Item(1, <<192>>)>>
    [] v[1] = "bool" -> <<Item(1, <<IF v[2] THEN 195 ELSE 194>>)>>
    [] v[1] = "int" -> <<Item(9, WriteSigned(v[2]))>>
    [] v[1] = "uint" -> <<Item(9, WriteUnsigned(v[2]))>>
    [] v[1] = "dbl" -> <<Item(9, <<203>> \o v[2])>>
    [] v[1] = "str" -> <<Item(5 + Len(v[2]), WriteString(v[2]))>>
    [] v[1] = "arr" -> FoldLeft(LAMBDA r, e : r \o Items(e), <<Item(5, WriteArrayHeader(Len(v[2])))>>, v[2])
    [] v[1] = "obj" ->
         FoldLeft(LAMBDA r, e : r \o <<Item(5 + Len(e[1]), WriteString(e[1]))>> \o Items(e[2]),
                  <<Item(5, WriteMapHeader(Len(v[2])))>>, v[2])
BytesOf(items) == FoldLeft(LAMBDA r, i : r \o i.bytes, <<>>, items)
Unparse(v) == BytesOf(Items(v))

-----------------------------------------------------------------------------
(* Reading.                                                                *)

(* read_in_net_order, unsigned and two's complement.                       *)
ReadUnsigned(s) == FoldLeft(LAMBDA x, b : x * 256 + b, 0, s)
ReadSigned(s) == FoldLeft(LAMBDA x, b : x * 256 + b, IF s[1] >= 128 THEN s[1] - 256 ELSE s[1], Tail(s))

IsFixint(c) == c < 128 \/ c >= 224
NBytes == [c \in 192..223 |->
  CASE c \in {196, 204, 208, 217} -> 2
    [] c \in {197, 205, 209, 218, 220, 222} -> 3
    [] c \in {198, 202, 206, 210, 219, 221, 223} -> 5
    [] c \in {203, 207, 211} -> 9
    [] OTHER -> 0]

(* What a header begins: a whole value, or a container or a string of n    *)
(* items or bytes.                                                         *)
HeaderLength(c) == IF c \in 192..223 /\ c \notin {192, 194, 195} THEN NBytes[c] ELSE 1
Whole(j) == [kind |-> "value", n |-> 0, json |-> j]
Opens(kind, n) == [kind |-> kind, n |-> n, json |-> <<"null">>]
Header(c, arg, n) ==
  CASE IsFixint(c) -> Whole(<<"int", IF c < 128 THEN c ELSE c - 256>>)
    [] c = 192 -> Whole(<<"null">>)
    [] c \in {194, 195} -> Whole(<<"bool", c = 195>>)
    [] c \in 128..143 -> Opens("map", c - 128)
    [] c \in 144..159 -> Opens("array", c - 144)
    [] c \in 160..191 -> Opens("raw", c - 160)
    [] c \in {202, 203} -> Whole(<<"dbl", arg>>)
    [] c \in 204..207 -> Whole(<<"int", n>>)
    [] c \in 208..211 -> Whole(<<"int", ReadSigned(arg)>>)
    [] c \in {196, 197, 198, 217, 218, 219} -> Opens("raw", n)
    [] c \in {220, 221} -> Opens("array", n)
    [] OTHER -> Opens("map", n)
Begins(h) == Header(h[1], Tail(h), IF h[1] \in {202, 203} THEN 0 ELSE ReadUnsigned(Tail(h)))

(* The parser.  An element of the stack points to a Json: a path into the  *)
(* result, or KeyPlace for jokey_.                                         *)
KeyPlace == <<0>>
Parser == [state |-> "normal", stack |-> <<>>, str |-> <<>>, json |-> <<"null">>, key |-> <<"null">>]
Reset(p) == [p EXCEPT !.state = "normal", !.stack = <<>>]
Empty(p) == p.state = "normal" /\ p.stack = <<>>
Done(p) == p.state \in {"final", "error"}

RECURSIVE JsonAt(_, _), SetJson(_, _, _)
JsonAt(v, path) ==
  IF path = <<>> THEN v
  ELSE JsonAt(IF v[1] = "arr" THEN v[2][path[1]] ELSE v[2][path[1]][2], Tail(path))
SetJson(v, path, x) ==
  IF path = <<>> THEN x
  ELSE LET i == path[1]
           y == SetJson(JsonAt(v, <<i>>), Tail(path), x)
       IN  <<v[1], ReplaceAt(v[2], i, IF v[1] = "arr" THEN y ELSE <<v[2][i][1], y>>)>>

Top(p) == p.stack[Len(p.stack)]
Jx(p) == IF p.stack = <<>> THEN <<>> ELSE Top(p).jp
Jo(p) == IF Len(p.stack) = 1 THEN <<>> ELSE p.stack[Len(p.stack) - 1].jp
Push(p, jp, size) == [p EXCEPT !.stack = Append(@, [jp |-> jp, size |-> size])]
Pop(p) == [p EXCEPT !.stack = Front(@)]
SetTop(p, jp, size) == [p EXCEPT !.stack[Len(p.stack)] = [jp |-> jp, size |-> size]]
Assign(p, j) == IF Jx(p) = KeyPlace THEN [p EXCEPT !.key = j] ELSE [p EXCEPT !.json = SetJson(@, Jx(p), j)]
Current(p) == IF Jx(p) = KeyPlace THEN p.key ELSE JsonAt(p.json, Jx(p))

RECURSIVE Decimal(_)
Decimal(n) == IF n < 0 THEN <<45>> \o Decimal(0 - n)
              ELSE IF n < 10 THEN <<48 + n>> ELSE Decimal(n \div 10) \o <<48 + (n % 10)>>

(* A key was read: the item of the key is the place of the next value.     *)
KeyRead(p) ==
  LET name == IF p.key[1] = "int" THEN Decimal(p.key[2]) ELSE p.key[2]
      pairs == JsonAt(p.json, Jo(p))[2]
      old == {i \in DOMAIN pairs : pairs[i][1] = name}
      i == IF old = {} THEN Len(pairs) + 1 ELSE CHOOSE j \in old : TRUE
      q == IF old # {} THEN p
           ELSE [p EXCEPT !.json = SetJson(@, Jo(p), <<"obj", Append(pairs, <<name, <<"null">>>>)>>)]
  IN  IF p.key[1] \in {"str", "int"} THEN SetTop(q, Append(Jo(p), i), Top(p).size)
      ELSE [p EXCEPT !.state = "error"]

(* A value is complete: the containers that are full are left.             *)
RECURSIVE Leave(_)
MutLeave(p) ==
  CASE p.stack = <<>> -> [p EXCEPT !.state = "final"]
    [] p.stack # <<>> /\ Top(p).size = 0 -> [Pop(p) EXCEPT !.state = "final"]
    [] OTHER ->
         LET place == IF JsonAt(p.json, Jo(p))[1] = "arr"
                      THEN Append(Front(Top(p).jp), Last(Top(p).jp) + 1) ELSE KeyPlace
         IN  SetTop(p, place, Top(p).size - 1)
Leave(p) ==
  CASE p.stack = <<>> -> [p EXCEPT !.state = "final"]
    [] p.stack # <<>> /\ Top(p).size = 0 -> Leave(Pop(p))
    [] OTHER ->
         LET place == IF JsonAt(p.json, Jo(p))[1] = "arr"
                      THEN Append(Front(Top(p).jp), Last(Top(p).jp) + 1) ELSE KeyPlace
         IN  SetTop(p, place, Top(p).size - 1)

(* The label `next`; n is the size of a container just begun.              *)
Added(p, n) ==
  CASE Jx(p) = KeyPlace -> KeyRead(p)
    [] Jx(p) # KeyPlace /\ n # 0 /\ Current(p)[1] = "arr" -> Push(p, Append(Jx(p), 1), n - 1)
    [] Jx(p) # KeyPlace /\ n # 0 /\ Current(p)[1] = "obj" -> Push(p, KeyPlace, n - 1)
    [] OTHER -> Leave(p)

(* The array is resized and its old elements stay until they are assigned. *)
Resized(old, n) == IF old[1] = "arr" THEN [i \in 1..n |-> IF i <= Len(old[2]) THEN old[2][i] ELSE <<"null">>]
                   ELSE [i \in 1..n |-> <<"null">>]

(* One value, container header or string at the start of s, which lies in  *)
(* memory at from (<<>> for the parser's own str_, else buffer, offset and *)
(* the size of the buffer's string).  Result: the parser and how many      *)
(* bytes it took.                                                          *)
Took(p, k) == [p |-> p, k |-> k]
Onwards(from, k) == IF from = <<>> THEN <<>> ELSE <<from[1], from[2] + k, from[3]>>
InPlace(from, k, n) == IF from # <<>> /\ from[2] + k + n < from[3] THEN <<from[1], from[2] + k>> ELSE <<>>
Begun(p, s, h, b, from) ==
  IF b.kind = "raw" /\ Len(s) - h < b.n
  THEN Took([Push(p, <<>>, b.n) EXCEPT !.state = "string", !.str = Rest(s, h)], Len(s))
  ELSE Took(Added(Assign(p, CASE b.kind = "value" -> b.json
                              [] b.kind = "map" -> <<"obj", <<>>>>
                              [] b.kind = "array" -> <<"arr", Resized(Current(p), b.n)>>
                              [] OTHER -> <<"str", SubSeq(s, h + 1, h + b.n), InPlace(from, h, b.n)>>),
                  IF b.kind \in {"map", "array"} THEN b.n ELSE 0),
            IF b.kind = "raw" THEN h + b.n ELSE h)
Element(p, s, h, from) ==
  CASE h = 0 -> Took([p EXCEPT !.state = "error"], 0)
    [] h # 0 /\ Len(s) < h -> Took([p EXCEPT !.state = "partial", !.str = s], Len(s))
    [] OTHER -> Begun(p, s, h, Begins(SubSeq(s, 1, h)), from)

(* The loop of consume; r.k counts the bytes taken from s.                 *)
RECURSIVE Elements(_, _, _)
After(r, taken) == Took(r.p, taken + r.k)
Elements(r, s, from) ==
  IF r.p.state # "normal" \/ r.k = Len(s) THEN r
  ELSE Elements(After(Element(r.p, Rest(s, r.k), HeaderLength(s[r.k + 1]), Onwards(from, r.k)), r.k), s, from)

(* consume: first the rest of a header or of a string.  A header that      *)
(* turns out to begin a string ends the call.                              *)
Needed(p) == IF p.state = "partial" THEN NBytes[p.str[1]] ELSE Top(p).size
Completed(p, str) ==
  IF p.state = "string"
  THEN Added([Assign(Pop(p), <<"str", str, <<>>>>) EXCEPT !.state = "normal", !.str = str], 0)
  ELSE Elements(Took([p EXCEPT !.state = "normal", !.str = str], 0), str, <<>>).p
Continue(p, s, k, from) ==
  IF Len(s) < k THEN Took([p EXCEPT !.str = @ \o s], Len(s))
  ELSE Elements(Took(Completed(p, p.str \o SubSeq(s, 1, k)), k), s, from)
Consume(p, s, from) ==
  CASE Done(p) -> Took(p, 0)
    [] p.state = "normal" -> Elements(Took(p, 0), s, from)
    [] OTHER -> Continue(p, s, Needed(p) - Len(p.str), from)

-----------------------------------------------------------------------------
(* msgpack::parser: skip_array_size and skip_primitives, which do not know *)
(* 64-bit numbers and containers, and the changes of a log record, read to *)
(* the end of the text.                                                    *)
SkipArraySize(s) == Rest(s, HeaderLength(s[1]))
SkipPrimitive(s) ==
  LET c == s[1]
      h == HeaderLength(c)
      b == Begins(SubSeq(s, 1, h))
  IN  CASE c \in {203, 207, 211} \/ b.kind \in {"map", "array"} -> s
        [] c \notin {203, 207, 211} /\ b.kind = "raw" -> Rest(s, h + b.n)
        [] OTHER -> Rest(s, h)
SkipPrimitives(s, n) ==
  LET after[i \in 0..n] == IF i = 0 THEN s ELSE SkipPrimitive(after[i - 1]) IN after[n]

(* parser::read_int and operator>>(Str&), as the log's parse_changeset     *)
(* uses them to the end of the record.                                     *)
Read(v, rest) == [v |-> v, rest |-> rest]
ReadInt(s) == Read(Begins(SubSeq(s, 1, HeaderLength(s[1]))).json, Rest(s, HeaderLength(s[1])))
ReadBytes(s, h, n) == Read(<<"str", SubSeq(s, h + 1, h + n), <<>>>>, Rest(s, h + n))
ReadStr(s) == ReadBytes(s, HeaderLength(s[1]), Begins(SubSeq(s, 1, HeaderLength(s[1]))).n)

RECURSIVE ParseChangeset(_)
WithRest(index, value) == <<index.v, value.v>> \o ParseChangeset(value.rest)
ParseChangeset(s) ==
  IF s = <<>> THEN <<>>
  ELSE LET index == ReadInt(s) IN WithRest(index, ReadStr(index.rest))
=============================================================================
