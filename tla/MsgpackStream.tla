--------------------------- MODULE MsgpackStream ---------------------------
(***************************************************************************)
(* One msgpack::streaming_parser that is given one message after another,  *)
(* in pieces of any size, and reset after each of them (src/msgpack.cc,    *)
(* the callers of consume in src/mtd.cc and src/mtclient.hh).              *)
(***************************************************************************)
EXTENDS Msgpack

CONSTANT Messages  \* bound: the messages, [text, want]; want is <<>> if it must be refused

VARIABLE mp        \* [message, pos, p]

MpInit == \E m \in Messages : mp = [message |-> m, pos |-> 0, p |-> Parser]

(* The pieces lie in one buffer, whose string ends with the message.       *)
MpPiece(n) ==
  LET text == mp.message.text
      r == Consume(mp.p, SubSeq(text, mp.pos + 1, mp.pos + n), <<"b", mp.pos, Len(text)>>)
  IN  /\ ~Done(mp.p)
      /\ mp' = [mp EXCEPT !.p = r.p, !.pos = @ + r.k]

(* The next message uses the parser again; a parser that met an error is   *)
(* never used again.                                                       *)
MpAgain ==
  /\ mp.p.state = "final"
  /\ \E m \in Messages : m.again /\ mp' = [message |-> m, pos |-> 0, p |-> Reset(mp.p)]

MpNext == (\E n \in 1..(Len(mp.message.text) - mp.pos) : MpPiece(n)) \/ MpAgain

(* Strings lie where the parser says they do.                              *)
RECURSIVE Resolved(_, _)
Resolved(v, mem) ==
  CASE v[1] = "str" -> <<"str", IF v[3] = <<>> THEN v[2] ELSE SubSeq(mem, v[3][2] + 1, v[3][2] + Len(v[2])), <<>>>>
    [] v[1] = "arr" -> <<"arr", [i \in DOMAIN v[2] |-> Resolved(v[2][i], mem)]>>
    [] v[1] = "obj" -> <<"obj", [i \in DOMAIN v[2] |-> <<v[2][i][1], Resolved(v[2][i][2], mem)>>]>>
    [] OTHER -> v

(* However a message is cut, the parser is done exactly when the last byte *)
(* of its first value was given, has read what was unparsed, with strings  *)
(* that are where it says, and an earlier message leaves nothing behind.   *)
MsgpackExact ==
  LET want == mp.message.want
      whole == mp.pos = Len(mp.message.text)
  IN  /\ want # <<>> => /\ mp.p.state = "final" <=> whole
                        /\ mp.p.state # "error"
                        /\ whole => Resolved(mp.p.json, mp.message.text) = want[1]
      /\ want = <<>> => mp.p.state # "final" /\ (whole => mp.p.state = "error")
=============================================================================
