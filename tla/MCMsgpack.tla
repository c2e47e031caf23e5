----------------------------- MODULE MCMsgpack -----------------------------
(* Messages with every kind of header, at the limits of each.              *)
EXTENDS MsgpackStream

S(n) == <<"str", [i \in 1..n |-> 65 + (i % 26)], <<>>>>
I(n) == <<"int", n>>
Values ==
  {I(n) : n \in {0, 127, 128, -1, -32, -33, -128, -129, 255, 32767, 32768, -32768, -32769, 65536}}
  \cup {S(n) : n \in {0, 1, 31, 32, 256}}
  \cup {<<"null">>, <<"bool", FALSE>>, <<"bool", TRUE>>, <<"dbl", [i \in 1..8 |-> i]>>}
  \cup {<<"arr", [i \in 1..n |-> I(i)]>> : n \in {0, 15, 16}}
  \cup {<<"obj", [i \in 1..n |-> <<<<64 + i>>, I(i)>>]>> : n \in {0, 1, 16}}
Nested ==
  {<<"arr", <<I(300), I(6), S(2), <<"arr", <<>>>>, S(1)>>>>,
   <<"obj", <<<<<<99>>, <<"arr", <<S(3), <<"obj", <<>>>>>>>>>>, <<<<>>, <<"obj", <<<<<<65>>, <<"null">>>>>>>>>>>>>>,
   <<"arr", <<<<"arr", <<<<"arr", <<S(33)>>>>>>>>>>>>, <<"arr", <<<<"obj", <<<<<<107>>, S(1)>>>>>>, I(2)>>>>}
Message(text, want, again) == [text |-> text, want |-> want, again |-> again]
\* other encodings of a value than the unparser's
Foreign ==
  {Message(<<220, 0, 2, 217, 1, 65, 196, 0>>, <<<<"arr", <<S0, <<"str", <<>>, <<>>>>>>>>>>, TRUE) : S0 \in {<<"str", <<65>>, <<>>>>}}
  \cup {Message(<<222, 0, 1, 5, 207, 0, 0, 0, 0, 0, 0, 1, 0>>, <<<<"obj", <<<<<<53>>, I(256)>>>>>>>>, TRUE),
        Message(<<129, 161, 65, 211>> \o NetOrder(-2, 8), <<<<"obj", <<<<<<65>>, I(-2)>>>>>>>>, FALSE),
        Message(<<130, 161, 65, 1, 161, 65, 2>>, <<<<"obj", <<<<<<65>>, I(2)>>>>>>>>, FALSE),
        Message(<<198, 0, 0, 0, 1, 65>>, <<<<"str", <<65>>, <<>>>>>>, FALSE),
        Message(<<205, 255, 255>>, <<I(65535)>>, FALSE)}
Refused == {Message(t, <<>>, FALSE) : t \in {<<193>>, <<145, 199>>, <<129, 192>>, <<129, 144>>, <<146, 1, 212>>}}
MCMessages ==
  {Message(Unparse(v), <<v>>, v \in Nested) : v \in Values \cup Nested} \cup Foreign \cup Refused
=============================================================================
