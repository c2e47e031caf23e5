---------------------------- MODULE MCJsonParser ----------------------------
(* Texts for the streaming parser: values written in every layout, strings *)
(* with escapes and characters of every length, and texts that are wrong.  *)
EXTENDS JsonParser

a == 97
Str0(s) == <<"str", s>>
Strings ==
  {<<>>, <<a, Quote, Bs>>, <<10, 1, 47>>, <<195, 169>>, <<226, 130, 172>>, <<a, 240, 157, 132, 158>>,
   <<a, 226, 128, 168>>, <<226, 128, 169, 226, 128, 170>>}
Primitives == {<<"null">>, <<"bool", TRUE>>, <<"bool", FALSE>>, <<"int", 0>>, <<"int", -10>>, <<"int", 907>>,
               <<"dbl", <<49, 46, 53>>>>, <<"dbl", <<45, 50, 101, 43, 51>>>>} \cup {Str0(s) : s \in Strings}
NestedValues ==
  {<<"arr", <<>>>>, <<"obj", <<>>>>} \cup {<<"arr", <<v, v>>>> : v \in {<<"int", 7>>, <<"null">>, Str0(<<a>>)}}
  \cup {<<"obj", <<<<k, v>>>>>> : k \in {<<>>, <<a, Bs>>}, v \in {<<"int", 12>>, <<"arr", <<>>>>, <<"arr", <<<<"obj", <<>>>>>>>>}}
  \cup {<<"arr", <<<<"obj", <<<<<<a>>, <<"bool", TRUE>>>>, <<<<98>>, <<"arr", <<<<"null">>>>>>>>>>>>, <<"int", 3>>>>>>}
  \cup {<<"obj", [i \in 1..6 |-> <<<<96 + i>>, <<"int", i>>>>]>>}

M(indent, tab, newline, space) == [indent |-> indent, tab |-> tab, newline |-> newline, space |-> space]
Layouts == {M(0, 0, FALSE, FALSE), M(0, 0, TRUE, TRUE), M(2, 3, TRUE, FALSE)}

Wanted(text, w) == [text |-> text, wanted |-> w]
WrittenTexts ==
  {Wanted(UnparseText(v, m, 0), <<IF v[1] = "str" THEN Str0(ReadBack(v[2])) ELSE v>>) :
     v \in Primitives \cup NestedValues, m \in Layouts}

Quoted(s) == <<Quote>> \o s \o <<Quote>>
U(h) == <<Bs, LowU>> \o h
HighSur == U(<<68, 56, 51, 52>>)
LowSur == U(<<68, 68, 49, 69>>)
RefusedTexts ==
  {<<>>, <<91, 44, 93>>, <<91, 49, 93, 93>>, <<123, 49, 125>>, <<123, 34, 34, 58, 125>>, <<45>>, <<49, 46>>, <<49, 101, 43>>,
   <<48, 49>>, <<110, 117, 108>>, <<116, 114, 117, 49>>, <<34, a>>, Quoted(<<10>>), Quoted(<<128>>), Quoted(<<195, a>>),
   Quoted(<<224, 159, 128>>), Quoted(<<237, 160, 128>>), Quoted(<<240, 143, 128, 128>>), Quoted(<<244, 144, 128, 128>>),
   Quoted(<<226, 130, a>>), Quoted(<<Bs, a>>), Quoted(U(<<48, 48, 48, 48>>)), Quoted(U(<<48, 48, 49, 103>>)),
   Quoted(LowSur), Quoted(HighSur), Quoted(HighSur \o <<a>>), Quoted(HighSur \o <<Bs, Bs>>), Quoted(HighSur \o HighSur),
   <<91, 91, 91, 91, 91, 93, 93, 93, 93, 93>>}
AcceptedTexts ==
  {<<Quoted(HighSur \o LowSur), Str0(<<240, 157, 132, 158>>)>>,
   <<Quoted(U(<<48, 48, 101, 57>>) \o <<a>>), Str0(<<195, 169, a>>)>>,
   <<<<32, 91, 10, 49, 32, 44, 9, 50, 93>>, <<"arr", <<<<"int", 1>>, <<"int", 2>>>>>>>>,
   <<<<45, 48>>, <<"int", 0>>>>,
   <<<<123>> \o Quoted(<<a>>) \o <<58, 49, 44>> \o Quoted(<<a>>) \o <<58, 50, 125>>, <<"obj", <<<<<<a>>, <<"int", 2>>>>>>>>>>}

MCTexts == WrittenTexts \cup {Wanted(t, <<>>) : t \in RefusedTexts} \cup {Wanted(x[1], <<x[2]>>) : x \in AcceptedTexts}
=============================================================================
