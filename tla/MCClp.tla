------------------------------- MODULE MCClp --------------------------------
(* Command lines for TLC: an option table like the ones of mtd.cc and      *)
(* mttest.cc, and every way to write short commands for it.                *)
EXTENDS Clp

Opt(name, c, i, ty, opti, ne) ==
  [long |-> name, short |-> c, id |-> i, type |-> ty, optional |-> opti, negate |-> ne,
   preferred |-> FALSE]

ant == <<"a", "n", "t">>
axe == <<"a", "x", "e">>
bee == <<"b", "e", "e">>
v == <<"v">>
one == <<"1">>
dash == <<"-", "b">>

MCOptions ==
  <<Opt(ant, "a", "ant", "string", FALSE, FALSE),
    Opt(axe, "b", "axe", "none", FALSE, TRUE),
    Opt(bee, "c", "bee", "int", TRUE, FALSE),
    Opt(NoPrefix \o <<"o", "w", "l">>, "o", "owl", "none", FALSE, FALSE),
    Opt(<<"x", "-", "r">>, "NUL", "x-r", "stringnotoption", FALSE, FALSE),
    [Opt(<<"b", "e">>, "NUL", "be", "none", FALSE, FALSE) EXCEPT !.preferred = TRUE],
    Opt(<<"l", "s">>, "l", "ls", "list", FALSE, FALSE),
    Opt(<<"t">>, "NUL", "t", "bool", FALSE, FALSE)>>

MCItems == <<<<"c", "a", "t">>, <<"c", "a", "t", "t">>, <<"d", "o", "g">>>>

(* One option as written: its arguments; whether it begins with a short    *)
(* option, and whether short options may follow in the same argument.      *)
WrittenAs(a, s, o) == [argv |-> a, short |-> s, open |-> o]
Long(text) == <<"-", "-">> \o text
Dashed(text) == <<"-">> \o text

WithLong(names, val) ==
  UNION {{WrittenAs(<<Long(n) \o <<"=">> \o val>>, FALSE, FALSE),
          WrittenAs(<<Long(n), val>>, FALSE, FALSE)} : n \in names}

(* What is wanted, and the ways to write it.                               *)
Says(i, n, x) == [id |-> i, negated |-> n, val |-> x]
Phrases ==
  {[wanted |-> Says("ant", FALSE, x),
    ways |-> WithLong({ant, <<"a", "n">>}, x)
             \cup {WrittenAs(<<Dashed(<<"a", "=">> \o x)>>, TRUE, FALSE),
                   WrittenAs(<<Dashed(<<"a">>), x>>, TRUE, FALSE),
                   WrittenAs(<<Dashed(<<"a">> \o x)>>, TRUE, FALSE)}] : x \in {v, dash}}
  \cup {[wanted |-> Says("axe", FALSE, NullText),
         ways |-> {WrittenAs(<<Long(<<"a", "x">>)>>, FALSE, FALSE),
                   WrittenAs(<<Long(NoPrefix \o NoPrefix \o axe)>>, FALSE, FALSE),
                   WrittenAs(<<Dashed(<<"b">>)>>, TRUE, TRUE)}],
        [wanted |-> Says("axe", TRUE, NullText),
         ways |-> {WrittenAs(<<Long(NoPrefix \o <<"a">>)>>, FALSE, FALSE)}],
        [wanted |-> Says("bee", FALSE, NullText),
         ways |-> {WrittenAs(<<Long(bee)>>, FALSE, FALSE), WrittenAs(<<Dashed(<<"c">>)>>, TRUE, TRUE)}],
        [wanted |-> Says("bee", FALSE, one),
         ways |-> {WrittenAs(<<Long(bee \o <<"=", "1">>)>>, FALSE, FALSE),
                   WrittenAs(<<Dashed(<<"c", "1">>)>>, TRUE, FALSE)}],
        [wanted |-> Says("owl", TRUE, NullText),
         ways |-> {WrittenAs(<<Long(NoPrefix \o <<"o", "w">>)>>, FALSE, FALSE),
                   WrittenAs(<<Dashed(<<"o">>)>>, TRUE, TRUE)}],
        [wanted |-> Says("x-r", FALSE, v),
         ways |-> WithLong({<<"x">>, <<"x", "r">>, <<"x", "-", "r">>}, v)],
        [wanted |-> Says("be", FALSE, NullText),
         ways |-> {WrittenAs(<<Long(<<"b">>)>>, FALSE, FALSE)}],
        [wanted |-> Says("ls", FALSE, MCItems[1]), ways |-> WithLong({<<"l">>}, MCItems[1])],
        [wanted |-> Says("t", FALSE, <<"y">>), ways |-> WithLong({<<"t">>}, <<"y">>)],
        [wanted |-> Says("bad", FALSE, NullText),
         ways |-> {WrittenAs(<<Long(<<"a">>)>>, FALSE, FALSE),
                   WrittenAs(<<Dashed(<<"z">>)>>, TRUE, TRUE),
                   WrittenAs(<<Long(<<"t", "=", "d">>)>>, FALSE, FALSE),
                   WrittenAs(<<Long(<<"l", "=", "c", "a">>)>>, FALSE, FALSE)}],
        [wanted |-> Says("not", FALSE, v), ways |-> {WrittenAs(<<v>>, FALSE, FALSE)}],
        [wanted |-> Says("not", FALSE, <<"-">>), ways |-> {WrittenAs(<<<<"-">>>>, FALSE, FALSE)}]}

(* Two phrases in a row, the second one perhaps in the clump of the first; *)
(* the commands may end with "--" and an argument that looks like an       *)
(* option.                                                                 *)
Ways == UNION {{[wanted |-> p.wanted, way |-> w] : w \in p.ways} : p \in Phrases}
Joined(x, y, clump) ==
  IF clump /\ x.open /\ y.short
  THEN SubSeq(x.argv, 1, Len(x.argv) - 1)
       \o <<x.argv[Len(x.argv)] \o SubSeq(y.argv[1], 2, Len(y.argv[1]))>> \o Tail(y.argv)
  ELSE x.argv \o y.argv

DoneAnswer == Says("done", FALSE, NullText)
Script(argv, w) == [options |-> MCOptions, oclass |-> <<<<"-", {"short"}>>>>, argv |-> argv,
                    max |-> Len(w), wanted |-> w, free |-> FALSE, chars |-> {}]

Commands ==
  {Script(Joined(x.way, y.way, clump) \o more.argv,
          <<x.wanted, y.wanted>> \o more.wanted \o <<DoneAnswer>>)
   : x \in Ways, y \in Ways, clump \in BOOLEAN,
     more \in {[argv |-> <<>>, wanted |-> <<>>],
               [argv |-> <<<<"-", "-">>, dash>>, wanted |-> <<Says("not", FALSE, dash)>>]}}

(* Calls in any order on a few command lines.                              *)
FreeCalls(c, n, chars) ==
  [options |-> MCOptions, oclass |-> <<<<"-", {"short"}>>>>, argv |-> c, max |-> n,
   wanted |-> <<>>, free |-> TRUE, chars |-> chars]
FreeScripts ==
  {FreeCalls(<<Dashed(<<"b", "c", "b">>), v>>, 3, {}),
   FreeCalls(<<Dashed(<<"a">>), dash, <<"+", "a">>>>, 2, {<<"+", {"longneg"}>>, <<"NUL", {"short"}>>}),
   FreeCalls(<<Long(<<"x">>), dash, <<"a", "x", "e">>>>, 3, {<<"NUL", {"implicit"}>>}),
   FreeCalls(<<Dashed(axe), <<"-", "-">>, dash>>, 2,
        {<<"-", {"short", "long"}>>, <<"+", {}>>, <<"a", {}>>, <<"b", {}>>})}

MCScripts == Commands \cup FreeScripts
=============================================================================
