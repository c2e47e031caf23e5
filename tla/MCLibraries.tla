---------------------------- MODULE MCLibraries -----------------------------
(* The code that the server, the client and the tests share, in one model: *)
(* a behaviour uses one of the parts, the others stay as they begin.       *)
EXTENDS MCClp, JsonStore, MCJsonParser, StringStore, MCStringText, MCMsgpack, MCWire

MCKeys == {"0", "1"}
MCIndexKey == <<"0", "1">>
MCHash == "0" :> 0 @@ "1" :> 1

MCTexts2 == {<<65>>}
MCCuts == {<<0, 1>>, <<1, 5>>, <<-1, 2>>, <<-3, -1>>}

VARIABLE part   \* the part that is used

ClpIdle ==
  /\ script = [FreeCalls(<<>>, 1, {}) EXCEPT !.options = <<>>]
  /\ clp = NewParser(<<>>, <<>>, <<>>)
  /\ clpSaved = <<>> /\ clpOut = <<>>
ParserIdle == jtext = Wanted(<<>>, <<>>) /\ jsp = StreamingParser /\ jpos = 0 /\ jdone = FALSE
StreamIdle == mp = [message |-> Message(<<193>>, <<>>, FALSE), pos |-> 0, p |-> Parser]
WireIdle == WireInit /\ udp /\ cli.todo[1] = Sync(ReplaceRow)

Init ==
  /\ part \in {"clp", "json", "parser", "string", "text", "msgpack", "wire"}
  /\ JsonInit /\ StringInit /\ TextInit
  /\ IF part = "clp" THEN ClpInit ELSE ClpIdle
  /\ IF part = "parser" THEN JspInit ELSE ParserIdle
  /\ IF part = "msgpack" THEN MpInit ELSE StreamIdle
  /\ IF part = "wire" THEN WireInit ELSE WireIdle

Next ==
  /\ part' = part
  /\ \/ /\ part = "clp" /\ ClpNextState
        /\ UNCHANGED <<jsonVars, parserVars, stringVars, text, mp, wireVars>>
     \/ /\ part = "json" /\ JsonNext
        /\ UNCHANGED <<clpVars, parserVars, stringVars, text, mp, wireVars>>
     \/ /\ part = "parser" /\ JspNext
        /\ UNCHANGED <<clpVars, jsonVars, stringVars, text, mp, wireVars>>
     \/ /\ part = "string" /\ StringNext
        /\ UNCHANGED <<clpVars, jsonVars, parserVars, text, mp, wireVars>>
     \/ /\ part = "text" /\ TextNext
        /\ UNCHANGED <<clpVars, jsonVars, parserVars, stringVars, mp, wireVars>>
     \/ /\ part = "msgpack" /\ MpNext
        /\ UNCHANGED <<clpVars, jsonVars, parserVars, stringVars, text, wireVars>>
     \/ /\ part = "wire" /\ WireNext
        /\ UNCHANGED <<clpVars, jsonVars, parserVars, stringVars, text, mp>>

(* The variables of a program are interchangeable, and so are the blocks.  *)
LibrarySymmetry == Permutations(JVars \cup SVars) \cup Permutations(BlockIds)
=============================================================================
