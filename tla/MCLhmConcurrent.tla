-------------------------- MODULE MCLhmConcurrent ---------------------------
(* Instances of LhmConcurrent for TLC: what each of two threads calls.     *)
EXTENDS LhmConcurrent

CONSTANTS t1, t2

MCThreads == {t1, t2}

MkdirCall(path) == [op |-> "mkdir", src |-> path, dst |-> path, ref |-> 1]
CreatCall(path) == [op |-> "creat", src |-> path, dst |-> path, ref |-> 1]
RemoveCall(path) == [op |-> "remove", src |-> path, dst |-> path, ref |-> 1]
RenameCall(s, d) == [op |-> "rename", src |-> s, dst |-> d, ref |-> 1]

(* f, g and h share a hash.                                                *)
MCNames == {"d", "e", "f", "g", "h"}
MCHash == [n \in MCNames |-> CASE n = "d" -> 1 [] n = "e" -> 2 [] OTHER -> 3]

Two(s, t) == [p \in MCThreads |-> IF p = t1 THEN s ELSE t]

(* One thread makes and renames directories while the other makes more and *)
(* creates and removes files in them.                                      *)
RenamerCalls ==
  {MkdirCall(<<"d">>)}
  \cup {RenameCall(<<"d">>, t) : t \in {<<"e">>, <<"e", "d">>, <<"f", "e">>}}
  \cup {RenameCall(s, <<"d">>) : s \in {<<"e">>, <<"e", "d">>, <<"f", "e">>}}
WorkerCalls ==
  {MkdirCall(<<"e">>), MkdirCall(<<"f">>), MkdirCall(<<"d", "e">>), MkdirCall(<<"d", "d">>),
   CreatCall(<<"d", "f">>), CreatCall(<<"e", "f">>), RemoveCall(<<"d", "f">>)}
Renames == [width |-> 2, calls |-> Two(RenamerCalls, WorkerCalls),
            names |-> {"d", "e", "f"}, dirs |-> 3, buckets |-> 2]

(* The renaming thread also fills the conflict chain of the root.          *)
ChainCalls == {CreatCall(<<"g">>), CreatCall(<<"h">>), RemoveCall(<<"g">>)}
Chains == [Renames EXCEPT !.calls = Two(RenamerCalls \cup ChainCalls, WorkerCalls),
                          !.names = MCNames, !.dirs = 2]

MCScenes == {Renames, Chains}
=============================================================================
