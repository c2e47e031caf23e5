-------------------------- MODULE MCLhmSequential ---------------------------
(* Instances of LhmSequential for TLC: the names, hashes and calls of each *)
(* run.                                                                    *)
EXTENDS LhmSequential

CONSTANT MainThread

MCThreads == {MainThread}

MkdirCall(path, r) == [op |-> "mkdir", src |-> path, dst |-> path, ref |-> r]
CreatCall(path, r) == [op |-> "creat", src |-> path, dst |-> path, ref |-> r]
RemoveCall(path) == [op |-> "remove", src |-> path, dst |-> path, ref |-> 1]
RenameCall(s, d) == [op |-> "rename", src |-> s, dst |-> d, ref |-> 1]

d == <<"d">>
e == <<"e">>
f == <<"f">>
de == <<"d", "e">>
dd == <<"d", "d">>
df == <<"d", "f">>
ef == <<"e", "f">>

(* f, g, h and "long" share a hash.                                        *)
MCNames == {"d", "e", "f", "g", "h", "long"}
MCHash == [n \in MCNames |-> CASE n = "d" -> 1 [] n = "e" -> 2 [] OTHER -> 3]

(* Directory /d gets more children than a leaf holds and is not renamed;   *)
(* /e is renamed, into /d and back, and never overflows.                   *)
TreeCalls ==
  {MkdirCall(q, 2) : q \in {d, e, de, <<>>, <<"long">>}}
  \cup {CreatCall(q, 3) : q \in {d, f, df, dd, ef, <<>>, <<"d", "long">>}}
  \cup {RemoveCall(q) : q \in {d, e, de, f, df, dd, ef, <<>>}}
  \cup {RenameCall(s, t) : s \in {e, de}, t \in {e, de, <<"long">>}}
  \cup {RenameCall(s, t) : s \in {f, df}, t \in {e, df, ef}}
  \cup {RenameCall(d, <<"d", "d", "e">>), RenameCall(f, <<>>), RenameCall(e, ef)}
TreeScene == [width |-> 2, calls |-> [p \in MCThreads |-> TreeCalls],
          names |-> {"d", "e", "f", "long"}, dirs |-> 3, buckets |-> 1]

(* Files with one hash in the root, next to a directory with its own.      *)
ClashCalls ==
  {CreatCall(<<n>>, 2) : n \in {"f", "g", "h"}}
  \cup {CreatCall(<<n>>, 3) : n \in {"f", "d"}}
  \cup {RemoveCall(<<n>>) : n \in {"d", "f", "g", "h"}}
  \cup {MkdirCall(<<n>>, 2) : n \in {"f", "d"}}
  \cup {CreatCall(<<"d", "f">>, 2), RemoveCall(<<"d", "f">>)}
  \cup {RenameCall(<<"d", "f">>, <<"g">>), RenameCall(<<"d", "f">>, <<"d", "d">>)}
ClashScene == [width |-> 1, calls |-> [p \in MCThreads |-> ClashCalls],
          names |-> {"d", "f", "g", "h"}, dirs |-> 1, buckets |-> 3]

(* Files with one hash in a directory other than the root, and none with   *)
(* that hash in the root.                                                  *)
BelowCalls ==
  {MkdirCall(d, 2), CreatCall(<<"e">>, 3), RenameCall(df, <<"d", "g">>)}
  \cup {CreatCall(<<"d", n>>, 2) : n \in {"e", "f", "g", "h"}}
  \cup {RemoveCall(<<"d", n>>) : n \in {"e", "f", "g", "h"}}
  \cup {RemoveCall(d), RemoveCall(<<"e">>)}
BelowScene == [width |-> 2, calls |-> [p \in MCThreads |-> BelowCalls],
          names |-> {"d", "e", "f", "g", "h"}, dirs |-> 1, buckets |-> 3]

MCScenes == {TreeScene, ClashScene, BelowScene}

(* A directory that overflowed is renamed.                                 *)
SplitRenameCalls ==
  {MkdirCall(q, 2) : q \in {d, de}}
  \cup {CreatCall(q, 3) : q \in {df, dd}} \cup {RenameCall(d, e)}
SplitRename == {[width |-> 2, calls |-> [p \in MCThreads |-> SplitRenameCalls],
                 names |-> {"d", "e", "f"}, dirs |-> 2, buckets |-> 1]}
=============================================================================
