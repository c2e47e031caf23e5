------------------------------- MODULE MCWire -------------------------------
(* Programs of three or four requests for the client.                      *)
EXTENDS Wire

K == Text(<<107>>)
V == Text(<<118>>)
PutCol == <<Byte(6), K, Byte(1), V>>
ReplaceRow == <<Byte(8), K, Text(<<>>)>>
GetRow == <<Byte(2), K>>
GetCol == <<Byte(2), K, Byte(1)>>
RemoveRow == <<Byte(10), K>>
Checkpoint == <<Byte(12)>>
ScanRows == <<Byte(4), Text(<<>>), Byte(2)>>
Async(op) == [op |-> op, sync |-> FALSE]
Sync(op) == [op |-> op, sync |-> TRUE]
MCPrograms ==
  {<<Async(PutCol), Async(GetRow), Async(RemoveRow), Async(GetRow)>>,
   <<Sync(ReplaceRow), Async(ScanRows), Async(GetCol)>>,
   <<Sync(GetRow), Sync(Checkpoint), Async(PutCol), Async(ScanRows)>>}
=============================================================================
