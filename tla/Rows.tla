-------------------------------- MODULE Rows --------------------------------
(***************************************************************************)
(* Rows, their timestamps, and the two ways a change reaches a row: a      *)
(* query of a running server (kvrow.hh) and a log record that is replayed  *)
(* (log.cc).                                                               *)
(*                                                                         *)
(* An entry of the table is a sequence of rows, newest first: <<>> is an   *)
(* absent key, a running server keeps one row, and replay may put delta    *)
(* markers in front of it.  The contents of a row are abstracted to the    *)
(* set of the changes that made it.                                        *)
(***************************************************************************)
EXTENDS Naturals, Sequences, FiniteSetsExt, SequencesExt

Absent == << >>

Row(ts, val) == [kind |-> "row", ts |-> ts, prev |-> 0, val |-> val]

\* row_is_marker: odd timestamps
IsMarker(row) == row.ts % 2 = 1

\* ts | 1, the timestamp of a marker
MarkerTs(ts) == 2 * (ts \div 2) + 1

Delta(ts, prev, val) == [kind |-> "delta", ts |-> MarkerTs(ts), prev |-> prev, val |-> val]

IsDelta(row) == IsMarker(row) /\ row.kind = "delta"

-----------------------------------------------------------------------------
(* Queries.  e is the entry found under the leaf's lock, t the timestamp    *)
(* of the thread, ph the leaf's phantom_epoch.                              *)

\* threadinfo::update_timestamp(x)
UpdateTimestamp(t, x) == IF t <= x THEN MarkerTs(x) + 1 ELSE t

MutQueryTs(e, t, ph) == IF e = Absent THEN t ELSE UpdateTimestamp(t, Head(e).ts)

\* the timestamp a change gets: after the row it replaces, or after what was
\* removed from the leaf
QueryTs(e, t, ph) ==
    IF e = Absent THEN (IF t < ph THEN ph ELSE t) ELSE UpdateTimestamp(t, Head(e).ts)

\* query_times::prev_ts; apply_put starts afresh on a marker
PrevTs(cmd, e) ==
    IF e = Absent \/ (cmd = "put" /\ IsMarker(Head(e))) THEN 0 ELSE Head(e).ts

\* apply_put, apply_replace, apply_remove
Changed(cmd, e, ts, id) ==
    CASE cmd = "remove"  -> Absent
      [] cmd = "replace" -> << Row(ts, {id}) >>
      [] cmd = "put"     ->
            IF e = Absent \/ IsMarker(Head(e))
            THEN << Row(ts, {id}) >>
            ELSE << Row(ts, Head(e).val \cup {id}) >>

\* the command recorded: an update of an existing row depends on that row
LogCommand(cmd, prev) ==
    IF cmd = "put" /\ prev # 0 /\ prev % 2 = 0 THEN "modify" ELSE cmd

-----------------------------------------------------------------------------
(* Replay of the record r on the entry e.                                   *)

\* how many delta markers are newer than the record
NewerDeltas(e, ts) ==
    Max({0} \cup {i \in 1..Len(e) : \A j \in 1..i : IsDelta(e[j]) /\ e[j].ts > ts})

\* a remove is replayed with a marker's timestamp
RecordTs(r) == IF r.cmd = "remove" THEN MarkerTs(r.ts) ELSE r.ts

OutOfDate(e, ts) ==
    LET older == SubSeq(e, NewerDeltas(e, ts) + 1, Len(e))
    IN  older # << >> /\ Head(older).ts >= ts

\* the oldest delta marker is applied to the row it was waiting for
Merged(e) ==
    LET n == Len(e)
    IN  IF n >= 2 /\ IsDelta(e[n - 1]) /\ ~IsDelta(e[n]) /\ e[n - 1].prev = e[n].ts
        THEN Append(SubSeq(e, 1, n - 2),
                    Row(e[n - 1].ts - 1, e[n].val \cup e[n - 1].val))
        ELSE e

\* ... and so on while there is one to apply
Recycled(e) ==
    LET after[i \in 0..Len(e)] == IF i = 0 THEN e ELSE Merged(after[i - 1])
    IN  after[Len(e)]

\* the entry behind the newer delta markers once the record is applied
Applied(older, r) ==
    CASE r.cmd \in {"put", "replace"} -> << Row(r.ts, {r.id}) >>
      [] r.cmd = "modify" ->
            IF older # << >> /\ Head(older).ts = r.prev
            THEN << Row(r.ts, Head(older).val \cup {r.id}) >>
            ELSE << Delta(r.ts, r.prev, {r.id}) >> \o older

\* logrecord::apply for the commands that change or replace a row
Replayed(e, r) ==
    LET n == NewerDeltas(e, RecordTs(r))
    IN  IF OutOfDate(e, RecordTs(r)) THEN e
        ELSE Recycled(SubSeq(e, 1, n) \o Applied(SubSeq(e, n + 1, Len(e)), r))

(* A remove that is not out of date cannot be replayed: apply hands the     *)
(* four bytes of its row_marker to parse_changeset, which expects a         *)
(* MessagePack string there and fails an assertion.                         *)
ReplayFails(e, r) == r.cmd = "remove" /\ ~OutOfDate(e, RecordTs(r))
=============================================================================
