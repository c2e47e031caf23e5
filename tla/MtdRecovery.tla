----------------------------- MODULE MtdRecovery -----------------------------
(***************************************************************************)
(* Crashes of the server and the recovery that follows (log.cc, mtd.cc):   *)
(* the checkpoint is read, the logs are analysed to find the epochs that   *)
(* can be replayed, every log is replayed by its own thread and cut off    *)
(* behind what was replayed.                                               *)
(***************************************************************************)
EXTENDS MtdLog

CONSTANTS
    MaxCrashes,         \* bound: crashes of a running server
    MaxReplayCrashes    \* bound: crashes of a server that is recovering

ASSUME CrashesAssumption == MaxCrashes \in Nat /\ MaxReplayCrashes \in Nat

VARIABLES
    rec,        \* rec_replay_min_epoch, rec_replay_max_epoch, and each replay
    crashes     \* how often the server crashed: up and in recovery

vars == <<logVars, rec, crashes>>

\* replayandclean1 before its first record; 0 is a null pointer
ReplayStart == [pos |-> 1, epoch |-> 0, begin |-> 0, end |-> 0, pc |-> "run"]

NoRecovery == [min |-> 0, max |-> 0, quiet |-> FALSE, rp |-> [l \in Logs |-> ReplayStart]]

Init == LogInit /\ rec = NoRecovery /\ crashes = [up |-> 0, replay |-> 0]

-----------------------------------------------------------------------------
(* What an analysis of the log files finds: logreplay::info                 *)

EpochsIn(f) == SelectSeq(f, LAMBDA r : r.cmd = "epoch")

FirstEpoch(f) == IF EpochsIn(f) = << >> THEN 0 ELSE Head(EpochsIn(f)).epoch

LastEpoch(f) == IF EpochsIn(f) = << >> THEN 0 ELSE Last(EpochsIn(f)).epoch

\* the epoch of the last wake command
WakeEpoch(f) ==
    LET Scan(a, r) ==
            IF r.cmd = "epoch"
            THEN [last |-> r.epoch, wake |-> IF a.wake > r.epoch THEN 0 ELSE a.wake]
            ELSE IF r.cmd = "wake" THEN [a EXCEPT !.wake = a.last] ELSE a
    IN  FoldLeft(Scan, [last |-> 0, wake |-> 0], f).wake

\* min_post_quiescent_wake_epoch: the first wake at or after epoch q
PostQuiescentWake(f, q) ==
    LET Scan(a, r) ==
            IF r.cmd = "epoch" THEN [a EXCEPT !.e = r.epoch]
            ELSE IF r.cmd = "wake" /\ a.found = 0 /\ a.e # 0 /\ a.e >= q
                 THEN [a EXCEPT !.found = a.e] ELSE a
    IN  FoldLeft(Scan, [e |-> 0, found |-> 0], f).found

\* the least value that is not 0, or 0
MinNonzero(S) == IF S \subseteq {0} THEN 0 ELSE Min(S \ {0})

-----------------------------------------------------------------------------
(* recover(): the bounds of the replay.  q says which logs count as         *)
(* quiescent; the entry of a log without records is not initialised.        *)

Quiescent(q) ==
    \A l \in Logs : file[l] # << >> => (q[l] <=> Last(file[l]).cmd = "quiesce")

\* history: some log has nothing on disk, or was quiescent there, or was so when
\* the checkpoint was committed
Quiet(q) == ckpt.quiet \/ \E l \in Logs : q[l] \/ LastEpoch(file[l]) = 0

MaxEpochSeen ==
    Max({LastEpoch(file[l]) : l \in Logs} \cup {IF ckpt.max = 0 THEN 0 ELSE ckpt.max + 1})

MaxFirstEpoch == Max({FirstEpoch(file[l]) : l \in Logs})

MaxWakeEpoch == Max({WakeEpoch(file[l]) : l \in Logs})

MinQuiescentLastEpoch(q) ==
    LET Scan(m, l) == IF q[l] /\ (m = 0 \/ m > LastEpoch(file[l])) THEN LastEpoch(file[l]) ELSE m
    IN  FoldLeft(Scan, 0, SetToSortSeq(Logs, <))

\* the wakes that a quiescent log may have missed, one per log
MissedWakes(q) ==
    LET m == MinQuiescentLastEpoch(q)
    IN  IF m = 0 \/ MaxWakeEpoch = 0 \/ m > MaxWakeEpoch THEN {}
        ELSE {PostQuiescentWake(file[l], m) : l \in {i \in Logs : m <= WakeEpoch(file[i])}}

MutReplayMax(q) == Min({MaxEpochSeen} \cup (MissedWakes(q) \ {0}))

ReplayMax(q) ==
    Min({MaxEpochSeen} \cup (MissedWakes(q) \ {0})
        \cup ({LastEpoch(file[l]) : l \in {i \in Logs : ~q[i]}} \ {0}))

\* always_assert in recover()
BoundsOK(max) ==
    ckpt.min # 0 => ckpt.min > MaxFirstEpoch /\ ckpt.min < max /\ ckpt.max < max

\* a crash keeps any part of what was being written
Crash ==
    /\ \/ /\ phase = "up" /\ crashes.up < MaxCrashes
          /\ crashes' = [crashes EXCEPT !.up = @ + 1]
       \/ /\ phase = "replay" /\ crashes.replay < MaxReplayCrashes
          /\ crashes' = [crashes EXCEPT !.replay = @ + 1]
    /\ \E n \in [Logs -> 0..BufCap] :
          /\ \A l \in Logs : n[l] <= Len(lg[l].x)
          /\ file' = [l \in Logs |-> file[l] \o SubSeq(lg[l].x, 1, n[l])]
    /\ phase' = "down"
    /\ epoch' = 1 /\ wake' = 0 /\ phantom' = 0
    /\ table' = [k \in Keys |-> Absent]
    /\ ts' = [w \in Writers |-> 2]
    /\ op' = [w \in Writers |-> Idle]
    /\ lg' = [l \in Logs |-> FreshLog]
    /\ ck' = [Checkpointing EXCEPT !.n = ck.n]
    /\ rec' = [NoRecovery EXCEPT !.quiet = phase = "replay" /\ rec.quiet]
    /\ UNCHANGED <<ckpt, hist, made>>

\* read_checkpoint and the analysis
Recover ==
    \E q \in [Logs -> BOOLEAN] :
        /\ phase = "down" /\ Quiescent(q)
        /\ phase' = IF BoundsOK(ReplayMax(q)) THEN "replay" ELSE "aborted"
        /\ table' = ckpt.rows
        /\ rec' = [NoRecovery EXCEPT !.min = ckpt.min, !.max = ReplayMax(q), !.quiet = rec.quiet \/ Quiet(q)]
        /\ UNCHANGED <<epoch, wake, phantom, ts, op, lg, file, ckpt, ck, hist, made, crashes>>

-----------------------------------------------------------------------------
(* replayandclean1                                                          *)

BeforeCheckpoint(e) == e = 0 \/ (rec.min # 0 /\ e < rec.min)

\* an epoch record: where the part to keep begins, and whether to stop here
BeginAt(l, e) ==
    LET p == rec.rp[l]
    IN  IF (rec.min # 0 /\ e < rec.min) \/ (rec.min = 0 /\ p.begin = 0) THEN p.pos ELSE p.begin

ReplayEpoch(l) ==
    LET p == rec.rp[l]
        e == file[l][p.pos].epoch
    IN  /\ phase = "replay" /\ p.pc = "run" /\ p.pos <= Len(file[l])
        /\ file[l][p.pos].cmd = "epoch"
        /\ phase' = IF BeginAt(l, e) = 0 THEN "aborted" ELSE phase
        /\ rec' = [rec EXCEPT !.rp[l] =
                      [p EXCEPT !.begin = BeginAt(l, e), !.end = p.pos, !.epoch = e,
                                !.pos = IF e >= rec.max THEN @ ELSE @ + 1,
                                !.pc = IF e >= rec.max THEN "cut" ELSE @]]
        /\ UNCHANGED <<epoch, wake, table, phantom, ts, op, lg, file, ckpt, ck, hist,
                       made, crashes>>

\* any other record; changes from before the checkpoint are skipped
ReplayRecord(l) ==
    LET p == rec.rp[l]
        r == file[l][p.pos]
        runs == r.cmd \notin {"wake", "quiesce"} /\ ~BeforeCheckpoint(p.epoch)
    IN  /\ phase = "replay" /\ p.pc = "run" /\ p.pos <= Len(file[l])
        /\ r.cmd # "epoch"
        /\ phase' = IF runs /\ ReplayFails(table[r.key], r) THEN "aborted" ELSE phase
        /\ table' = IF runs /\ ~ReplayFails(table[r.key], r)
                    THEN [table EXCEPT ![r.key] = Replayed(@, r)] ELSE table
        /\ rec' = [rec EXCEPT !.rp[l] =
                      [p EXCEPT !.pos = @ + 1, !.end = IF p.begin # 0 THEN p.pos ELSE @]]
        /\ UNCHANGED <<epoch, wake, phantom, ts, op, lg, file, ckpt, ck, hist, made, crashes>>

\* the log is rewritten: what lies outside [repbegin, repend) is dropped
ReplayCut(l) ==
    LET p == rec.rp[l]
    IN  /\ phase = "replay"
        /\ p.pc = "cut" \/ (p.pc = "run" /\ p.pos > Len(file[l]))
        /\ file' = [file EXCEPT ![l] = IF p.begin = 0 THEN << >> ELSE SubSeq(@, p.begin, p.end)]
        /\ rec' = [rec EXCEPT !.rp[l].pc = "done"]
        /\ UNCHANGED <<phase, epoch, wake, table, phantom, ts, op, lg, ckpt, ck, hist,
                       made, crashes>>

Replayed_All == phase = "replay" /\ \A l \in Logs : rec.rp[l].pc = "done"

DeltasLeft == \E k \in Keys : \E i \in DOMAIN table[k] : IsDelta(table[k][i])

\* the end of recover().  Its check that no delta marker is left compares
\* counters that the build does not have (ncounters is 0), so it never fails.
\* The history forgets what the cut leaves out.
RecoverDone ==
    /\ Replayed_All
    /\ phase' = "up"
    /\ epoch' = rec.max + 1
    /\ hist' = [k \in Keys |-> SelectSeq(hist[k], LAMBDA h : h.epoch < rec.max)]
    /\ UNCHANGED <<wake, table, phantom, ts, op, lg, file, ckpt, ck, rec, made, crashes>>

Next ==
    \/ LogNext /\ UNCHANGED <<rec, crashes>>
    \/ Crash \/ Recover \/ RecoverDone
    \/ \E l \in Logs : ReplayEpoch(l) \/ ReplayRecord(l) \/ ReplayCut(l)

Spec == Init /\ [][Next]_vars

-----------------------------------------------------------------------------
Visible(e) == IF e = Absent \/ IsMarker(Head(e)) THEN {} ELSE Head(e).val

\* what key k held at the end of the epoch before e
AsOf(k, e) ==
    LET before == SelectSeq(hist[k], LAMBDA h : h.epoch < e)
    IN  IF before = << >> THEN {} ELSE Last(before).val

\* After a crash, and after a crash during the recovery from it, every key is
\* back to what it held at the end of one and the same epoch
\* (rec_replay_max_epoch - 1), and no delta marker waits for a row: the
\* threads that replay the logs may do so in any order.  Of a server that had
\* a quiescent log see DeltasRecycled.
Recovered ==
    /\ \A k \in Keys : Visible(table[k]) = AsOf(k, rec.max)
    /\ ~DeltasLeft

ConsistentCut == Replayed_All /\ ~rec.quiet => Recovered

\* What the check at the end of recover() says, of a server that had quiescent
\* logs too: every change that survives finds the row it changed.
DeltasRecycled == Replayed_All => ~DeltasLeft

RemoveLogged == \E l \in Logs : \E i \in DOMAIN file[l] : file[l][i].cmd = "remove"

\* A server whose logs were all awake recovers: no assertion of recover or
\* replayandclean1 fails, unless a remove had to be replayed.
RecoveryPossible == phase = "aborted" => rec.quiet \/ RemoveLogged

\* Later changes of a key have later timestamps, whichever thread makes them
\* and also across a remove: the order in which replay puts them.
TimestampsOrdered ==
    \A k \in Keys : \A i, j \in DOMAIN hist[k] :
        i < j => MarkerTs(hist[k][i].ts) < hist[k][j].ts
=============================================================================
