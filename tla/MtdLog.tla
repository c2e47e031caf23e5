------------------------------- MODULE MtdLog -------------------------------
(***************************************************************************)
(* The logs of the server: one buffer and one logger thread per log,       *)
(* threads that change rows and record the changes, epochs, quiescence,    *)
(* and checkpoints (log.cc, mtd.cc, kvrow.hh).                             *)
(*                                                                         *)
(* A query locks its log while it holds the lock of the leaf and keeps the *)
(* log locked until the change is recorded, so a query is two steps, Query *)
(* and Record, unless the buffer is full.  What a logger writes reaches    *)
(* the file when fsync returns (Flush); MtdRecovery says what a crash      *)
(* before that leaves.                                                     *)
(***************************************************************************)
EXTENDS Rows

CONSTANTS
    Writers, Logs,      \* query threads and logs
    LogOf,              \* prepare_thread: the log a thread records in
    Keys,
    Commands,           \* the kinds of change the clients may ask for first, second, ...
    BufCap,             \* len_, in records
    MaxEpoch,           \* bound: epochs that pass
    MaxWrites,          \* bound: changes made
    MaxCheckpoints      \* bound: checkpoints begun

\* room that record() wants: an epoch, a wake and the change itself
RecordRoom == 3

ASSUME LogsAssumption == Logs # {} /\ Logs \subseteq Nat
ASSUME LogOfAssumption == LogOf \in [Writers -> Logs]
ASSUME BoundsAssumption ==
    /\ BufCap \in Nat /\ MaxEpoch \in Nat /\ MaxWrites \in Nat /\ MaxCheckpoints \in Nat
    /\ BufCap >= RecordRoom
ASSUME CommandsAssumption ==
    Commands \in [1..MaxWrites -> SUBSET {"put", "replace", "remove"}]

VARIABLES
    phase,      \* "up"; "replay" and "aborted" belong to MtdRecovery
    epoch,      \* global_log_epoch
    wake,       \* global_wake_epoch
    table,      \* the tree: an entry per key
    phantom,    \* phantom_epoch_ of the leaf
    ts,         \* ts_ of each query thread
    op,         \* the change a thread has made and not yet recorded
    lg,         \* loginfo of each log
    file,       \* the log files
    ckpt,       \* the checkpoint committed on disk
    ck,         \* the checkpointer
    hist,       \* history: what was done to each key, in order
    made        \* history: how many changes were made

logVars == <<phase, epoch, wake, table, phantom, ts, op, lg, file, ckpt, ck, hist, made>>

NoWriter == "none"
Idle == [pc |-> "idle"]
NoCheckpoint == [min |-> 0, max |-> 0, quiet |-> FALSE, rows |-> [k \in Keys |-> Absent]]

FreshLog ==
    [buf |-> << >>, log_epoch |-> 0, quiescent_epoch |-> 0, wake_epoch |-> 0,
     flushed_epoch |-> 0, lock |-> NoWriter, waiting |-> << >>,
     x |-> << >>, x_epoch |-> 0]

Checkpointing == [pc |-> "idle", n |-> 0, min |-> 0, max |-> 0, todo |-> {},
                  rows |-> NoCheckpoint.rows, logs |-> {}, mfe |-> 0, ge |-> 0, quiet |-> FALSE]

EpochRec(e) == [cmd |-> "epoch", epoch |-> e]
WakeRec == [cmd |-> "wake"]
QuiesceRec == [cmd |-> "quiesce"]
KvRec(o) == [cmd |-> LogCommand(o.cmd, o.prev), key |-> o.key, ts |-> o.ts,
             prev |-> o.prev, id |-> o.id]

\* A new server in its second epoch, in which every logger has run once and
\* said that its log is quiescent.  Nothing in run() makes a query or a
\* checkpoint wait for that; a log whose file is still empty then is left out.
LogInit ==
    /\ phase = "up" /\ epoch = 2 /\ wake = 0
    /\ table = [k \in Keys |-> Absent] /\ phantom = 0
    /\ ts = [w \in Writers |-> 2]
    /\ op = [w \in Writers |-> Idle]
    /\ lg = [l \in Logs |-> [FreshLog EXCEPT !.log_epoch = 1, !.quiescent_epoch = 1,
                                              !.flushed_epoch = 1]]
    /\ file = [l \in Logs |-> << EpochRec(1), QuiesceRec >>]
    /\ ckpt = NoCheckpoint /\ ck = Checkpointing
    /\ hist = [k \in Keys |-> << >>] /\ made = 0

-----------------------------------------------------------------------------
(* Queries                                                                  *)

\* run_put, run_replace, run_remove up to finish: the log is locked and the
\* epoch read while the leaf is locked
Query(w, cmd, k) ==
    LET l  == LogOf[w]
        e  == table[k]
        t  == QueryTs(e, ts[w], phantom)
        id == made + 1
        after == Changed(cmd, e, t, id)
    IN  /\ phase = "up" /\ op[w] = Idle /\ lg[l].lock = NoWriter
        /\ made < MaxWrites /\ cmd \in Commands[id]
        /\ cmd = "remove" => e # Absent
        /\ ts' = [ts EXCEPT ![w] = t]
        /\ table' = [table EXCEPT ![k] = after]
        /\ phantom' = IF cmd = "remove" /\ phantom <= t THEN t + 2 ELSE phantom
        /\ op' = [op EXCEPT ![w] = [pc |-> "record", cmd |-> cmd, key |-> k, id |-> id,
                                    epoch |-> epoch, ts |-> t, prev |-> PrevTs(cmd, e)]]
        /\ lg' = [lg EXCEPT ![l].lock = w]
        /\ hist' = [hist EXCEPT ![k] =
                        Append(@, [epoch |-> epoch, log |-> l, id |-> id, ts |-> t,
                                   val |-> IF after = Absent THEN {} ELSE Head(after).val])]
        /\ made' = id
        /\ UNCHANGED <<phase, epoch, wake, file, ckpt, ck>>

\* a log that wakes from quiescence raises global_wake_epoch
WakeAfter(g, o) == IF g.quiescent_epoch # 0 THEN Max({wake, o.epoch}) ELSE wake

\* the wake epoch this log has to know: never ahead of the query's epoch
WakeSeen(g, o) ==
    LET we == WakeAfter(g, o)
    IN  IF we # g.wake_epoch /\ o.epoch < we THEN o.epoch ELSE we

HasRoom(g, w) ==
    /\ BufCap - Len(g.buf) >= RecordRoom
    /\ IF Contains(g.waiting, w) THEN Head(g.waiting) = w ELSE TRUE

\* the loginfo after record() has stored a change
Recorded(g, w, o) ==
    LET ep == IF o.epoch # g.log_epoch THEN << EpochRec(o.epoch) >> ELSE << >>
        wk == IF WakeSeen(g, o) # g.wake_epoch THEN << WakeRec >> ELSE << >>
    IN  [g EXCEPT
            !.buf = @ \o ep \o wk \o << KvRec(o) >>,
            !.log_epoch = o.epoch,
            !.flushed_epoch = IF g.quiescent_epoch # 0 /\ @ = g.quiescent_epoch
                              THEN o.epoch ELSE @,
            !.quiescent_epoch = 0,
            !.wake_epoch = WakeSeen(g, o),
            !.waiting = IF @ # << >> /\ Head(@) = w THEN Tail(@) ELSE @,
            !.lock = NoWriter]

Record(w) ==
    LET l == LogOf[w]
    IN  /\ op[w].pc = "record" /\ lg[l].lock = w /\ HasRoom(lg[l], w)
        /\ lg' = [lg EXCEPT ![l] = Recorded(@, w, op[w])]
        /\ wake' = WakeAfter(lg[l], op[w])
        /\ op' = [op EXCEPT ![w] = Idle]
        /\ UNCHANGED <<phase, epoch, table, phantom, ts, file, ckpt, ck, hist, made>>

\* no room: join the waiting list and let go of the lock
Stall(w) ==
    LET l == LogOf[w]
    IN  /\ op[w].pc = "record" /\ lg[l].lock = w /\ ~HasRoom(lg[l], w)
        /\ lg' = [lg EXCEPT ![l].waiting = IF Contains(@, w) THEN @ ELSE Append(@, w),
                            ![l].lock = NoWriter]
        /\ op' = [op EXCEPT ![w].pc = "nap"]
        /\ UNCHANGED <<phase, epoch, wake, table, phantom, ts, file, ckpt, ck, hist, made>>

Reacquire(w) ==
    LET l == LogOf[w]
    IN  /\ op[w].pc = "nap" /\ lg[l].lock = NoWriter
        /\ lg' = [lg EXCEPT ![l].lock = w]
        /\ op' = [op EXCEPT ![w].pc = "record"]
        /\ UNCHANGED <<phase, epoch, wake, table, phantom, ts, file, ckpt, ck, hist, made>>

-----------------------------------------------------------------------------
(* Loggers                                                                  *)

\* the start of an iteration of run(): a wake of another log is noted ...
Noted(g) ==
    IF g.wake_epoch # wake THEN [g EXCEPT !.wake_epoch = wake, !.quiescent_epoch = 0] ELSE g

\* ... and an idle log says that it is quiescent
Quiesces(g) ==
    /\ g.buf = << >> /\ g.quiescent_epoch = 0 /\ g.waiting = << >>
    /\ epoch # g.log_epoch /\ epoch # wake

Prepared(g) ==
    IF Quiesces(g)
    THEN [g EXCEPT !.quiescent_epoch = epoch, !.log_epoch = epoch,
                   !.buf = << EpochRec(epoch) >>
                           \o (IF epoch = g.wake_epoch THEN << WakeRec >> ELSE << >>)
                           \o << QuiesceRec >>]
    ELSE g

\* what is in the buffer is taken to be written
Taken(g) == [g EXCEPT !.x = g.buf, !.x_epoch = g.log_epoch, !.buf = << >>]

LoggerRun(l) ==
    LET g == Prepared(Noted(lg[l]))
    IN  /\ phase = "up" /\ lg[l].lock = NoWriter /\ lg[l].x = << >>
        /\ lg' = [lg EXCEPT ![l] = IF g.buf # << >> THEN Taken(g) ELSE g]
        /\ lg' # lg
        /\ UNCHANGED <<phase, epoch, wake, table, phantom, ts, op, file, ckpt, ck, hist, made>>

\* write and fsync have returned
Flush(l) ==
    /\ phase = "up" /\ lg[l].x # << >>
    /\ file' = [file EXCEPT ![l] = @ \o lg[l].x]
    /\ lg' = [lg EXCEPT ![l].flushed_epoch = lg[l].x_epoch, ![l].x = << >>]
    /\ UNCHANGED <<phase, epoch, wake, table, phantom, ts, op, ckpt, ck, hist, made>>

\* check_epoch, by logger 0
CheckEpoch ==
    /\ phase = "up" /\ epoch < MaxEpoch
    /\ epoch' = epoch + 1
    /\ UNCHANGED <<phase, wake, table, phantom, ts, op, lg, file, ckpt, ck, hist, made>>

-----------------------------------------------------------------------------
(* Checkpoints: conc_checkpointer.  Every key is visited by one of the      *)
(* checkpoint threads, which run side by side.                              *)

CkBegin ==
    /\ phase = "up" /\ ck.pc = "idle" /\ ck.n < MaxCheckpoints
    /\ ck' = [Checkpointing EXCEPT !.pc = "scan", !.n = ck.n + 1, !.min = epoch, !.todo = Keys]
    /\ UNCHANGED <<phase, epoch, wake, table, phantom, ts, op, lg, file, ckpt, hist, made>>

\* ckstate::visit_value
CkVisit(k) ==
    /\ phase = "up" /\ ck.pc = "scan" /\ k \in ck.todo
    /\ ck' = [ck EXCEPT !.todo = @ \ {k},
                        !.rows[k] = IF table[k] # Absent /\ ~IsMarker(Head(table[k]))
                                    THEN table[k] ELSE Absent]
    /\ UNCHANGED <<phase, epoch, wake, table, phantom, ts, op, lg, file, ckpt, hist, made>>

\* prepare_checkpoint, once every thread has written its file
CkPrepare ==
    /\ phase = "up" /\ ck.pc = "scan" /\ ck.todo = {}
    /\ ck' = [ck EXCEPT !.pc = "prepared", !.max = epoch]
    /\ UNCHANGED <<phase, epoch, wake, table, phantom, ts, op, lg, file, ckpt, hist, made>>

\* max_flushed_epoch looks at one log after the other
CkCheck ==
    /\ phase = "up" /\ ck.pc = "prepared"
    /\ ck' = [ck EXCEPT !.pc = "check", !.logs = Logs, !.mfe = 0, !.ge = epoch]
    /\ UNCHANGED <<phase, epoch, wake, table, phantom, ts, op, lg, file, ckpt, hist, made>>

FlushedOf(g) ==
    IF g.quiescent_epoch # 0 /\ g.quiescent_epoch = g.flushed_epoch
    THEN ck.ge ELSE g.flushed_epoch

CkLook(l) ==
    LET fe == FlushedOf(lg[l])
    IN  /\ phase = "up" /\ ck.pc = "check" /\ ck.logs # {} /\ l = Min(ck.logs)
        /\ ck' = [ck EXCEPT !.logs = @ \ {l},
                            !.mfe = IF @ = 0 \/ fe < @ THEN fe ELSE @,
                            !.quiet = @ \/ fe # lg[l].flushed_epoch]
        /\ UNCHANGED <<phase, epoch, wake, table, phantom, ts, op, lg, file, ckpt, hist, made>>

MutCommittable == ck.mfe = 0 \/ ck.mfe >= ck.max

\* commit_checkpoint if every log is flushed past the checkpoint
Committable == ck.mfe = 0 \/ ck.mfe > ck.max

CkCommit ==
    /\ phase = "up" /\ ck.pc = "check" /\ ck.logs = {}
    /\ IF Committable
       THEN /\ ckpt' = [min |-> ck.min, max |-> ck.max, quiet |-> ck.quiet, rows |-> ck.rows]
            /\ ck' = [Checkpointing EXCEPT !.n = ck.n]
       ELSE ck' = [ck EXCEPT !.pc = "prepared", !.mfe = 0, !.ge = 0, !.quiet = FALSE] /\ UNCHANGED ckpt
    /\ UNCHANGED <<phase, epoch, wake, table, phantom, ts, op, lg, file, hist, made>>

-----------------------------------------------------------------------------
LogNext ==
    \/ \E w \in Writers, cmd \in {"put", "replace", "remove"}, k \in Keys : Query(w, cmd, k)
    \/ \E w \in Writers : Record(w) \/ Stall(w) \/ Reacquire(w)
    \/ \E l \in Logs : LoggerRun(l) \/ Flush(l) \/ CkLook(l)
    \/ \E k \in Keys : CkVisit(k)
    \/ CheckEpoch \/ CkBegin \/ CkPrepare \/ CkCheck \/ CkCommit
=============================================================================
