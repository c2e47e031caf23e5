---------------------------- MODULE MtdLogProofs ----------------------------
(***************************************************************************)
(* Timestamps: whichever threads change a key, and however often it is     *)
(* removed and made again in between, every change has a later timestamp   *)
(* than the marker of the one before.  Replay orders the records of a key  *)
(* by these timestamps alone.  For any number of threads, logs and keys.   *)
(***************************************************************************)
EXTENDS MtdRecovery, TLAPS

(* Even timestamps are those of rows; odd ones are left to markers.        *)
Timestamps == {n \in Nat : n % 2 = 0}

RowType == [kind : {"row"}, ts : Timestamps, prev : {0}, val : SUBSET Nat]

(* A key of a running server is absent or has one row.                     *)
Entries == {Absent} \cup {<< r >> : r \in RowType}

Changes == [epoch : Nat, log : Logs, id : Nat, ts : Timestamps, val : SUBSET Nat]

TypeOK ==
  /\ epoch \in Nat /\ made \in Nat /\ phantom \in Timestamps
  /\ ts \in [Writers -> Timestamps] /\ table \in [Keys -> Entries]
  /\ hist \in [Keys -> Seq(Changes)]

(* What the next change of a key looks at is no older than the changes     *)
(* before: the row it replaces or, when there is none, the leaf's          *)
(* phantom_epoch_.                                                         *)
NewestKept ==
  \A k \in Keys : \A i \in DOMAIN hist[k] :
    IF table[k] = Absent THEN MarkerTs(hist[k][i].ts) < phantom
    ELSE hist[k][i].ts <= Head(table[k]).ts

(* The server has not crashed, or it crashed once and its recovery, which  *)
(* may crash as well, is not over.                                         *)
FirstRun == crashes.up = 0
UntilRestart == FirstRun \/ (crashes.up = 1 /\ phase \in {"down", "replay"})

Inv ==
  /\ crashes \in [up : Nat, replay : Nat]
  /\ FirstRun => phase = "up" /\ TypeOK /\ NewestKept
  /\ UntilRestart => TimestampsOrdered

(* The marker of an even timestamp follows it, and the next even one       *)
(* follows the marker.                                                     *)
LEMMA MarkerFollows ==
  ASSUME NEW t \in Timestamps
  PROVE  /\ MarkerTs(t) = t + 1 /\ MarkerTs(t) + 1 \in Timestamps
         /\ \A u \in Timestamps : t < u => MarkerTs(t) < u
BY DEF Timestamps, MarkerTs

(* update_timestamp and assign_timestamp: the timestamp of a change is     *)
(* even, and past the marker of the row it replaces or past the leaf's     *)
(* phantom_epoch_.                                                         *)
LEMMA QueryTsFollows ==
  ASSUME NEW e \in Entries, NEW t \in Timestamps, NEW ph \in Timestamps
  PROVE  /\ QueryTs(e, t, ph) \in Timestamps
         /\ e = Absent => ph <= QueryTs(e, t, ph)
         /\ e # Absent => MarkerTs(Head(e).ts) < QueryTs(e, t, ph)
<1>1. CASE e = Absent
  BY <1>1 DEF QueryTs, Timestamps
<1>2. CASE e # Absent
  <2>1. Head(e).ts \in Timestamps
    BY <1>2 DEF Entries, RowType
  <2>2. QueryTs(e, t, ph) = IF t <= Head(e).ts THEN MarkerTs(Head(e).ts) + 1 ELSE t
    BY <1>2 DEF QueryTs, UpdateTimestamp
  <2> QED
    BY <2>1, <2>2, <1>2, MarkerFollows DEF Timestamps
<1> QED
  BY <1>1, <1>2

(* A query leaves a row with its timestamp, or nothing if it removed it.   *)
LEMMA ChangedRow ==
  ASSUME NEW cmd \in {"put", "replace", "remove"}, NEW e \in Entries,
         NEW t \in Timestamps, NEW id \in Nat
  PROVE  /\ Changed(cmd, e, t, id) \in Entries
         /\ Changed(cmd, e, t, id) = Absent <=> cmd = "remove"
         /\ cmd # "remove" => /\ Head(Changed(cmd, e, t, id)).ts = t
                              /\ Head(Changed(cmd, e, t, id)).val \in SUBSET Nat
<1> DEFINE r1 == Row(t, {id})
           r2 == Row(t, Head(e).val \cup {id})
<1>1. r1 \in RowType /\ r1.ts = t /\ r1.val \in SUBSET Nat
  BY DEF Row, RowType
<1>r. \A r \in RowType : << r >> \in Entries /\ << r >> # Absent /\ Head(<< r >>) = r
  BY DEF Entries, Absent
<1>2. CASE cmd = "remove"
  BY <1>2 DEF Changed, Entries, Absent
<1>3. CASE cmd # "remove" /\ Changed(cmd, e, t, id) = << r1 >>
  BY <1>1, <1>3, <1>r
<1>4. CASE cmd = "put" /\ e # Absent /\ Changed(cmd, e, t, id) = << r2 >>
  <2>1. Head(e).val \in SUBSET Nat
    BY <1>4 DEF Entries, RowType
  <2>2. r2 \in RowType /\ r2.ts = t /\ r2.val \in SUBSET Nat
    BY <2>1 DEF Row, RowType
  <2> QED
    BY <2>2, <1>4, <1>r
<1>5. \/ cmd = "remove"
      \/ cmd # "remove" /\ Changed(cmd, e, t, id) = << r1 >>
      \/ cmd = "put" /\ e # Absent /\ Changed(cmd, e, t, id) = << r2 >>
  BY DEF Changed
<1> QED
  BY <1>2, <1>3, <1>4, <1>5

(* A query keeps the invariant: its timestamp is past everything that was  *)
(* done to the key.                                                        *)
LEMMA QueryOrdered ==
  ASSUME TypeOK, NewestKept, TimestampsOrdered,
         NEW w \in Writers, NEW cmd \in {"put", "replace", "remove"}, NEW k \in Keys,
         Query(w, cmd, k)
  PROVE  TypeOK' /\ NewestKept' /\ TimestampsOrdered'
<1> DEFINE e == table[k]
           t == QueryTs(e, ts[w], phantom)
           id == made + 1
           after == Changed(cmd, e, t, id)
           h == [epoch |-> epoch, log |-> LogOf[w], id |-> id, ts |-> t,
                 val |-> IF after = Absent THEN {} ELSE Head(after).val]
           n == Len(hist[k])
<1>1. e \in Entries /\ ts[w] \in Timestamps /\ phantom \in Timestamps /\ id \in Nat
  BY DEF TypeOK
<1>2. /\ t \in Timestamps
      /\ e = Absent => phantom <= t
      /\ e # Absent => MarkerTs(Head(e).ts) < t
  BY <1>1, QueryTsFollows
<1>3. /\ after \in Entries
      /\ after = Absent <=> cmd = "remove"
      /\ cmd # "remove" => Head(after).ts = t /\ Head(after).val \in SUBSET Nat
  <2> HIDE DEF t, e, id
  <2> QED
    BY <1>1, <1>2, ChangedRow
<1>4. h \in Changes
  <2>1. LogOf[w] \in Logs
    BY LogOfAssumption
  <2>2. (IF after = Absent THEN {} ELSE Head(after).val) \in SUBSET Nat
    BY <1>3
  <2>3. epoch \in Nat
    BY DEF TypeOK
  <2> HIDE DEF t, after, id
  <2> QED
    BY <1>1, <1>2, <2>1, <2>2, <2>3 DEF Changes
<1>5. /\ ts' = [ts EXCEPT ![w] = t]
      /\ table' = [table EXCEPT ![k] = after]
      /\ phantom' = IF cmd = "remove" /\ phantom <= t THEN t + 2 ELSE phantom
      /\ hist' = [hist EXCEPT ![k] = Append(@, h)]
      /\ made' = id /\ epoch' = epoch
  BY DEF Query
<1> HIDE DEF t, after, h, id
<1>6. phantom' \in Timestamps /\ phantom <= phantom' /\ (cmd = "remove" => t + 1 < phantom')
  BY <1>1, <1>2, <1>5 DEF Timestamps
<1>7. TypeOK'
  BY <1>1, <1>2, <1>3, <1>4, <1>5, <1>6 DEF TypeOK
<1>8. /\ \A j \in Keys : j # k => hist'[j] = hist[j] /\ table'[j] = table[j]
      /\ hist[k] \in Seq(Changes) /\ hist'[k] = Append(hist[k], h) /\ table'[k] = after
  BY <1>5 DEF TypeOK
<1>9. /\ n \in Nat /\ DOMAIN hist[k] = 1..n /\ DOMAIN hist'[k] = 1..(n + 1)
      /\ \A i \in 1..n : hist'[k][i] = hist[k][i] /\ hist[k][i].ts \in Timestamps
      /\ hist'[k][n + 1] = h /\ h.ts = t
  <2>1. \A i \in 1..n : hist[k][i] \in Changes
    BY <1>8
  <2>2. h.ts = t
    BY DEF h
  <2> QED
    BY <1>4, <1>8, <2>1, <2>2 DEF Changes
<1>10. \A i \in 1..n : MarkerTs(hist[k][i].ts) < t
  <2> SUFFICES ASSUME NEW i \in 1..n PROVE MarkerTs(hist[k][i].ts) < t
    OBVIOUS
  <2> DEFINE x == hist[k][i].ts
  <2>1. x \in Timestamps /\ MarkerTs(x) = x + 1
    BY <1>9, MarkerFollows
  <2>2. IF e = Absent THEN MarkerTs(x) < phantom ELSE x <= Head(e).ts
    BY <1>9 DEF NewestKept
  <2> HIDE DEF e, x
  <2>3. e = Absent => MarkerTs(x) < t
    BY <1>1, <1>2, <2>1, <2>2 DEF Timestamps
  <2>4. ASSUME e # Absent PROVE MarkerTs(x) < t
    <3> DEFINE y == Head(e).ts
    <3>1. y \in Timestamps
      BY <1>1, <2>4 DEF Entries, RowType
    <3>2. x <= y /\ MarkerTs(y) < t
      BY <1>2, <2>2, <2>4
    <3> HIDE DEF y
    <3>3. MarkerTs(y) = y + 1
      BY <3>1, MarkerFollows
    <3> QED
      BY <1>2, <2>1, <3>1, <3>2, <3>3 DEF Timestamps
  <2> QED
    BY <2>3, <2>4 DEF x
<1>11. NewestKept'
  <2> SUFFICES ASSUME NEW j \in Keys, NEW i \in DOMAIN hist'[j]
               PROVE  IF table'[j] = Absent THEN MarkerTs(hist'[j][i].ts) < phantom'
                      ELSE hist'[j][i].ts <= Head(table'[j]).ts
    BY DEF NewestKept
  <2>1. CASE j # k
    <3>1. IF table[j] = Absent THEN MarkerTs(hist[j][i].ts) < phantom
          ELSE hist[j][i].ts <= Head(table[j]).ts
      BY <2>1, <1>8 DEF NewestKept
    <3>2. hist[j][i].ts \in Timestamps
      <4>1. hist[j] \in Seq(Changes) /\ i \in DOMAIN hist[j]
        BY <2>1, <1>8 DEF TypeOK
      <4>2. hist[j][i] \in Changes
        BY <4>1
      <4> QED
        BY <4>2 DEF Changes
    <3>3. MarkerTs(hist[j][i].ts) = hist[j][i].ts + 1
      BY <3>2, MarkerFollows
    <3> QED
      BY <2>1, <3>1, <3>2, <3>3, <1>1, <1>6, <1>8 DEF Timestamps
  <2>2. CASE j = k
    <3>1. hist'[k][i].ts \in Timestamps /\ hist'[k][i].ts <= t
      <4>1. CASE i \in 1..n
        <5> DEFINE y == hist[k][i].ts
        <5>1. y \in Timestamps /\ hist'[k][i].ts = y
          BY <4>1, <1>9
        <5>2. MarkerTs(y) < t
          BY <4>1, <1>10
        <5> HIDE DEF y
        <5>3. MarkerTs(y) = y + 1
          BY <5>1, MarkerFollows
        <5>4. y <= t
          BY <5>1, <5>2, <5>3, <1>2 DEF Timestamps
        <5> QED
          BY <5>1, <5>4
      <4>2. CASE i = n + 1
        BY <4>2, <1>2, <1>9 DEF Timestamps
      <4> QED
        BY <2>2, <1>9, <4>1, <4>2
    <3>2. MarkerTs(hist'[k][i].ts) = hist'[k][i].ts + 1
      BY <3>1, MarkerFollows
    <3> QED
      BY <2>2, <3>1, <3>2, <1>2, <1>3, <1>6, <1>8 DEF Timestamps
  <2> QED
    BY <2>1, <2>2
<1>12. TimestampsOrdered'
  <2> SUFFICES ASSUME NEW j \in Keys, NEW a \in DOMAIN hist'[j], NEW b \in DOMAIN hist'[j], a < b
               PROVE  MarkerTs(hist'[j][a].ts) < hist'[j][b].ts
    BY DEF TimestampsOrdered
  <2>1. CASE j # k
    BY <2>1, <1>8 DEF TimestampsOrdered
  <2>2. CASE j = k /\ b \in 1..n
    <3>1. a \in 1..n
      BY <2>2, <1>9
    <3> QED
      BY <2>2, <3>1, <1>9 DEF TimestampsOrdered
  <2>3. CASE j = k /\ b = n + 1
    <3>1. a \in 1..n
      BY <2>3, <1>9
    <3> QED
      BY <2>3, <3>1, <1>9, <1>10
  <2> QED
    BY <2>1, <2>2, <2>3, <1>9
<1> QED
  BY <1>7, <1>11, <1>12

(* The first state: nothing was done to any key.                           *)
LEMMA InitOrdered == Init => Inv
<1> SUFFICES ASSUME Init PROVE Inv
  OBVIOUS
<1>1. crashes = [up |-> 0, replay |-> 0] /\ phase = "up"
  BY DEF Init, LogInit
<1>2. TypeOK
  <2>1. 0 \in Timestamps /\ 2 \in Timestamps
    BY DEF Timestamps
  <2>2. table \in [Keys -> Entries]
    BY DEF Init, LogInit, Entries
  <2>3. hist \in [Keys -> Seq(Changes)]
    BY DEF Init, LogInit
  <2> QED
    BY <2>1, <2>2, <2>3 DEF Init, LogInit, TypeOK
<1>3. NewestKept /\ TimestampsOrdered
  BY DEF Init, LogInit, NewestKept, TimestampsOrdered
<1> QED
  BY <1>1, <1>2, <1>3 DEF Inv, FirstRun

(* Every other step of the running server leaves rows, timestamps and      *)
(* history alone.                                                          *)
LEMMA LogSteps ==
  ASSUME LogNext
  PROVE  /\ phase' = phase
         /\ \/ \E w \in Writers, cmd \in {"put", "replace", "remove"}, k \in Keys : Query(w, cmd, k)
            \/ /\ UNCHANGED <<table, phantom, ts, hist, made>>
               /\ epoch' \in {epoch, epoch + 1}
<1>1. ASSUME NEW w \in Writers, NEW cmd \in {"put", "replace", "remove"}, NEW k \in Keys,
             Query(w, cmd, k)
      PROVE  phase' = phase
  BY <1>1 DEF Query
<1>2. ASSUME NEW w \in Writers, Record(w) \/ Stall(w) \/ Reacquire(w)
      PROVE  UNCHANGED <<phase, epoch, table, phantom, ts, hist, made>>
  BY <1>2 DEF Record, Stall, Reacquire
<1>3. ASSUME NEW l \in Logs, LoggerRun(l) \/ Flush(l) \/ CkLook(l)
      PROVE  UNCHANGED <<phase, epoch, table, phantom, ts, hist, made>>
  BY <1>3 DEF LoggerRun, Flush, CkLook
<1>4. ASSUME NEW k \in Keys, CkVisit(k)
      PROVE  UNCHANGED <<phase, epoch, table, phantom, ts, hist, made>>
  BY <1>4 DEF CkVisit
<1>5. ASSUME CkBegin \/ CkPrepare \/ CkCheck \/ CkCommit
      PROVE  UNCHANGED <<phase, epoch, table, phantom, ts, hist, made>>
  BY <1>5 DEF CkBegin, CkPrepare, CkCheck, CkCommit
<1>6. ASSUME CheckEpoch
      PROVE  epoch' = epoch + 1 /\ UNCHANGED <<phase, table, phantom, ts, hist, made>>
  BY <1>6 DEF CheckEpoch
<1> QED
  BY <1>1, <1>2, <1>3, <1>4, <1>5, <1>6 DEF LogNext

(* A step of the server, a crash or a step of its recovery.                *)
LEMMA StepOrdered == Inv /\ [Next]_vars => Inv'
<1> SUFFICES ASSUME Inv, [Next]_vars PROVE Inv'
  OBVIOUS
<1>1. CASE LogNext /\ UNCHANGED <<rec, crashes>>
  <2>1. phase' = phase /\ crashes' = crashes
    BY <1>1, LogSteps
  <2>2. CASE \E w \in Writers, cmd \in {"put", "replace", "remove"}, k \in Keys : Query(w, cmd, k)
    <3>1. phase = "up"
      BY <2>2 DEF Query
    <3>2. CASE FirstRun
      <4>1. TypeOK /\ NewestKept /\ TimestampsOrdered
        BY <3>2 DEF Inv, UntilRestart
      <4>2. TypeOK' /\ NewestKept' /\ TimestampsOrdered'
        BY <2>2, <4>1, QueryOrdered
      <4> QED
        BY <2>1, <3>1, <4>2 DEF Inv
    <3> QED
      BY <2>1, <3>1, <3>2 DEF Inv, FirstRun, UntilRestart
  <2>3. CASE UNCHANGED <<table, phantom, ts, hist, made>> /\ epoch' \in {epoch, epoch + 1}
    <3>1. TypeOK => TypeOK'
      BY <2>3 DEF TypeOK
    <3>2. (NewestKept => NewestKept') /\ (TimestampsOrdered => TimestampsOrdered')
      BY <2>3 DEF NewestKept, TimestampsOrdered
    <3> QED
      BY <2>1, <3>1, <3>2 DEF Inv, FirstRun, UntilRestart
  <2> QED
    BY <1>1, <2>2, <2>3, LogSteps
<1>2. CASE Crash
  <2>1. hist' = hist /\ phase' = "down"
    BY <1>2 DEF Crash
  <2>2. /\ crashes' \in [up : Nat, replay : Nat]
        /\ \/ phase = "up" /\ crashes'.up = crashes.up + 1
           \/ phase = "replay" /\ crashes'.up = crashes.up
    BY <1>2 DEF Crash, Inv
  <2>3. ~FirstRun' /\ (UntilRestart' => UntilRestart)
    BY <2>1, <2>2 DEF Inv, FirstRun, UntilRestart
  <2> QED
    BY <2>1, <2>2, <2>3 DEF Inv, TimestampsOrdered
<1>3. CASE Recover \/ \E l \in Logs : ReplayEpoch(l) \/ ReplayRecord(l) \/ ReplayCut(l)
  <2>1. hist' = hist /\ crashes' = crashes /\ phase \in {"down", "replay"}
    BY <1>3 DEF Recover, ReplayEpoch, ReplayRecord, ReplayCut
  <2>2. ~FirstRun' /\ (UntilRestart' => UntilRestart)
    BY <2>1 DEF Inv, FirstRun, UntilRestart
  <2> QED
    BY <2>1, <2>2 DEF Inv, TimestampsOrdered
<1>4. CASE RecoverDone
  <2>1. crashes' = crashes /\ phase = "replay" /\ phase' \in {"up", "aborted"}
    BY <1>4 DEF RecoverDone, Replayed_All
  <2> QED
    BY <2>1 DEF Inv, FirstRun, UntilRestart
<1>5. CASE UNCHANGED vars
  BY <1>5 DEF Inv, vars, logVars, FirstRun, UntilRestart, TypeOK, NewestKept, TimestampsOrdered
<1> QED
  BY <1>1, <1>2, <1>3, <1>4, <1>5 DEF Next

(* The changes of every key have growing timestamps, until a server that   *)
(* crashed is up again, and the records that recovery reads were written   *)
(* in that order.                                                          *)
THEOREM TimestampsCorrect == Spec => [](UntilRestart => TimestampsOrdered)
<1>1. Inv => (UntilRestart => TimestampsOrdered)
  BY DEF Inv
<1> QED
  BY <1>1, InitOrdered, StepOrdered, PTL DEF Spec
=============================================================================
