-------------------------------- MODULE Wire --------------------------------
(***************************************************************************)
(* A client with a window of requests (src/mtclient.cc, KVConn of          *)
(* src/mtclient.hh) and the server thread of its connection (conn,         *)
(* tcp_threadfunc, udp_threadfunc and onego of src/mtd.cc), with buffered  *)
(* output (src/kvio.cc).  Both ends read what the socket has, in pieces of *)
(* any size, into buffers in which the strings of a message stay: a buffer *)
(* is kept until the message is done.                                      *)
(*                                                                         *)
(* The table is a function from keys to rows; the tree itself is modelled  *)
(* elsewhere.  A buffer holds the bytes written to it since it was last    *)
(* begun, so a string that lies in bytes written over is out of its reach. *)
(***************************************************************************)
EXTENDS Msgpack, FiniteSets, TLC

CONSTANTS
  Programs,   \* bound: what the client calls, in order
  InBufSize,  \* conn::inbufsz, KVConn::inbufsz
  OutCap,     \* capacity of a new kvout
  Window,     \* window, a power of two
  FirstSeq    \* bound: requests answered before

ASSUME WireAssumption == InBufSize \in Nat \ {0} /\ OutCap \in Nat \ {0} /\ Window \in {1, 2, 4} /\ FirstSeq \in Nat

VARIABLES
  udp,        \* the client uses UDP
  srv,        \* the server's end: bufs, pos, p, out, cap; pc and rel
  cli,        \* the client's end and its window
  toSrv,      \* TCP: bytes on the way; UDP: datagrams
  toCli,
  rows,       \* the table
  sent,       \* requests not yet handled, as the client meant them
  owed,       \* replies not yet taken by the client, as the server meant them
  last        \* the last request handled: wanted, seen, logged

wireVars == <<udp, srv, cli, toSrv, toCli, rows, sent, owed, last>>

Byte(n) == <<"int", n>>
Text(s) == <<"str", s, <<>>>>

-----------------------------------------------------------------------------
(* kvout: unparsing flushes when an item does not fit.                     *)
RECURSIVE Grown(_, _)
Grown(cap, want) == IF want > cap THEN Grown(2 * cap, want) ELSE cap
Reserve(o, n) ==
  IF Len(o.out) + n <= o.cap THEN o
  ELSE [out |-> <<>>, cap |-> Grown(o.cap, Len(o.out) + n), gone |-> o.gone \o o.out]
Written(e, v) ==
  FoldLeft(LAMBDA o, i : LET r == Reserve(o, i.room) IN [r EXCEPT !.out = @ \o i.bytes],
           [out |-> e.out, cap |-> e.cap, gone |-> <<>>], Items(v))

-----------------------------------------------------------------------------
(* The input side, the same code at both ends.  A datagram always fits.    *)
BufSize == IF udp THEN 8 * InBufSize ELSE InBufSize
Inbuf(e) == Last(e.bufs)
Left(e) == Len(Inbuf(e)) - e.pos

(* receive, as far as the bytes read go.                                   *)
RECURSIVE Drained(_)
Moved(e, r) == [e EXCEPT !.p = r.p, !.pos = @ + r.k]
Drained(e) ==
  IF Done(e.p) \/ Left(e) = 0 THEN e
  ELSE Drained(Moved(e, Consume(e.p, Rest(Inbuf(e), e.pos), <<Len(e.bufs), e.pos, BufSize>>)))

(* hard_check before its read: begin the buffer again, or a new one.       *)
MutMakeRoom(e) ==
  IF Empty(e.p) \/ e.pos = BufSize THEN [e EXCEPT !.bufs = <<<<>>>>, !.pos = 0]
  ELSE e
MakeRoom(e) ==
  CASE Empty(e.p) -> [e EXCEPT !.bufs = <<<<>>>>, !.pos = 0]
    [] ~Empty(e.p) /\ e.pos = BufSize -> [e EXCEPT !.bufs = Append(@, <<>>), !.pos = 0]
    [] OTHER -> e
GotBytes(e, s) == Drained([e EXCEPT !.bufs = Front(@) \o <<Inbuf(e) \o s>>])
Room(e) == BufSize - Len(Inbuf(e))

(* The strings of a message are read where they lie.                       *)
RECURSIVE Seen(_, _)
Seen(v, bufs) ==
  CASE v[1] = "str" ->
         IF v[3] = <<>> THEN Text(v[2])
         ELSE LET k == v[3][1]
                  a == v[3][2]
                  n == Len(v[2])
              IN  IF k <= Len(bufs) /\ a + n <= Len(bufs[k]) THEN Text(SubSeq(bufs[k], a + 1, a + n)) ELSE Text(<<0>>)
    [] v[1] = "arr" -> <<"arr", [i \in DOMAIN v[2] |-> Seen(v[2][i], bufs)]>>
    [] OTHER -> v

-----------------------------------------------------------------------------
(* onego.  f is the request; result: the reply, the table, what is logged. *)
Column(row, c) == IF c < Len(row) THEN row[c + 1] ELSE <<>>
Updated(row, changes) ==
  FoldLeft(LAMBDA r, i : LET c == changes[2 * i - 1][2]
                         IN  [j \in 1..(IF Len(r) > c THEN Len(r) ELSE c + 1) |->
                                IF j = c + 1 THEN changes[2 * i][2] ELSE Column(r, j - 1)],
           row, [i \in 1..(Len(changes) \div 2) |-> i])
Fields(row, f) == IF f = <<>> THEN [i \in DOMAIN row |-> Text(row[i])]
                  ELSE [i \in DOMAIN f |-> Text(Column(row, f[i][2]))]
Fields1(row, f) == IF Len(Fields(row, f)) = 1 THEN Fields(row, f)[1] ELSE <<"arr", Fields(row, f)>>

RECURSIVE Before(_, _)
Before(s, t) == t # <<>> /\ (s = <<>> \/ s[1] < t[1] \/ (s[1] = t[1] /\ Before(Tail(s), Tail(t))))
Sorted(keys) == SetToSortSeq(keys, Before)

(* query_json_scanner: at most n of the keys, each with its row.           *)
RunScan(keys, n, f) ==
  FoldLeft(LAMBDA r, k : IF Len(r) < 2 * n THEN r \o <<Text(k), Fields1(rows[k], f)>> ELSE r, <<>>, keys)

NoLog == [key |-> <<>>, kept |-> TRUE, changes |-> <<>>]

(* onego.  The client sends six commands, and columns always in pairs: the *)
(* size check of a put and the answer to an unknown command are left out.  *)
OneGo(req, recent, kept) ==
  LET f == req[2]
      command == f[2][2]
      key == f[3][2]
      found == key \in DOMAIN rows
      answer(rest) == <<"arr", <<f[1], Byte(command + 1)>> \o rest>>
      result(rest, table, log) == [reply |-> answer(rest), rows |-> table, log |-> log]
      status == <<Byte(IF found THEN 2 ELSE 1)>>
      columns == Rest(f, 3)
      \* the client's own bytes if the whole request is in the buffer
      changes == IF recent # <<>> THEN ParseChangeset(SkipPrimitives(SkipArraySize(recent), 3)) ELSE columns
  IN  CASE command = 12 -> result(<<>>, rows, NoLog)
        [] command = 2 -> result(IF found THEN Fields(rows[key], Rest(f, 3)) ELSE Rest(f, 2), rows, NoLog)
        [] command = 6 -> result(status, key :> Updated(IF found THEN rows[key] ELSE <<>>, columns) @@ rows,
                                 [key |-> key, kept |-> kept, changes |-> changes])
        [] command = 8 -> result(status, key :> <<f[4][2]>> @@ rows,
                                 [key |-> key, kept |-> kept, changes |-> <<f[4]>>])
        [] command = 10 -> result(<<<<"bool", found>>>>, [k \in DOMAIN rows \ {key} |-> rows[k]],
                                  IF found THEN [key |-> key, kept |-> TRUE, changes |-> <<>>] ELSE NoLog)
        [] OTHER -> result(RunScan(Sorted({k \in DOMAIN rows : ~Before(k, key)}), f[4][2], Rest(f, 4)), rows, NoLog)

-----------------------------------------------------------------------------
(* The server's thread.                                                    *)
SrvBegin ==
  /\ ~udp /\ srv.pc = "idle"
  /\ Left(srv) > 0 \/ toSrv # <<>> \/ cli.pc = "done"
  /\ srv' = [Drained(srv) EXCEPT !.pc = "receive", !.rel = srv.pos]
  /\ UNCHANGED <<udp, cli, toSrv, toCli, rows, sent, owed, last>>

(* hard_check(2): replies are flushed before the read.                     *)
SrvRead ==
  /\ srv.pc = "receive" /\ ~Done(srv.p)
  /\ \E e \in {MakeRoom(srv)}, k \in 1..Len(toSrv) :
       /\ k <= Room(e)
       /\ srv' = [GotBytes(e, SubSeq(toSrv, 1, k)) EXCEPT !.out = <<>>, !.rel = @ - (srv.pos - e.pos)]
       /\ toSrv' = Rest(toSrv, k)
  /\ toCli' = toCli \o srv.out
  /\ UNCHANGED <<udp, cli, rows, sent, owed, last>>

(* A request is done: it is executed, and the reply is flushed unless more *)
(* input waits in the buffer.                                              *)
MutFlushes(e) == FALSE
Flushes(e) == Left(e) = 0
Recent(e) == IF e.rel \in 0..e.pos THEN SubSeq(Inbuf(e), e.rel + 1, e.pos) ELSE <<>>
InBuffer(v) == v[1] = "str" /\ v[3] # <<>>
SrvHandle ==
  /\ srv.pc = "receive" /\ srv.p.state = "final" /\ srv.p.json[1] = "arr"
  /\ \E seen \in {Seen(srv.p.json, srv.bufs)} :
     \E r \in {OneGo(seen, Recent(srv), Len(seen[2]) > 2 => InBuffer(srv.p.json[2][3]))} :
     \E o \in {Written(srv, r.reply)} :
       /\ srv' = [srv EXCEPT !.p = [Reset(@) EXCEPT !.json = <<"arr", <<>>>>],
                             !.out = IF Flushes(srv) THEN <<>> ELSE o.out, !.cap = o.cap, !.pc = "idle"]
       /\ toCli' = toCli \o o.gone \o (IF Flushes(srv) THEN o.out ELSE <<>>)
       /\ rows' = r.rows
       /\ last' = [want |-> sent[1], seen |-> seen, log |-> r.log]
       /\ sent' = Tail(sent) /\ owed' = Append(owed, r.reply)
  /\ UNCHANGED <<udp, cli, toSrv>>

(* End of file, or what is no request.                                     *)
EndOfFile == toSrv = <<>> /\ cli.pc = "done"
SrvClose ==
  /\ srv.pc = "receive"
  /\ IF Done(srv.p) THEN srv.p.state = "error" \/ srv.p.json[1] # "arr" ELSE EndOfFile
  /\ srv' = [srv EXCEPT !.pc = "closed", !.out = <<>>] /\ toCli' = toCli \o srv.out
  /\ UNCHANGED <<udp, cli, toSrv, rows, sent, owed, last>>

(* udp_threadfunc: the datagram is written over the one before it, and the *)
(* whole buffer is parsed; srv.bufs[1] is the buffer.                      *)
Seq0(msg) == msg[2][1][2]
WithSeq(msgs, seq) == CHOOSE j \in DOMAIN msgs : Seq0(msgs[j]) = seq
Accepted(p) == p.state = "final" /\ p.json[1] = "arr"
SrvDatagram ==
  /\ udp
  /\ \E i \in DOMAIN toSrv :
     \E buf \in {toSrv[i] \o Rest(srv.bufs[1], Len(toSrv[i]))} :
     \E c \in {Consume(Reset(srv.p), buf, <<1, 0, BufSize>>)} :
       /\ toSrv' = RemoveAt(toSrv, i)
       /\ IF ~Accepted(c.p)
          THEN srv' = [srv EXCEPT !.bufs = <<buf>>, !.p = c.p] /\ UNCHANGED <<toCli, rows, last, sent, owed>>
          ELSE \E seen \in {Seen(c.p.json, <<buf>>)} :
               \E r \in {OneGo(seen, SubSeq(buf, 1, c.k), TRUE)}, which \in {WithSeq(sent, Seq0(seen))} :
                 /\ srv' = [srv EXCEPT !.bufs = <<buf>>, !.p = [c.p EXCEPT !.json = <<"arr", <<>>>>]]
                 /\ toCli' = Append(toCli, Unparse(r.reply))
                 /\ rows' = r.rows
                 /\ last' = [want |-> sent[which], seen |-> seen, log |-> r.log]
                 /\ sent' = RemoveAt(sent, which) /\ owed' = Append(owed, r.reply)
  /\ UNCHANGED <<udp, cli>>

-----------------------------------------------------------------------------
(* The client.  Sending appends to its output; UDP flushes every request.  *)
Arrive(wire, bytes) == IF bytes = <<>> THEN wire ELSE IF udp THEN Append(wire, bytes) ELSE wire \o bytes

Slot(seq) == (seq % Window) + 1
Full == cli.seq1 - cli.seq0 >= Window
HalfMask == (Window - 1) \div 2 + 1
Request(op, seq) == <<"arr", <<<<"uint", seq>>>> \o op>>
Meant(op, seq) == <<"arr", <<Byte(seq)>> \o op>>

(* check_flush before a call.                                              *)
CliFlush ==
  /\ cli.pc = "next" /\ cli.todo # <<>> /\ ~cli.todo[1].sync
  /\ IF cli.seq1 % HalfMask = 0
     THEN toSrv' = Arrive(toSrv, cli.out) /\ cli' = [cli EXCEPT !.pc = "window", !.out = <<>>]
     ELSE toSrv' = toSrv /\ cli' = [cli EXCEPT !.pc = "window"]
  /\ UNCHANGED <<udp, srv, toCli, rows, sent, owed, last>>

(* aget, aput, aput_col, aremove, scans.                                   *)
CliSend ==
  /\ cli.pc = "window" /\ ~Full
  /\ \E o \in {Written(cli, Request(cli.todo[1].op, cli.seq1))} :
       /\ cli' = [cli EXCEPT !.pc = "next", !.todo = Tail(@), !.out = IF udp THEN <<>> ELSE o.out, !.cap = o.cap,
                             !.a[Slot(cli.seq1)] = [seq |-> cli.seq1, acked |-> FALSE], !.seq1 = @ + 1]
       /\ toSrv' = Arrive(Arrive(toSrv, o.gone), IF udp THEN o.out ELSE <<>>)
  /\ sent' = Append(sent, Meant(cli.todo[1].op, cli.seq1))
  /\ UNCHANGED <<udp, srv, toCli, rows, owed, last>>

(* checkasync: 1 from a full window, 2 at the end.  The output is flushed. *)
CliWait ==
  /\ \/ cli.pc = "window" /\ Full
     \/ cli.pc = "next" /\ cli.todo = <<>> /\ cli.seq0 # cli.seq1
  /\ cli' = [Drained(cli) EXCEPT !.pc = "recv", !.force = IF cli.pc = "next" THEN 2 ELSE 1, !.out = <<>>]
  /\ toSrv' = Arrive(toSrv, cli.out)
  /\ UNCHANGED <<udp, srv, toCli, rows, sent, owed, last>>

CliRead ==
  /\ cli.pc = "recv" /\ ~Done(cli.p)
  /\ \E e \in {MakeRoom(cli)} :
       IF udp
       THEN \E i \in DOMAIN toCli : cli' = GotBytes(e, toCli[i]) /\ toCli' = RemoveAt(toCli, i)
       ELSE \E k \in 1..Len(toCli) :
              k <= Room(e) /\ cli' = GotBytes(e, SubSeq(toCli, 1, k)) /\ toCli' = Rest(toCli, k)
  /\ UNCHANGED <<udp, srv, toSrv, rows, sent, owed, last>>

(* A reply: its assertions, and the window moves.  Afterwards checkasync   *)
(* goes on without force as long as something has come.                    *)
RECURSIVE Acked(_, _, _)
Acked(a, seq0, seq1) == IF seq0 # seq1 /\ a[Slot(seq0)].acked THEN Acked(a, seq0 + 1, seq1) ELSE seq0
Asserted(e, rseq) ==
  /\ rseq - e.seq0 \in 0..(e.seq1 - e.seq0 - 1)
  /\ e.a[Slot(rseq)] = [seq |-> rseq, acked |-> FALSE]
CliReply ==
  /\ cli.pc = "recv" /\ cli.force \notin {3, 4} /\ Accepted(cli.p)
  /\ \E reply \in {Seen(cli.p.json, cli.bufs)} :
     \E rseq \in {Seq0(reply)} :
     \E which \in {WithSeq(owed, rseq)}, a \in {[cli.a EXCEPT ![Slot(rseq)].acked = TRUE]} :
     \E seq0 \in {Acked(a, cli.seq0, cli.seq1)} :
     \E e \in {[cli EXCEPT !.p = Reset(@), !.a = a, !.seq0 = seq0, !.reply = <<owed[which], reply>>,
                           !.ok = Asserted(cli, rseq)]} :
       /\ owed' = RemoveAt(owed, which)
       /\ \/ /\ seq0 = cli.seq1 \/ (cli.force # 2 /\ Left(cli) = 0)
             /\ cli' = [e EXCEPT !.pc = IF cli.force = 2 THEN "next" ELSE "window"]
          \/ /\ seq0 # cli.seq1 /\ (cli.force = 2 \/ Left(cli) > 0)
             /\ cli' = Drained([e EXCEPT !.force = IF @ = 2 THEN 2 ELSE 0])
          \/ \* select says that more has come
             /\ seq0 # cli.seq1 /\ cli.force # 2 /\ Left(cli) = 0 /\ toCli # <<>>
             /\ cli' = [e EXCEPT !.force = 0]
  /\ UNCHANGED <<udp, srv, toSrv, toCli, rows, sent, last>>

(* get, put and remove wait for their reply; nothing may be outstanding.   *)
(* A checkpoint is asked for with the number 0 and uses none up.           *)
CallSeq(op) == IF op = <<Byte(12)>> THEN 0 ELSE cli.seq1
CliCall ==
  /\ cli.pc = "next" /\ cli.todo # <<>> /\ cli.todo[1].sync /\ cli.seq0 = cli.seq1
  /\ \E op \in {cli.todo[1].op} :
     \E o \in {Written(cli, Request(op, CallSeq(op)))} :
       /\ cli' = [cli EXCEPT !.pc = "recv", !.force = IF op = <<Byte(12)>> THEN 4 ELSE 3,
                             !.todo = Tail(@), !.out = <<>>, !.cap = o.cap]
       /\ toSrv' = Arrive(Arrive(toSrv, o.gone), o.out)
       /\ sent' = Append(sent, Meant(op, CallSeq(op)))
  /\ UNCHANGED <<udp, srv, toCli, rows, owed, last>>

CliReturn ==
  /\ cli.pc = "recv" /\ cli.force \in {3, 4} /\ Accepted(cli.p)
  /\ \E reply \in {Seen(cli.p.json, cli.bufs)}, used \in {IF cli.force = 3 THEN 1 ELSE 0} :
     \E which \in {WithSeq(owed, Seq0(reply))} :
       /\ cli' = [cli EXCEPT !.p = Reset(@), !.seq0 = @ + used, !.seq1 = @ + used, !.pc = "next",
                             !.reply = <<owed[which], reply>>, !.ok = cli.force = 3 => Seq0(reply) = cli.seq1]
       /\ owed' = RemoveAt(owed, which)
  /\ UNCHANGED <<udp, srv, toSrv, toCli, rows, sent, last>>

CliDone ==
  /\ cli.pc = "next" /\ cli.todo = <<>> /\ cli.seq0 = cli.seq1
  /\ cli' = [cli EXCEPT !.pc = "done"]
  /\ UNCHANGED <<udp, srv, toSrv, toCli, rows, sent, owed, last>>

(* A datagram may be lost.                                                 *)
Lose ==
  /\ udp
  /\ \/ \E i \in DOMAIN toSrv : toSrv' = RemoveAt(toSrv, i) /\ toCli' = toCli
     \/ \E i \in DOMAIN toCli : toCli' = RemoveAt(toCli, i) /\ toSrv' = toSrv
  /\ UNCHANGED <<udp, srv, cli, rows, sent, owed, last>>

-----------------------------------------------------------------------------
(* A UDP client's output never grows: one request is one datagram.          *)
End == [bufs |-> <<<<>>>>, pos |-> 0, p |-> Parser, out |-> <<>>, cap |-> IF udp THEN 8 * OutCap ELSE OutCap]
WireInit ==
  /\ udp \in BOOLEAN
  /\ srv = End @@ [pc |-> "idle", rel |-> 0]
  /\ \E prog \in Programs :
       cli = End @@ [pc |-> "next", todo |-> prog, seq0 |-> FirstSeq, seq1 |-> FirstSeq, force |-> 0, ok |-> TRUE,
                     a |-> [i \in 1..Window |-> [seq |-> 0, acked |-> TRUE]], reply |-> <<<<"null">>, <<"null">>>>]
  /\ toSrv = <<>> /\ toCli = <<>> /\ sent = <<>> /\ owed = <<>>
  /\ rows = [k \in {} |-> <<>>]
  /\ last = [want |-> <<"null">>, seen |-> <<"null">>, log |-> NoLog]

WireNext ==
  \/ SrvBegin \/ SrvRead \/ SrvHandle \/ SrvClose \/ SrvDatagram
  \/ CliFlush \/ CliSend \/ CliWait \/ CliRead \/ CliReply \/ CliCall \/ CliReturn \/ CliDone \/ Lose

-----------------------------------------------------------------------------
(* Properties.                                                             *)

(* However the bytes are cut and buffered, the server executes the         *)
(* requests the client made, what it logs for a put are the columns of the *)
(* request, and the client takes the reply the server gave to the request  *)
(* its slot is for; no assertion of checkasync fails.                      *)
RequestsExact ==
  /\ last.seen = last.want
  /\ last.log.changes # <<>> =>
       /\ last.log.changes = Rest(last.want[2], 3)
       /\ last.log.kept => last.log.key = last.want[2][3][2]
  /\ cli.reply[1] = cli.reply[2]
  /\ cli.ok

(* Over TCP nobody waits for ever: when the client blocks in a read and    *)
(* nothing is on the way to it, the server still has something to do.      *)
AnswersArrive ==
  ~udp /\ cli.pc = "recv" /\ ~Done(cli.p) /\ toCli = <<>> =>
    \/ toSrv # <<>>
    \/ srv.pc = "idle" /\ Left(srv) > 0
    \/ srv.pc = "receive" /\ Done(srv.p)
=============================================================================
