----------------------------- MODULE ServerConn -----------------------------
(* One connection of the HTTP server under reactor(), drive() and            *)
(* pump_stream(): server.vt. The peer, the socket buffers and the clock move  *)
(* between any two system calls of the server. A stream is a sequence of      *)
(* units <<request, position>>, so that a unit that is lost, repeated or read *)
(* as part of the wrong message is seen; a message on the way back is a       *)
(* sequence of units <<request, stage, position>>.                            *)
EXTENDS Integers, Sequences, FiniteSets

CONSTANTS
    Scripts,        \* the request streams a peer may send
    HasFactory,     \* body_sink != null
    Cap,            \* Conn.cap
    RecvChunk,      \* RECV_CHUNK
    StreamChunk,    \* stream_chunk_bytes
    MaxBody,        \* max_body_bytes
    MaxStreamed,    \* max_streamed_bytes
    MaxKeepalive,   \* max_keepalive_reqs
    TxCap           \* room in the kernel's send buffer

VARIABLES
    script,         \* what this peer sends
    next,           \* the next unit it will send
    peer,           \* "up", "eof" or "reset"
    rx, room,       \* received and not read; free space for sending
    wire,           \* history: every unit the server has sent
    cn,             \* the Conn
    status,         \* "none", "open", "closed" or "handed" (to an upgrade)
    pc, ret,        \* the server's place; which flush() it is in
    keep, drained, blocked,             \* locals of drive()
    late, expired,                      \* past cn.deadline, past drain_until
    running, draining,
    sinkGot, sinkTold,                  \* history: calls to each sink
    last,           \* history: the request whose response ends the connection
    mishaps         \* history: "backed", "shrunk", "tail", "poll", "coding"

peerVars == <<script, next, peer>>
sockVars == <<rx, room, wire>>
locals   == <<ret, keep, drained, blocked>>
clock    == <<late, expired>>
modes    == <<running, draining>>
sinks    == <<sinkGot, sinkTold>>
marks    == <<last, mishaps>>
vars     == <<peerVars, sockVars, cn, status, pc, locals, clock, modes, sinks, marks>>

Least(a, b) == IF a < b THEN a ELSE b
Drop(s, n)  == SubSeq(s, n + 1, Len(s))
Take(s, n)  == SubSeq(s, 1, Least(n, Len(s)))
Requests    == DOMAIN script
-----------------------------------------------------------------------------
(* parse_head(). A head is a record: bad is the status its request line or   *)
(* header syntax earns (0 if none), cl the Content-Length values (-1 for one  *)
(* that is not a number), te the Transfer-Encoding values.                    *)

\* Every length some reader of the head could take the body to have.
Readings(h) ==
    {h.cl[i] : i \in DOMAIN h.cl}
        \cup IF \E i \in DOMAIN h.te : h.te[i] # "identity" THEN {0, 1}
             ELSE IF h.cl = <<>> THEN {0} ELSE {}

ASSUME ScriptsAssumption ==
    \A s \in Scripts : \A i \in DOMAIN s :
        /\ i \in Nat \ {0}
        /\ s[i].head \in Nat \ {0} /\ s[i].resp \in Nat \ {0} /\ s[i].file \in Nat
        /\ s[i].cl \in Seq(Int) /\ s[i].te \in Seq(STRING)
        /\ s[i].upgrade \in BOOLEAN
        /\ s[i].sink \subseteq BOOLEAN /\ s[i].sink # {}
        /\ s[i].body \in Readings(s[i]) \cap Nat

ASSUME SizesAssumption ==
    /\ {Cap, RecvChunk, StreamChunk, MaxKeepalive, TxCap} \subseteq Nat \ {0}
    /\ {MaxBody, MaxStreamed} \subseteq Nat

BodyCap == IF HasFactory /\ MaxStreamed > MaxBody THEN MaxStreamed ELSE MaxBody

\* Two Content-Length values are accepted and the first one is used.
Malformed_FirstLengthWins(h) ==
    \/ h.hosts > 1 \/ (h.minor = 1 /\ h.hosts = 0)
    \/ h.te # <<>> /\ (h.cl # <<>> \/ h.te[Len(h.te)] \notin {"chunked", "identity"})
    \/ h.cl # <<>> /\ h.cl[1] < 0

Malformed(h) ==
    \/ h.hosts > 1 \/ (h.minor = 1 /\ h.hosts = 0)
    \/ Len(h.cl) > 1
    \/ h.te # <<>> /\ (h.cl # <<>> \/ h.te[Len(h.te)] \notin {"chunked", "identity"})
    \/ h.cl # <<>> /\ h.cl[1] < 0

ParseHead(h) ==
    IF h.bad # 0 THEN h.bad
    ELSE IF Malformed(h) THEN 400
    ELSE IF h.te # <<>> /\ h.te[Len(h.te)] = "chunked" THEN 501
    ELSE IF h.cl # <<>> /\ h.cl[1] > BodyCap THEN 413
    ELSE 0

BodyLen(h) == IF h.cl = <<>> THEN 0 ELSE h.cl[1]

\* Of several Transfer-Encoding fields only the last is looked at, so a coding
\* before it is passed over.
PassesCoding(h) == \E i \in DOMAIN h.te : h.te[i] # "identity"

\* The head is accepted.
Accepting(h) == mishaps' = IF PassesCoding(h) THEN mishaps \cup {"coding"} ELSE mishaps

KeepAlive(h) == h.conn = "keep-alive" \/ (h.minor = 1 /\ h.conn # "close")
-----------------------------------------------------------------------------
(* The Conn and the objects around it.                                       *)

NewConn == [raw |-> <<>>, served |-> 0, sink |-> 0, left |-> 0, tail |-> <<>>,
            out |-> <<>>, file |-> <<>>, upgrade |-> FALSE,
            wantWrite |-> FALSE, expectSent |-> FALSE]

Init ==
    /\ script \in Scripts
    /\ next = <<1, 1>> /\ peer = "up"
    /\ rx = <<>> /\ room = TxCap /\ wire = <<>>
    /\ cn = NewConn /\ status = "none"
    /\ pc = "top" /\ ret = "start"
    /\ keep = TRUE /\ drained = TRUE /\ blocked = FALSE
    /\ late = FALSE /\ expired = FALSE
    /\ running = TRUE /\ draining = FALSE
    /\ sinkGot = [i \in Requests |-> <<>>]
    /\ sinkTold = [i \in Requests |-> <<>>]
    /\ last = 0 /\ mishaps = {}

\* The request at the front of the buffer. In step with the peer, the first
\* unit is the first of its head.
Front(c)    == c.raw[1][1]
HeadDone(c) == c.raw # <<>> /\ Len(c.raw) >= script[Front(c)].head
InStep(c)   == c.raw[1][2] = 1
Whole(c)    == HeadDone(c) /\ Len(c.raw) >= script[Front(c)].head + BodyLen(script[Front(c)])

HasPending(c) == c.out # <<>> \/ c.file # <<>>

\* The sink stays attached when its body has ended.
ClearStream_KeepsSink(c) == [c EXCEPT !.left = 0, !.tail = <<>>]

ClearStream(c) == [c EXCEPT !.sink = 0, !.left = 0, !.tail = <<>>]

\* on_abort(reason) for the sink of c, if it has one.
Tell(c, reason) ==
    sinkTold' = IF c.sink = 0 THEN sinkTold
                ELSE [sinkTold EXCEPT ![c.sink] = Append(@, reason)]

AbortStream(c, reason) == Tell(c, reason) /\ cn' = ClearStream(c)

\* The slot is emptied and the Conn released; its destructor tells an open sink.
Leave(how, reason) ==
    /\ Tell(cn, reason)
    /\ cn' = NewConn /\ status' = how /\ late' = FALSE

\* send_error(): straight to the socket, which takes it or does not.
SendError(i) ==
    IF room > 0 /\ peer # "reset"
    THEN wire' = Append(wire, <<i, 3, 1>>) /\ room' = room - 1
    ELSE UNCHANGED <<wire, room>>

Reply(i)     == [k \in 1 .. script[i].resp |-> <<i, 1, k>>]
FileBody(i)  == [k \in 1 .. script[i].file |-> <<i, 2, k>>]
KeepFor(c, i) ==
    KeepAlive(script[i]) /\ c.served + 1 < MaxKeepalive /\ ~draining

\* serve_request(): the handler may call stop() and upgrade().
Serve(c, i) ==
    /\ cn' = [c EXCEPT !.served = @ + 1, !.expectSent = FALSE,
                       !.out = @ \o Reply(i),
                       !.file = IF script[i].file > 0 THEN FileBody(i) ELSE @,
                       !.upgrade = @ \/ script[i].upgrade]
    /\ keep' = KeepFor(c, i)
    /\ last' = IF KeepFor(c, i) /\ ~script[i].upgrade THEN last ELSE i
    /\ running' \in {running, FALSE}
-----------------------------------------------------------------------------
(* reactor(): one round of its loop is top, wait, drive, rearm or dispose.   *)

Drain ==
    /\ pc = "top" /\ ~running /\ ~draining
    /\ draining' = TRUE
    /\ UNCHANGED <<peerVars, sockVars, cn, status, pc, locals, clock, running, sinks, marks>>

DrainDone ==
    /\ pc = "top" /\ draining /\ status # "open"
    /\ pc' = "exit"
    /\ UNCHANGED <<peerVars, sockVars, cn, status, locals, clock, modes, sinks, marks>>

DrainExpired ==
    /\ pc = "top" /\ draining /\ status = "open" /\ expired
    /\ pc' = "exit"
    /\ Leave("closed", "shutdown")
    /\ UNCHANGED <<peerVars, sockVars, locals, expired, modes, sinkGot, marks>>

\* The loop goes on although the budget is spent.
Wait_PastBudget ==
    /\ pc = "top" /\ ~(~running /\ ~draining)
    /\ draining => status = "open"
    /\ pc' = "wait"
    /\ UNCHANGED <<peerVars, sockVars, cn, status, locals, clock, modes, sinks, marks>>

Wait ==
    /\ pc = "top" /\ ~(~running /\ ~draining)
    /\ draining => status = "open" /\ ~expired
    /\ pc' = "wait"
    /\ UNCHANGED <<peerVars, sockVars, cn, status, locals, clock, modes, sinks, marks>>

Readable == rx # <<>> \/ peer # "up"
Ready    == status = "open" /\ (Readable \/ (cn.wantWrite /\ room > 0))

PollFails ==
    /\ pc = "wait"
    /\ pc' = "exit" /\ mishaps' = mishaps \cup {"poll"}
    /\ Leave(IF status = "open" THEN "closed" ELSE status, "lost")
    /\ UNCHANGED <<peerVars, sockVars, locals, expired, modes, sinkGot, last>>

\* A wakeup with nothing ready, or after a sweep that was not yet due.
WaitReturns ==
    /\ pc = "wait" /\ ~Ready
    /\ pc' = "top"
    /\ UNCHANGED <<peerVars, sockVars, cn, status, locals, clock, modes, sinks, marks>>

Accept ==
    /\ pc = "wait" /\ status = "none" /\ ~draining
    /\ status' = "open" /\ cn' = NewConn
    /\ pc' = "top"
    /\ UNCHANGED <<peerVars, sockVars, locals, clock, modes, sinks, marks>>

\* A connection with output pending is left alone.
Sweep_OnlyReaders ==
    /\ pc = "wait" /\ status = "open" /\ late /\ ~HasPending(cn)
    /\ Leave("closed", "timeout")
    /\ pc' = "top"
    /\ UNCHANGED <<peerVars, sockVars, locals, expired, modes, sinkGot, marks>>

\* The sweep. A readiness event of the same wakeup then finds an empty slot.
Sweep ==
    /\ pc = "wait" /\ status = "open" /\ late
    /\ Leave("closed", "timeout")
    /\ pc' = "top"
    /\ UNCHANGED <<peerVars, sockVars, locals, expired, modes, sinkGot, marks>>

Drive ==
    /\ pc = "wait" /\ Ready
    /\ blocked' = FALSE /\ ret' = "start"
    /\ pc' = IF HasPending(cn) THEN "flush" ELSE IF cn.sink # 0 THEN "pump" ELSE "recv"
    /\ UNCHANGED <<peerVars, sockVars, cn, status, keep, drained, clock, modes, sinks, marks>>

\* drive() returned true: POLL_WRITE is armed while output is pending.
Rearm ==
    /\ pc = "rearm"
    /\ cn' = [cn EXCEPT !.wantWrite = blocked]
    /\ pc' = "top"
    /\ UNCHANGED <<peerVars, sockVars, status, locals, clock, modes, sinks, marks>>

\* drive() returned false.
Dispose ==
    /\ pc = "dispose"
    /\ Leave(IF cn.upgrade THEN "handed" ELSE "closed", "lost")
    /\ pc' = "top"
    /\ UNCHANGED <<peerVars, sockVars, locals, expired, modes, sinkGot, marks>>
-----------------------------------------------------------------------------
(* Conn.flush(), called from four places (ret).                              *)

FlushSend ==
    /\ pc = "flush" /\ cn.out # <<>> /\ room > 0 /\ peer # "reset"
    /\ LET n == Least(room, Len(cn.out)) IN
        /\ wire' = wire \o Take(cn.out, n)
        /\ cn' = [cn EXCEPT !.out = Drop(@, n)]
        /\ room' = room - n
    /\ UNCHANGED <<peerVars, rx, status, pc, locals, clock, modes, sinks, marks>>

FlushFile ==
    /\ pc = "flush" /\ cn.out = <<>> /\ cn.file # <<>> /\ room > 0 /\ peer # "reset"
    /\ LET n == Least(room, Len(cn.file)) IN
        /\ wire' = wire \o Take(cn.file, n)
        /\ cn' = [cn EXCEPT !.file = Drop(@, n)]
        /\ room' = room - n
    /\ UNCHANGED <<peerVars, rx, status, pc, locals, clock, modes, sinks, marks>>

\* sendfile() returns 0: the file is shorter than its header said.
FlushFileEnds ==
    /\ pc = "flush" /\ cn.out = <<>> /\ cn.file # <<>>
    /\ cn' = [cn EXCEPT !.file = <<>>]
    /\ mishaps' = mishaps \cup {"shrunk"}
    /\ UNCHANGED <<peerVars, sockVars, status, pc, locals, clock, modes, sinks, last>>

\* Returns 0. For sendfile() a dead socket looks the same as a full one.
FlushBlocks ==
    /\ pc = "flush"
    /\ \/ cn.out # <<>> /\ room = 0 /\ peer # "reset"
       \/ cn.out = <<>> /\ cn.file # <<>> /\ (room = 0 \/ peer = "reset")
    /\ blocked' = TRUE /\ pc' = "rearm"
    /\ mishaps' = IF ret \in {"buffered", "stream"} THEN mishaps \cup {"backed"} ELSE mishaps
    /\ UNCHANGED <<peerVars, sockVars, cn, status, ret, keep, drained, clock, modes, sinks, last>>

FlushFails ==
    /\ pc = "flush" /\ cn.out # <<>> /\ peer = "reset"
    /\ pc' = "dispose"
    /\ UNCHANGED <<peerVars, sockVars, cn, status, locals, clock, modes, sinks, marks>>

\* After a streamed body the next thing is a read.
AfterFlush_ReadsFirst ==
    CASE ret = "start"   -> IF cn.sink # 0 THEN "pump" ELSE "recv"
      [] ret = "interim" -> "route"
      [] OTHER           -> IF cn.upgrade \/ ~keep THEN "dispose"
                            ELSE IF ret = "stream" THEN "recv" ELSE "parse"

\* Where drive() goes on when flush() returns 1.
AfterFlush ==
    CASE ret = "start"   -> IF cn.sink # 0 THEN "pump" ELSE "recv"
      [] ret = "interim" -> "route"
      [] OTHER           -> IF cn.upgrade \/ ~keep THEN "dispose" ELSE "parse"

Flushed ==
    /\ pc = "flush" /\ ~HasPending(cn)
    /\ pc' = AfterFlush
    /\ drained' = IF ret = "stream" THEN TRUE ELSE drained
    /\ UNCHANGED <<peerVars, sockVars, cn, status, ret, keep, blocked, clock, modes, sinks, marks>>
-----------------------------------------------------------------------------
(* drive(): read, then every request the buffer holds.                       *)

RecvBlocks == rx = <<>> /\ peer = "up"
RecvEnds   == peer = "reset" \/ (rx = <<>> /\ peer = "eof")
RecvData   == rx # <<>> /\ peer # "reset"

\* drive() closes with an error response, or stops for now.
Refuse(i) ==
    /\ SendError(i) /\ pc' = "dispose"
    /\ UNCHANGED <<peerVars, rx, status, locals, expired, modes, marks>>
NeedMore == pc' = IF drained THEN "rearm" ELSE "recv"

Recv ==
    /\ pc = "recv"
    /\ \/ RecvBlocks /\ pc' = "rearm"
       \/ RecvEnds /\ pc' = "dispose"
    /\ UNCHANGED <<peerVars, sockVars, cn, status, locals, clock, modes, sinks, marks>>

RecvInto ==
    /\ pc = "recv" /\ RecvData
    /\ LET got == Take(rx, RecvChunk) IN
        /\ Len(cn.raw) + Len(got) <= Cap
        /\ cn' = [cn EXCEPT !.raw = @ \o got]
        /\ rx' = Drop(rx, Len(got))
        /\ drained' = (Len(got) < RecvChunk)
    /\ late' = FALSE /\ pc' = "parse"
    /\ UNCHANGED <<peerVars, room, wire, status, ret, keep, blocked, expired, modes, sinks, marks>>

RecvOverflows ==
    /\ pc = "recv" /\ RecvData
    /\ Len(cn.raw) + Len(Take(rx, RecvChunk)) > Cap
    /\ Refuse((cn.raw \o rx)[1][1])
    /\ UNCHANGED <<cn, late, sinks>>

Parse ==
    /\ pc = "parse"
    /\ IF cn.raw # <<>> /\ (HeadDone(cn) \/ ~InStep(cn))
       THEN /\ InStep(cn) /\ ParseHead(script[Front(cn)]) = 0
            /\ \/ cn.expectSent
               \/ script[Front(cn)].expect = ""
               \/ /\ script[Front(cn)].expect = "100-continue"
                  /\ script[Front(cn)].minor = 0 \/ Whole(cn)
            /\ pc' = "route" /\ Accepting(script[Front(cn)])
       ELSE NeedMore /\ UNCHANGED mishaps
    /\ UNCHANGED <<peerVars, sockVars, cn, status, locals, clock, modes, sinks, last>>

ParseFails ==
    /\ pc = "parse" /\ cn.raw # <<>>
    /\ \/ ~InStep(cn)
       \/ /\ HeadDone(cn)
          /\ \/ ParseHead(script[Front(cn)]) # 0
             \/ ~cn.expectSent /\ script[Front(cn)].expect \notin {"", "100-continue"}
    /\ Refuse(Front(cn))
    /\ UNCHANGED <<cn, late, sinks>>

\* The interim response is not remembered.
ParseInterim_Unflagged ==
    /\ pc = "parse" /\ HeadDone(cn) /\ InStep(cn)
    /\ ParseHead(script[Front(cn)]) = 0
    /\ script[Front(cn)].expect = "100-continue" /\ script[Front(cn)].minor = 1
    /\ ~cn.expectSent /\ ~Whole(cn)
    /\ cn' = [cn EXCEPT !.out = Append(@, <<Front(cn), 0, 1>>)]
    /\ pc' = "flush" /\ ret' = "interim" /\ Accepting(script[Front(cn)])
    /\ UNCHANGED <<peerVars, sockVars, status, keep, drained, blocked, clock, modes, sinks, last>>

\* "100 Continue", at most once for the request being assembled.
ParseInterim ==
    /\ pc = "parse" /\ HeadDone(cn) /\ InStep(cn)
    /\ ParseHead(script[Front(cn)]) = 0
    /\ script[Front(cn)].expect = "100-continue" /\ script[Front(cn)].minor = 1
    /\ ~cn.expectSent /\ ~Whole(cn)
    /\ cn' = [cn EXCEPT !.expectSent = TRUE, !.out = Append(@, <<Front(cn), 0, 1>>)]
    /\ pc' = "flush" /\ ret' = "interim" /\ Accepting(script[Front(cn)])
    /\ UNCHANGED <<peerVars, sockVars, status, keep, drained, blocked, clock, modes, sinks, last>>

\* feed_sink(): the sink takes the chunk, or refuses it and the rest.
Feed(c, chunk) ==
    /\ sinkGot' = [sinkGot EXCEPT ![c.sink] = @ \o chunk]
    /\ \/ /\ cn' = c /\ pc' = "pump"
          /\ UNCHANGED <<sinkTold, wire, room>>
       \/ /\ chunk # <<>>
          /\ AbortStream(c, "rejected") /\ SendError(c.sink) /\ pc' = "dispose"

\* The factory is asked again at every wakeup and may answer differently.
Asked(h)     == BodyLen(h) > 0 /\ HasFactory
MayStream(h) == Asked(h) /\ TRUE \in h.sink
MayBuffer(h) == Asked(h) => FALSE \in h.sink

RouteSink ==
    /\ pc = "route" /\ MayStream(script[Front(cn)])
    /\ LET h     == script[Front(cn)]
           have  == Drop(cn.raw, h.head)
           first == Take(have, BodyLen(h))
           c     == [cn EXCEPT !.raw = Take(@, h.head), !.sink = Front(cn),
                               !.left = BodyLen(h) - Len(first),
                               !.tail = Drop(have, Len(first))]
       IN Feed(c, first)
    /\ UNCHANGED <<peerVars, rx, status, locals, clock, modes, marks>>

RouteTooLarge ==
    /\ pc = "route" /\ MayBuffer(script[Front(cn)])
    /\ \/ BodyLen(script[Front(cn)]) > MaxBody
       \/ script[Front(cn)].head + BodyLen(script[Front(cn)]) > Cap
    /\ Refuse(Front(cn))
    /\ UNCHANGED <<cn, late, sinks>>

Fits(h) == BodyLen(h) <= MaxBody /\ h.head + BodyLen(h) <= Cap

RouteWaits ==
    /\ pc = "route" /\ MayBuffer(script[Front(cn)]) /\ Fits(script[Front(cn)])
    /\ ~Whole(cn) /\ NeedMore
    /\ UNCHANGED <<peerVars, sockVars, cn, status, locals, clock, modes, sinks, marks>>

RouteServes ==
    /\ pc = "route" /\ MayBuffer(script[Front(cn)]) /\ Fits(script[Front(cn)])
    /\ Whole(cn)
    /\ LET h == script[Front(cn)] IN
        Serve([cn EXCEPT !.raw = Drop(@, h.head + BodyLen(h))], Front(cn))
    /\ pc' = "flush" /\ ret' = "buffered"
    /\ UNCHANGED <<peerVars, sockVars, status, drained, blocked, clock, draining, sinks, mishaps>>
-----------------------------------------------------------------------------
(* pump_stream().                                                            *)

PumpWaits ==
    /\ pc = "pump" /\ cn.left > 0 /\ RecvBlocks
    /\ pc' = "rearm"
    /\ UNCHANGED <<peerVars, sockVars, cn, status, locals, clock, modes, sinks, marks>>

PumpLost ==
    /\ pc = "pump" /\ cn.left > 0 /\ RecvEnds
    /\ AbortStream(cn, "lost") /\ pc' = "dispose"
    /\ UNCHANGED <<peerVars, sockVars, status, locals, clock, modes, sinkGot, marks>>

\* What follows the body in the same read is the next request's.
PumpChunk ==
    /\ pc = "pump" /\ cn.left > 0 /\ RecvData
    /\ LET data  == Take(rx, StreamChunk)
           chunk == Take(data, cn.left)
       IN /\ rx' = Drop(rx, Len(data))
          /\ Feed([cn EXCEPT !.left = @ - Len(chunk), !.tail = Drop(data, Len(chunk))], chunk)
    /\ late' = FALSE
    /\ UNCHANGED <<peerVars, status, locals, expired, modes, marks>>

PumpRefused ==
    /\ pc = "pump" /\ cn.left = 0
    /\ AbortStream(cn, "rejected") /\ Refuse(cn.sink)
    /\ UNCHANGED <<late, sinkGot>>

\* on_end() agreed: the handler runs, and the tail becomes the buffer. A tail
\* larger than the buffer may grow costs the response that was just written.
PumpEnds ==
    /\ pc = "pump" /\ cn.left = 0
    /\ sinkTold' = [sinkTold EXCEPT ![cn.sink] = Append(@, "end")]
    /\ Serve([ClearStream(cn) EXCEPT !.raw = IF Len(cn.tail) <= Cap THEN cn.tail ELSE <<>>],
             cn.sink)
    /\ IF Len(cn.tail) <= Cap
       THEN pc' = "flush" /\ ret' = "stream" /\ UNCHANGED <<wire, room>>
       ELSE pc' = "dispose" /\ SendError(cn.sink) /\ UNCHANGED ret
    /\ mishaps' = IF Len(cn.tail) <= Cap THEN mishaps ELSE mishaps \cup {"tail"}
    /\ UNCHANGED <<peerVars, rx, status, drained, blocked, clock, draining, sinkGot>>
-----------------------------------------------------------------------------
(* The peer and the clock.                                                   *)
env == <<sockVars, cn, status, pc, locals, modes, sinks, marks>>

PeerSends ==
    /\ peer = "up" /\ next[1] \in Requests /\ status \in {"none", "open"}
    /\ rx' = Append(rx, next)
    /\ next' = IF next[2] < script[next[1]].head + script[next[1]].body
               THEN <<next[1], next[2] + 1>> ELSE <<next[1] + 1, 1>>
    /\ UNCHANGED <<script, peer, room, wire, cn, status, pc, locals, clock, modes, sinks, marks>>

PeerReads ==
    /\ peer # "reset" /\ room < TxCap
    /\ room' = room + 1
    /\ UNCHANGED <<peerVars, rx, wire, cn, status, pc, locals, clock, modes, sinks, marks>>

PeerEnds ==
    /\ peer = "up" /\ peer' = "eof"
    /\ UNCHANGED <<script, next, env, clock>>

PeerResets ==
    /\ peer # "reset" /\ peer' = "reset"
    /\ UNCHANGED <<script, next, env, clock>>

DeadlinePasses ==
    /\ status = "open" /\ ~late /\ late' = TRUE
    /\ UNCHANGED <<peerVars, env, expired>>

BudgetPasses ==
    /\ draining /\ ~expired /\ expired' = TRUE
    /\ UNCHANGED <<peerVars, env, late>>

Returned == pc = "exit" /\ UNCHANGED vars
-----------------------------------------------------------------------------
Loop   == Drain \/ DrainDone \/ DrainExpired \/ Wait \/ WaitReturns \/ Accept
              \/ Drive \/ Rearm \/ Dispose
Flush  == FlushSend \/ FlushFile \/ FlushFileEnds \/ FlushBlocks \/ FlushFails \/ Flushed
Buffer == Recv \/ RecvInto \/ RecvOverflows \/ Parse \/ ParseFails \/ ParseInterim
              \/ RouteSink \/ RouteTooLarge \/ RouteWaits \/ RouteServes
Pump   == PumpWaits \/ PumpLost \/ PumpChunk \/ PumpRefused \/ PumpEnds
Server == Loop \/ Flush \/ Buffer \/ Pump
World  == PeerSends \/ PeerReads \/ PeerEnds \/ PeerResets \/ DeadlinePasses \/ BudgetPasses

Next == Server \/ Sweep \/ PollFails \/ World \/ Returned

Spec == Init /\ [][Next]_vars

\* The process is scheduled, 500 ms pass between two sweeps sooner or later, and
\* so does the drain budget. Nothing is asked of the peer.
FairSpec == Spec /\ WF_vars(Server) /\ SF_vars(Sweep) /\ WF_vars(BudgetPasses)
-----------------------------------------------------------------------------
Units   == Seq(Nat \X Nat)
Reasons == {"end", "rejected", "lost", "timeout", "shutdown"}
Replies == Seq(Nat \X (0 .. 3) \X Nat)

Conns   == [raw : Units, served : Nat, sink : {0} \cup Requests, left : Nat,
            tail : Units, out : Replies, file : Replies, upgrade : BOOLEAN,
            wantWrite : BOOLEAN, expectSent : BOOLEAN]

\* The buffer never grows past Conn.cap and the number of body units still owed
\* is never negative, whatever the peer sends.
TypeOK ==
    /\ script \in Scripts /\ next \in Nat \X Nat /\ peer \in {"up", "eof", "reset"}
    /\ rx \in Units /\ room \in 0 .. TxCap /\ wire \in Replies
    /\ cn \in Conns /\ Len(cn.raw) <= Cap
    /\ status \in {"none", "open", "closed", "handed"}
    /\ pc \in {"top", "wait", "flush", "recv", "parse", "route", "pump", "rearm",
               "dispose", "exit"}
    /\ ret \in {"start", "interim", "buffered", "stream"}
    /\ {keep, drained, blocked, late, expired, running, draining} \subseteq BOOLEAN
    /\ sinkGot \in [Requests -> Units] /\ sinkTold \in [Requests -> Seq(Reasons)]
    /\ last \in {0} \cup Requests /\ mishaps \subseteq {"backed", "shrunk", "tail", "poll", "coding"}

LastUnit(u) == CASE u[2] = 1 -> u[3] = script[u[1]].resp
                 [] u[2] = 2 -> u[3] = script[u[1]].file
                 [] OTHER    -> TRUE

\* v may follow u: the same message goes on, or it was complete and v begins the
\* next: a file after its header block, a final response after an interim one,
\* the next request's message after a response, and nothing after an error.
MayFollow(u, v) ==
    \/ v = <<u[1], u[2], u[3] + 1>>
    \/ /\ LastUnit(u) /\ v[3] = 1 /\ u[2] # 3
       /\ LET more == u[2] = 1 /\ script[u[1]].file > 0 IN
            \/ more /\ v[1] = u[1] /\ v[2] = 2
            \/ ~more /\ u[2] = 0 /\ v[1] = u[1] /\ v[2] \in {1, 3}
            \/ ~more /\ u[2] # 0 /\ v[1] = u[1] + 1 /\ v[2] # 2

\* What the server has sent is, at every moment, a sequence of whole responses
\* in the order of the requests, with at most one "100 Continue" before each and
\* no request passed over, up to one that is still under way, wherever the send
\* buffer fills. An error stands for the response of the request it is about.
\* A file that shrinks while it is sent breaks the order, and so may the body of
\* a request whose coding was passed over.
WireInOrder ==
    {"shrunk", "coding"} \cap mishaps = {} =>
        /\ wire # <<>> => wire[1][1] = 1 /\ wire[1][2] # 2 /\ wire[1][3] = 1
        /\ \A k \in 1 .. Len(wire) - 1 : MayFollow(wire[k], wire[k + 1])

\* The server and the peer agree where every message begins and ends, whichever
\* length the peer took an ambiguous head to announce: what is parsed starts with
\* a head, and a sink is given its own body, in order, nothing else. It holds up
\* to the first head accepted with a coding passed over (server.vt:1470); after
\* that the body is parsed as the next request.
FramingHolds ==
    "coding" \notin mishaps =>
        /\ pc \in {"parse", "route"} /\ cn.raw # <<>> => InStep(cn)
        /\ \A i \in Requests : \A k \in DOMAIN sinkGot[i] :
               sinkGot[i][k] = <<i, script[i].head + k>>

\* A sink that was given part of a body is told how it ended exactly once, before
\* it is let go: on_end only with the whole body, connection-lost only when the
\* peer (or the poll set) went away. While framing holds, a sink is one request's.
SinkToldOnce ==
    "coding" \notin mishaps =>
        \A i \in Requests :
            /\ Len(sinkTold[i]) <= 1
            /\ sinkTold[i] = <<>> => sinkGot[i] = <<>> \/ cn.sink = i
            /\ sinkTold[i] # <<>> => cn.sink # i
            /\ sinkTold[i] = <<"end">> => Len(sinkGot[i]) = BodyLen(script[i])
            /\ sinkTold[i] = <<"lost">> => peer # "up" \/ "poll" \in mishaps

Idle == pc = "wait" /\ status = "open" /\ rx = <<>> /\ ~HasPending(cn)

\* Unless a response had to wait for the socket or framing was lost: when the server goes back to
\* sleep with nothing to send, no complete request is left in the buffer and no
\* connection whose last response has gone is still held; and an upgrade gets
\* its socket right after its own response.
NothingLeftBehind ==
    mishaps \cap {"backed", "tail", "shrunk", "coding"} = {} =>
        /\ Idle => last = 0 /\ ~(cn.sink = 0 /\ Whole(cn))
        /\ status = "handed" /\ peer # "reset" =>
              /\ wire # <<>> /\ LastUnit(wire[Len(wire)])
              /\ wire[Len(wire)][1] = last /\ script[last].upgrade

\* After stop() the reactor returns, whatever the peer does or does not do.
DrainEnds == ~running ~> pc = "exit"

\* A connection past its deadline is dropped, unless it sends again.
SlowPeerDropped == status = "open" /\ late ~> ~late
=============================================================================
