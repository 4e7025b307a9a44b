------------------------------- MODULE TcpConn -------------------------------
(***************************************************************************)
(* One TCP connection (transport/tcp/conn*.go): the goroutine run(), one   *)
(* action per case of its select, and the application's calls, which run   *)
(* concurrently with it and share only the two buffers, the notification   *)
(* channels and the shutdown flags.  The connection has no timestamps      *)
(* (the peer did not offer them).  Where segments come from is left to the *)
(* environment modules: they call RunInbound, and say in every step what   *)
(* becomes of env.                                                         *)
(***************************************************************************)
EXTENDS TcpSender

CONSTANTS
  InitialWriteBufferSize, WriteBufferSize,
  KeepaliveCount,    \* unanswered probes before the peer is declared dead
  AppBytes,          \* bound: bytes the application writes in all
  WriteSizes,        \* sizes of the application's Write calls
  ReadSizes,         \* sizes of its Read calls
  AppOps,            \* the calls this instance explores
  Timers             \* the timers that may expire in this instance

ASSUME ConnAssumption ==
  /\ InitialWriteBufferSize \in Nat \ {0} /\ WriteBufferSize \in Nat
  /\ KeepaliveCount \in Nat /\ AppBytes \in Nat
  /\ WriteSizes \subseteq Nat \ {0} /\ ReadSizes \subseteq Nat \ {0}
  /\ AppOps \subseteq {"write", "read", "closeWrite", "closeRead", "forceClose"}
  /\ Timers \subseteq {"rto", "delayedACK", "zeroWindow", "keepalive", "synRcvd",
                       "finWait2", "timeWait", "srtt"}

VARIABLES
  conn,   \* the TCPConn: everything run() owns, the buffers and the channels
  app,    \* the application: progress of its calls and what it has read
  env     \* the peer and the network; left to the environment module

(* The connection handleSYN has just created; its SYN+ACK is on the wire. *)
NewConn ==
  sendSYNACK(
    [state |-> "SYN_RCVD", loop |-> "select", est |-> FALSE,
     snd |-> newSender(0), rcv |-> newReceiver,
     readBuf |-> Buffer(InitialReadBufferSize), writeBuf |-> Buffer(InitialWriteBufferSize),
     writeShutdown |-> FALSE, readShutdown |-> FALSE, finPending |-> FALSE,
     writeNotify |-> FALSE, windowNotify |-> FALSE, closeCh |-> FALSE, forceCloseCh |-> FALSE,
     lastWndZero |-> FALSE, unackedSegs |-> 0, zeroWindowProbing |-> FALSE,
     keepaliveProbes |-> 0, timers |-> {"synRcvd"}, out |-> <<>>, edge |-> 0])

NewApp == [accepted |-> FALSE, pc |-> "idle", rest |-> 0, wrote |-> FALSE, written |-> 0,
           nread |-> 0, closing |-> "no", closingRead |-> "no"]

(* A timer set once done is closed never expires: run() no longer blocks.  *)
Reset(c, t) == IF c.state = "CLOSED" THEN c ELSE [c EXCEPT !.timers = @ \cup {t}]
Stop(c, t)  == [c EXCEPT !.timers = @ \ {t}]
-----------------------------------------------------------------------------
(* Fault: the FIN is not recorded. *)
sendFINUnrecorded(c) == [sendFINSegment(c, c.snd.nxt) EXCEPT !.snd.nxt = seqAdd(@, 1)]

sendFIN(c) ==
  LET c1 == recordSentFIN(sendFINSegment(c, c.snd.nxt), c.snd.nxt)
  IN  [c1 EXCEPT !.snd.nxt = seqAdd(@, 1)]

cancelDelayedACK(c) == Stop(c, "delayedACK")

checkZeroWindow(c) ==
  IF ~c.zeroWindowProbing /\ c.snd.wnd = 0 /\ c.writeBuf.q # <<>>
  THEN Reset([c EXCEPT !.zeroWindowProbing = TRUE], "zeroWindow")
  ELSE c

cancelZeroWindowProbe(c) ==
  IF c.zeroWindowProbing THEN Stop([c EXCEPT !.zeroWindowProbing = FALSE], "zeroWindow") ELSE c

(* Fault: the probe's byte is not recorded for retransmission. *)
sendZeroWindowProbeUnrecorded(c) ==
  LET probe == sendData([c EXCEPT !.writeBuf.q = Tail(@)], <<Head(c.writeBuf.q)>>, c.snd.nxt)
  IN  IF c.writeBuf.q = <<>> THEN cancelZeroWindowProbe(c)
      ELSE [probe EXCEPT !.snd.nxt = seqAdd(@, 1)]

(* The probe takes its byte out of writeBuf. *)
sendZeroWindowProbe(c) ==
  IF c.writeBuf.q = <<>> THEN cancelZeroWindowProbe(c) ELSE transmit(c, 1)

sendKeepaliveProbe(c) ==
  Emit(c, Seg({"ACK"}, seqSub(c.snd.una, 1), c.rcv.nxt, wnd(c), <<>>, <<>>))

resetKeepalive(c) == Reset([c EXCEPT !.keepaliveProbes = 0], "keepalive")

handleRST(c) == closeDone(c)

(* Fault: a passive close is taken for an active one. *)
finalizeFINActive(c) ==
  LET c1 == [c EXCEPT !.finPending = FALSE]
  IN  IF c.state \in {"ESTABLISHED", "CLOSE_WAIT"}
      THEN [sendFIN(c1) EXCEPT !.state = "FIN_WAIT_1"] ELSE c1

finalizeFIN(c) ==
  LET c1 == [c EXCEPT !.finPending = FALSE]
  IN  CASE c.state = "ESTABLISHED" -> [sendFIN(c1) EXCEPT !.state = "FIN_WAIT_1"]
        [] c.state = "CLOSE_WAIT"  -> [sendFIN(c1) EXCEPT !.state = "LAST_ACK"]
        [] OTHER -> c1

(* Fault: writeBuf is not looked at. *)
finishCloseNow(c) == finalizeFIN(c)

(* The FIN goes out once writeBuf is empty; until then it is pending. *)
finishClose(c) ==
  IF c.writeBuf.q # <<>> THEN [c EXCEPT !.finPending = TRUE] ELSE finalizeFIN(c)

handleClose(c) ==
  IF c.state \in {"ESTABLISHED", "CLOSE_WAIT"} THEN finishClose(sendPending(c)) ELSE c

enterTimeWait(c) ==
  Reset([c EXCEPT !.state = "TIME_WAIT",
                  !.readBuf = IF c.readShutdown THEN @ ELSE Shut(@)], "timeWait")

forceCloseFromRun(c) ==
  LET c1 == IF c.state = "ESTABLISHED" THEN sendRSTSegment(c, c.snd.nxt) ELSE c
  IN  closeDone([c1 EXCEPT !.writeBuf = Shut(@), !.readBuf = Shut(@)])
-----------------------------------------------------------------------------
(* handleSynRcvd; on success run() goes on to wait for room in acceptCh. *)
handleSynRcvd(c, seg) ==
  LET c1 == [c EXCEPT !.state = "ESTABLISHED", !.est = TRUE, !.loop = "accept",
                      !.snd = newSender(peerWnd(seg)), !.rcv = newReceiver]
      c2 == resetKeepalive(Stop(c1, "synRcvd"))
      acceptable == seqSub(seg.seq, rcvSeq(0)) < RcvWndSize
  IN  CASE "ACK" \in seg.flags /\ ~acceptable -> sendACK(c)
        [] "ACK" \in seg.flags /\ acceptable /\ seg.ack # sndSeq(0) ->
             handleRST(sendRSTSegment(c, seg.ack))
        [] "ACK" \in seg.flags /\ acceptable /\ seg.ack = sndSeq(0) ->
             IF seg.data # <<>> THEN sendACK(handleData(c2, seg.seq, seg.data)) ELSE c2
        [] "ACK" \notin seg.flags /\ "SYN" \in seg.flags -> sendSYNACK(c)
        [] OTHER -> c

(***************************************************************************)
(* The ACK part of handleEstablished: the window, the SACK blocks, the ACK,*)
(* a window update, and the end or the start of zero-window probing.       *)
(***************************************************************************)
takeWindow(c, w) == updateMaxWnd([c EXCEPT !.snd.wnd = w], w)

takeSACK(c, seg) ==
  IF SACKPermitted /\ seg.sack # <<>>
  THEN sackLossDetection(processSACKBlocks(c, seg.sack, seg.ack)) ELSE c

windowUpdate(c, seg, oldWnd) ==
  IF seg.ack = c.snd.una /\ peerWnd(seg) > oldWnd THEN sendPending(c) ELSE c

updateProbing(c, w) ==
  IF w > 0 /\ c.zeroWindowProbing THEN sendPending(cancelZeroWindowProbe(c))
  ELSE checkZeroWindow(c)

establishedACK(c, seg) ==
  LET marked == takeSACK(takeWindow(c, peerWnd(seg)), seg)
  IN  updateProbing(windowUpdate(handleACK(marked, seg.ack), seg, c.snd.wnd), peerWnd(seg))

(* Fault: the count of unacknowledged segments is not reset. *)
ackDataNoReset(c, seg) ==
  LET c1 == [c EXCEPT !.unackedSegs = @ + 1]
  IN  IF seg.data = <<>> THEN c
      ELSE IF c1.unackedSegs >= 2 THEN sendACK(cancelDelayedACK(c1))
      ELSE Reset(c1, "delayedACK")

(* The delayed-ACK part: out of order or every second segment at once. *)
ackData(c, seg) ==
  LET c1  == [c EXCEPT !.unackedSegs = @ + 1]
      now == seqGreaterThan(seg.seq, c.rcv.nxt) \/ c1.unackedSegs >= 2
  IN  IF seg.data = <<>> THEN c
      ELSE IF now THEN [sendACK(cancelDelayedACK(c1)) EXCEPT !.unackedSegs = 0]
      ELSE Reset(c1, "delayedACK")

(* Fault: a FIN behind a gap is processed at once. *)
takeFINOverGap(c, seg) ==
  IF "FIN" \in seg.flags THEN processFIN(c) ELSE ackData(c, seg)

(* The FIN part: now, or deferred until the data before it has arrived. *)
takeFIN(c, seg) ==
  LET finSeq == seqAdd(seg.seq, Len(seg.data))
      isFIN  == "FIN" \in seg.flags
  IN  IF isFIN /\ c.rcv.nxt = finSeq THEN processFIN(c)
      ELSE ackData(IF isFIN THEN [c EXCEPT !.rcv.finReceived = TRUE, !.rcv.finSeq = finSeq]
                   ELSE c, seg)

takeData(c, seg) == IF seg.data # <<>> THEN handleData(c, seg.seq, seg.data) ELSE c

handleEstablished(c, seg) ==
  LET acked(d) == IF "ACK" \in seg.flags THEN establishedACK(d, seg) ELSE d
  IN  takeFIN(takeData(acked(resetKeepalive(c)), seg), seg)

(***************************************************************************)
(* FIN_WAIT_1 and FIN_WAIT_2 take the data, then the FIN wherever it is in *)
(* the stream.  finACKed: the ACK of this segment emptied unacked.         *)
(***************************************************************************)
consumeFIN(c) == sendACK([c EXCEPT !.rcv.nxt = seqAdd(@, 1)])

finWait1FIN(c, finACKed) ==
  IF finACKed THEN enterTimeWait(c)
  ELSE [c EXCEPT !.state = "CLOSING", !.readBuf = IF c.readShutdown THEN @ ELSE Shut(@)]

finWait1Data(c, seg, finACKed) ==
  LET acked(d) == IF seg.data # <<>> THEN sendACK(d) ELSE d
      moved(d) == IF finACKed THEN Reset([d EXCEPT !.state = "FIN_WAIT_2"], "finWait2") ELSE d
  IN  moved(acked(c))

finWait1Rest(c, seg, finACKed) ==
  IF "FIN" \in seg.flags THEN finWait1FIN(consumeFIN(takeData(c, seg)), finACKed)
  ELSE finWait1Data(takeData(c, seg), seg, finACKed)

(* Fault: any ACK is taken for the ACK of the FIN. *)
handleFinWait1AnyACK(c, seg) ==
  LET isACK == "ACK" \in seg.flags
      rest(d) == finWait1Rest(d, seg, isACK)
  IN  rest(IF isACK THEN handleACK([c EXCEPT !.snd.wnd = peerWnd(seg)], seg.ack) ELSE c)

handleFinWait1(c, seg) ==
  LET isACK == "ACK" \in seg.flags
      rest(d) == finWait1Rest(d, seg, isACK /\ ~hasUnacked(d))
  IN  rest(IF isACK THEN handleACK([c EXCEPT !.snd.wnd = peerWnd(seg)], seg.ack) ELSE c)

handleFinWait2(c, seg) ==
  LET windowed == IF "ACK" \in seg.flags THEN [c EXCEPT !.snd.wnd = peerWnd(seg)] ELSE c
      data(d)  == IF seg.data # <<>> THEN Reset(takeData(d, seg), "finWait2") ELSE d
      fin(d)   == IF "FIN" \in seg.flags THEN enterTimeWait(consumeFIN(d))
                  ELSE IF seg.data # <<>> THEN sendACK(d) ELSE d
  IN  fin(data(windowed))

handleCloseWait(c, seg) ==
  IF "ACK" \in seg.flags THEN handleACK(takeWindow(c, peerWnd(seg)), seg.ack) ELSE c

handleClosing(c, seg) ==
  LET isACK == "ACK" \in seg.flags
      rest(d) == IF isACK /\ ~hasUnacked(d) THEN enterTimeWait(d)
                 ELSE IF "FIN" \in seg.flags THEN sendACK(d) ELSE d
  IN  rest(IF isACK THEN handleACK(c, seg.ack) ELSE c)

handleLastAck(c, seg) ==
  IF "ACK" \in seg.flags /\ (~hasUnacked(c) \/ seqGreaterThan(seg.ack, c.snd.una))
  THEN closeDone(handleACK(c, seg.ack)) ELSE c

handleTimeWait(c, seg) ==
  IF "FIN" \in seg.flags THEN Reset(sendACK(c), "timeWait") ELSE c

(* The RST rules of RFC 5961 and RFC 1337. *)
validateRST(c, seg) ==
  LET w == IF c.est THEN rcvWnd(c) ELSE RcvWndSize
  IN  CASE c.state = "TIME_WAIT" -> c
        [] c.state # "TIME_WAIT" /\ seg.seq = c.rcv.nxt -> handleRST(c)
        [] c.state # "TIME_WAIT" /\ seg.seq # c.rcv.nxt ->
             IF seqWithinWindow(seg.seq, c.rcv.nxt, w) THEN sendACK(c) ELSE c

handleSegment(c, seg) ==
  IF "RST" \in seg.flags THEN validateRST(c, seg)
  ELSE IF "SYN" \in seg.flags /\ c.state # "SYN_RCVD" THEN sendACK(c)
  ELSE CASE c.state = "SYN_RCVD"    -> handleSynRcvd(c, seg)
         [] c.state = "ESTABLISHED" -> handleEstablished(c, seg)
         [] c.state = "FIN_WAIT_1"  -> handleFinWait1(c, seg)
         [] c.state = "FIN_WAIT_2"  -> handleFinWait2(c, seg)
         [] c.state = "CLOSE_WAIT"  -> handleCloseWait(c, seg)
         [] c.state = "CLOSING"     -> handleClosing(c, seg)
         [] c.state = "LAST_ACK"    -> handleLastAck(c, seg)
         [] c.state = "TIME_WAIT"   -> handleTimeWait(c, seg)
         [] c.state = "CLOSED"      -> c
-----------------------------------------------------------------------------
(* run(): each action is one case of the select; segments sent go to out. *)
inSelect == conn.loop = "select"
clear(c) == [c EXCEPT !.out = <<>>]
exit(c) == [closeDone(c) EXCEPT !.loop = "exited"]

(* Fault: the timer is not armed. *)
armRTONever(c) == c

armRTO(c) == IF hasUnacked(c) THEN Reset(c, "rto") ELSE c

pendingFIN(c) == IF c.finPending /\ c.writeBuf.q = <<>> THEN finalizeFIN(c) ELSE c

(***************************************************************************)
(* What run() does after every segment: the RTO timer, then the pending    *)
(* FIN.  A handler waiting for room in acceptCh has not returned yet.      *)
(***************************************************************************)
afterSegment(c) ==
  LET timed == IF hasUnacked(c) THEN Reset(c, "rto") ELSE Stop(c, "rto")
  IN  IF c.loop = "accept" THEN c
      ELSE IF c.finPending THEN pendingFIN(sendPending(timed))
      ELSE timed

RunInbound(seg) ==
  /\ inSelect
  /\ conn' = afterSegment(handleSegment(clear(conn), seg))
  /\ UNCHANGED app

(* acceptCh had room: handleSynRcvd returns. *)
RunAcceptEnqueued ==
  /\ conn.loop = "accept"
  /\ conn' = afterSegment([clear(conn) EXCEPT !.loop = "select"])
  /\ UNCHANGED app

Expires(t) == inSelect /\ t \in conn.timers \cap Timers /\ UNCHANGED app

expired(t) == Stop(clear(conn), t)

RunRTO ==
  /\ Expires("rto")
  /\ conn' = armRTO(handleRTO(expired("rto")))

RunDelayedACK ==
  /\ Expires("delayedACK")
  /\ conn' = [sendACK(expired("delayedACK")) EXCEPT !.unackedSegs = 0]

RunZeroWindow ==
  LET c == expired("zeroWindow")
  IN  /\ Expires("zeroWindow")
      /\ conn' = IF c.zeroWindowProbing THEN Reset(sendZeroWindowProbe(c), "zeroWindow") ELSE c

RunKeepalive ==
  LET c  == expired("keepalive")
      c1 == [c EXCEPT !.keepaliveProbes = @ + 1]
  IN  /\ Expires("keepalive")
      /\ conn' = IF c.state # "ESTABLISHED" THEN c
                 ELSE IF hasUnacked(c) THEN Reset(c, "keepalive")
                 ELSE IF c1.keepaliveProbes > KeepaliveCount
                      THEN exit(sendRSTSegment(c1, c.snd.nxt))
                 ELSE Reset(sendKeepaliveProbe(c1), "keepalive")

RunSynRcvd ==
  LET c == expired("synRcvd")
  IN  Expires("synRcvd") /\ conn' = IF c.state = "SYN_RCVD" THEN exit(c) ELSE c

RunFinWait2 ==
  LET c == expired("finWait2")
  IN  Expires("finWait2") /\ conn' = IF c.state = "FIN_WAIT_2" THEN exit(c) ELSE c

RunTimeWait == Expires("timeWait") /\ conn' = exit(expired("timeWait"))

(* The data just sent, if any, carried the delayed ACK. *)
piggyback(c) ==
  IF c.unackedSegs > 0 THEN [cancelDelayedACK(c) EXCEPT !.unackedSegs = 0] ELSE c

RunWriteNotify ==
  LET c == [clear(conn) EXCEPT !.writeNotify = FALSE]
  IN  /\ inSelect /\ conn.writeNotify
      /\ conn' = pendingFIN(armRTO(piggyback(checkZeroWindow(resetKeepalive(sendPending(c))))))
      /\ UNCHANGED app

RunWindowNotify ==
  LET c == [clear(conn) EXCEPT !.windowNotify = FALSE]
  IN  /\ inSelect /\ conn.windowNotify
      /\ conn' = IF c.lastWndZero /\ wnd(c) > 0 THEN [sendACK(c) EXCEPT !.unackedSegs = 0] ELSE c
      /\ UNCHANGED app

RunClose ==
  /\ inSelect /\ conn.closeCh
  /\ conn' = armRTO(handleClose([clear(conn) EXCEPT !.closeCh = FALSE]))
  /\ UNCHANGED app

RunForceClose ==
  /\ inSelect /\ conn.forceCloseCh
  /\ conn' = exit(forceCloseFromRun(clear(conn)))
  /\ UNCHANGED app

RunDone ==
  /\ inSelect /\ conn.state = "CLOSED"
  /\ conn' = exit(clear(conn))
  /\ UNCHANGED app

(* The clock: one SRTT has passed since the measurement window began. *)
MeasureWindowElapses ==
  /\ "srtt" \in Timers /\ conn.rcv.measuring /\ conn.snd.srtt /\ ~conn.rcv.elapsed
  /\ conn' = [clear(conn) EXCEPT !.rcv.elapsed = TRUE]
  /\ UNCHANGED app

RunStep ==
  \/ RunAcceptEnqueued \/ RunRTO \/ RunDelayedACK \/ RunZeroWindow \/ RunKeepalive
  \/ RunSynRcvd \/ RunFinWait2 \/ RunTimeWait \/ RunWriteNotify \/ RunWindowNotify
  \/ RunClose \/ RunForceClose \/ RunDone
-----------------------------------------------------------------------------
(* The application.  Write copies as room appears and notifies run() only  *)
(* when it returns; CloseWrite and CloseRead are sequences of steps.       *)
Accept ==
  /\ conn.est /\ conn.loop # "accept" /\ ~app.accepted
  /\ app' = [app EXCEPT !.accepted = TRUE]
  /\ UNCHANGED conn

Can(op) == op \in AppOps /\ app.accepted

WriteCall(n) ==
  /\ Can("write") /\ app.pc = "idle" /\ ~conn.writeShutdown /\ app.written + n =< AppBytes
  /\ app' = [app EXCEPT !.pc = "writing", !.rest = n, !.wrote = FALSE]
  /\ conn' = [clear(conn) EXCEPT !.writeBuf.cap = Max2(@, WriteBufferSize)]

WriteCopy ==
  LET n == Min2(app.rest, Room(conn.writeBuf))
      positions == [i \in 1 .. n |-> app.written + i - 1]
  IN  /\ app.pc = "writing" /\ n > 0 /\ ~conn.writeBuf.closed
      /\ app' = [app EXCEPT !.rest = @ - n, !.wrote = TRUE, !.written = @ + n]
      /\ conn' = [clear(conn) EXCEPT !.writeBuf.q = @ \o positions]

(* Fault: run() is not told of what was written. *)
WriteReturnSilent ==
  /\ app.pc = "writing" /\ app.rest = 0
  /\ app' = [app EXCEPT !.pc = "idle", !.wrote = FALSE]
  /\ conn' = clear(conn)

WriteReturn ==
  /\ app.pc = "writing"
  /\ \/ app.rest = 0
     \/ conn.writeBuf.closed
     \/ Room(conn.writeBuf) = 0 /\ conn.state = "CLOSED"
  /\ app' = [app EXCEPT !.pc = "idle", !.rest = 0, !.wrote = FALSE]
  /\ conn' = [clear(conn) EXCEPT !.writeNotify = @ \/ app.wrote]

Read(size) ==
  LET n == Min2(size, Len(conn.readBuf.q))
  IN  /\ Can("read") /\ n > 0
      /\ app' = [app EXCEPT !.nread = @ + n]
      /\ conn' = [clear(conn) EXCEPT !.readBuf.q = SubSeq(@, n + 1, Len(@)), !.windowNotify = TRUE]

CloseWriteFlag ==
  /\ Can("closeWrite") /\ app.closing = "no"
  /\ app' = [app EXCEPT !.closing = "flag"]
  /\ conn' = [clear(conn) EXCEPT !.writeShutdown = TRUE]

CloseWriteBuf ==
  /\ app.closing = "flag"
  /\ app' = [app EXCEPT !.closing = "buf"]
  /\ conn' = [clear(conn) EXCEPT !.writeBuf = Shut(@)]

CloseWriteSignal ==
  /\ app.closing = "buf"
  /\ app' = [app EXCEPT !.closing = "done"]
  /\ conn' = [clear(conn) EXCEPT !.closeCh = TRUE]

CloseReadFlag ==
  /\ Can("closeRead") /\ app.closingRead = "no"
  /\ app' = [app EXCEPT !.closingRead = "flag"]
  /\ conn' = [clear(conn) EXCEPT !.readShutdown = TRUE]

CloseReadBuf ==
  /\ app.closingRead = "flag"
  /\ app' = [app EXCEPT !.closingRead = "done"]
  /\ conn' = [clear(conn) EXCEPT !.readBuf = Shut(@)]

(* ForceClose, by the application or by TCPHandler.Close. *)
ForceClose ==
  /\ "forceClose" \in AppOps /\ ~conn.forceCloseCh
  /\ conn' = [clear(conn) EXCEPT !.forceCloseCh = TRUE]
  /\ UNCHANGED app

AppStep ==
  \/ Accept
  \/ \E n \in WriteSizes : WriteCall(n)
  \/ WriteCopy \/ WriteReturn
  \/ \E n \in ReadSizes : Read(n)
  \/ CloseWriteFlag \/ CloseWriteBuf \/ CloseWriteSignal
  \/ CloseReadFlag \/ CloseReadBuf
  \/ ForceClose

ConnInit == conn = NewConn /\ app = NewApp
ConnStep == RunStep \/ AppStep \/ MeasureWindowElapses
=============================================================================
