---------------------------- MODULE TcpTransfer -----------------------------
(***************************************************************************)
(* A connection and a peer that exchange two streams over a network that   *)
(* loses up to MaxLost segments: does the connection get everything        *)
(* across, and end?                                                        *)
(*                                                                         *)
(* The peer is a correct TCP that acknowledges at once, keeps its window   *)
(* at PeerWindow, resends its oldest segment when nothing is under way any *)
(* more, and closes after it has seen our FIN.  The RTO and TIME_WAIT run  *)
(* out only at such moments too: they are longer than a round trip and     *)
(* than run() needs to react.  The application is not waited for, and no   *)
(* measurement window of the receive buffer's auto-tuning elapses.         *)
(***************************************************************************)
EXTENDS TcpConn, FiniteSets

CONSTANTS
  PeerBytes,   \* length of the peer's stream; its FIN is at this position
  PeerWindow,  \* the window field of every segment of the peer
  MaxLost      \* bound: segments the network loses in all

ASSUME TransferAssumption ==
  /\ PeerBytes \in Nat /\ PeerWindow \in Nat /\ MaxLost \in Nat
  /\ PeerBytes + 2 < Half /\ AppBytes + 2 < Half

vars == <<conn, app, env>>

(***************************************************************************)
(* env: the segments on their way to the connection; whether the peer's    *)
(* handshake is done; the positions of our stream (FIN included) it has    *)
(* received, in order; those of its own it has sent, and had acknowledged; *)
(* the edge of the window it may use; the losses so far.  The whole round  *)
(* trip is on the way back: a segment of ours is lost or received at once. *)
(***************************************************************************)
NewEnv ==
  [toConn |-> <<>>, est |-> FALSE, got |-> 0, sent |-> 0, acked |-> 0, edge |-> 0, lost |-> 0]

(* A segment of the peer: its bytes a .. b - 1, with the FIN if b is beyond *)
(* its stream.                                                             *)
PeerSegment(e, a, b) ==
  Seg({"ACK"} \cup IF b > PeerBytes THEN {"FIN"} ELSE {}, rcvSeq(a), sndSeq(e.got), PeerWindow,
      [i \in 1 .. Min2(b, PeerBytes) - a |-> a + i - 1], <<>>)

PeerSYN == Seg({"SYN"}, IRS, 0, PeerWindow, <<>>, <<>>)

(* The peer takes a segment: what is next in our stream, and the ACK. *)
Taken(e, seg) ==
  LET pos  == seqSub(seg.seq, sndSeq(0))
      end  == pos + Len(seg.data) + IF "FIN" \in seg.flags THEN 1 ELSE 0
      next == "SYN" \notin seg.flags /\ pos =< e.got /\ e.got < end
  IN  [e EXCEPT !.est = TRUE, !.got = IF next THEN end ELSE @,
                !.acked = Max2(@, seqSub(seg.ack, rcvSeq(0))),
                !.edge = Max2(@, windowEdge(seg))]

(* It answers the SYN+ACK, data and the FIN at once. *)
Answered(e, seg) ==
  IF seg.data = <<>> /\ seg.flags \cap {"SYN", "FIN"} = {} THEN e
  ELSE [e EXCEPT !.toConn = Append(@, PeerSegment(e, e.sent, e.sent))]

(* A segment larger than the MSS is cut before it reaches the network. *)
Chunks(seg) ==
  IF Len(seg.data) =< MSS THEN <<seg>>
  ELSE [k \in 1 .. (Len(seg.data) + MSS - 1) \div MSS |->
          [seg EXCEPT !.seq = seqAdd(@, (k - 1) * MSS),
                      !.data = SubSeq(@, (k - 1) * MSS + 1, Min2(k * MSS, Len(@)))]]

(* The network's and the peer's part of a step that sends: some segments   *)
(* are lost, the others received in order.                                 *)
Carried(e, out) ==
  LET wire == FlattenSeq([i \in DOMAIN out |-> Chunks(out[i])])
      arrive(lost) ==
        LET turn(d, i) == IF i \in lost THEN [d EXCEPT !.lost = @ + 1]
                          ELSE Answered(Taken(d, wire[i]), wire[i])
        IN  FoldLeft(turn, e, [i \in DOMAIN wire |-> i])
  IN  {arrive(lost) : lost \in {l \in SUBSET DOMAIN wire : e.lost + Cardinality(l) =< MaxLost}}

Sends == env' \in Carried(env, conn'.out)
-----------------------------------------------------------------------------
(* New data within the window; the FIN once our FIN has come. *)
CanSend ==
  /\ env.est
  /\ \/ env.sent < PeerBytes /\ env.sent < env.edge
     \/ env.sent = PeerBytes /\ env.acked = PeerBytes /\ env.got = app.written + 1
        /\ app.closing = "done"

PeerSends ==
  /\ CanSend
  /\ env' = [env EXCEPT !.sent = @ + 1,
                        !.toConn = Append(@, PeerSegment(env, env.sent, env.sent + 1))]
  /\ UNCHANGED <<conn, app>>

(* run() has something to do besides segments and its long timers. *)
CanRun ==
  \/ conn.loop = "accept"
  \/ /\ inSelect
     /\ \/ conn.writeNotify \/ conn.windowNotify \/ conn.closeCh \/ conn.state = "CLOSED"
        \/ "delayedACK" \in conn.timers \cap Timers

(* Nothing is under way: the time for a timeout, here or at the peer. *)
Quiet == env.toConn = <<>> /\ ~CanRun /\ ~CanSend

CanResend ==
  Quiet /\ conn.loop # "exited" /\ (env.est => env.acked < Max2(env.sent, PeerBytes))

(* Its SYN or its oldest segment again, or the probe of a closed window. *)
PeerResends ==
  /\ CanResend
  /\ env' = [env EXCEPT !.toConn =
               <<IF env.est THEN PeerSegment(env, env.acked, env.acked + 1) ELSE PeerSYN>>]
  /\ UNCHANGED <<conn, app>>

(* The connection takes a segment; the handler drops it once run() is over. *)
ConnReceives ==
  /\ env.toConn # <<>>
  /\ \/ RunInbound(Head(env.toConn))
        /\ env' \in Carried([env EXCEPT !.toConn = Tail(@)], conn'.out)
     \/ conn.loop = "exited"
        /\ env' = [env EXCEPT !.toConn = Tail(@)]
        /\ UNCHANGED <<conn, app>>

(* A segment is lost on its way to the connection. *)
Loses ==
  /\ env.lost < MaxLost
  /\ \E i \in DOMAIN env.toConn :
       env' = [env EXCEPT !.lost = @ + 1, !.toConn = RemoveAt(@, i)]
  /\ UNCHANGED <<conn, app>>

RunGoesOn ==
  /\ \/ RunAcceptEnqueued \/ RunWriteNotify \/ RunWindowNotify \/ RunClose \/ RunDone
     \/ RunDelayedACK
  /\ Sends

TimerExpires == Quiet /\ (RunRTO \/ RunTimeWait) /\ Sends

AppGoesOn == AppStep /\ UNCHANGED env

Init == ConnInit /\ env \in Carried(NewEnv, NewConn.out)
Next ==
  \/ RunGoesOn \/ TimerExpires \/ ConnReceives \/ AppGoesOn
  \/ PeerSends \/ PeerResends \/ Loses

Acts == RunGoesOn \/ ConnReceives \/ AppGoesOn \/ PeerSends

(***************************************************************************)
(* Whoever can go on does: run(), the application, the peer and the        *)
(* network, and a timer that is armed expires in one of the quiet moments. *)
(* Only when to close is the application's choice.  The conditions are     *)
(* those under which the actions are enabled, written out.                 *)
(***************************************************************************)
CanApp ==
  \/ conn.est /\ conn.loop # "accept" /\ ~app.accepted
  \/ Can("write") /\ app.pc = "idle" /\ ~conn.writeShutdown
     /\ \E n \in WriteSizes : app.written + n =< AppBytes
  \/ app.pc = "writing"
     /\ (app.rest = 0 \/ conn.writeBuf.closed \/ Room(conn.writeBuf) > 0 \/ conn.state = "CLOSED")
  \/ Can("read") /\ conn.readBuf.q # <<>> /\ ReadSizes # {}
  \/ app.closing \notin {"no", "done"}

CanAct == CanRun \/ CanApp \/ CanSend \/ env.toConn # <<>>

CanExpire == Quiet /\ inSelect /\ conn.timers \cap Timers \cap {"rto", "timeWait"} # {}

Fairness ==
  /\ <>[]CanAct => []<><<Acts>>_vars
  /\ []<>CanExpire => []<><<TimerExpires>>_vars
  /\ []<>CanResend => []<><<PeerResends>>_vars

Spec == Init /\ [][Next]_vars
FairSpec == Spec /\ Fairness
-----------------------------------------------------------------------------
Safe == INSTANCE TcpSafety WITH PeerMSS <- MSS, Windows <- {PeerWindow}, PeerOps <- {},
                                env <- 0 .. env.got - 1

(* The retransmission queue covers exactly what is in flight, with Nagle,  *)
(* segments larger than the MSS and retransmissions (recordSentGSO,        *)
(* sendPending, removeAcked).                                              *)
UnackedCoversFlight == Safe!UnackedCoversFlight

(* A segment that may be lost is never left without the timer that will    *)
(* resend it (the RTO management of run(), armRTO after every send).       *)
RetransmissionArmed == Safe!RetransmissionArmed

(***************************************************************************)
(* Both streams get across, whichever MaxLost segments are lost, handshake *)
(* and FINs included: the peer gets every byte the application wrote and   *)
(* the application reads every byte of the peer.  Once CloseWrite is       *)
(* called the FIN gets across too and run() returns, by way of TIME_WAIT   *)
(* (run()'s RTO management, handleRTO, fast recovery, the notifications of *)
(* Write and CloseWrite, delayed ACKs, the state handlers).                *)
(***************************************************************************)
TransferCompletes ==
  /\ <>[](env.got >= app.written /\ app.nread = PeerBytes)
  /\ <>(app.closing # "no") => <>(conn.loop = "exited" /\ env.got = app.written + 1)

(* A Write that fits in writeBuf returns, also when it must first wait for *)
(* the bytes of earlier Writes to leave: run() has been told of those, and *)
(* the ACKs make it send the rest (Write's notification, sendPending).     *)
WriteReturns == app.pc = "writing" ~> app.pc = "idle"
=============================================================================
