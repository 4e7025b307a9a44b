------------------------------ MODULE TcpSafety ------------------------------
(***************************************************************************)
(* What a connection must keep true against any peer of TcpAnyPeer.        *)
(***************************************************************************)
EXTENDS TcpAnyPeer

States == {"SYN_RCVD", "ESTABLISHED", "FIN_WAIT_1", "FIN_WAIT_2", "CLOSE_WAIT",
           "CLOSING", "LAST_ACK", "TIME_WAIT", "CLOSED"}

(* The peer's positions consumed (its FIN included), and put in readBuf. *)
nxtPos == seqSub(conn.rcv.nxt, rcvSeq(0))
delivered == app.nread + Len(conn.readBuf.q)

(* Bytes of our stream sent so far. *)
sentData == app.written - Len(conn.writeBuf.q)

BufferOK(b) == Len(b.q) =< b.cap /\ b.closed \in BOOLEAN

(* The connection record keeps its types, neither buffer ever holds more   *)
(* than its capacity, ssthresh stays at two segments or more and at most   *)
(* one segment waits for a delayed ACK.                                    *)
TypeOK ==
  /\ conn.state \in States /\ conn.loop \in {"select", "accept", "exited"}
  /\ BufferOK(conn.readBuf) /\ BufferOK(conn.writeBuf)
  /\ {conn.snd.una, conn.snd.nxt, conn.rcv.nxt} \subseteq SeqNums
  /\ conn.snd.cwnd \in 0 .. CwndSpace - 1 /\ conn.snd.ssthresh >= 2 * MSS
  /\ conn.unackedSegs \in 0 .. 1 /\ conn.snd.retries \in Nat
  /\ held \subseteq 0 .. AppBytes /\ conn.edge \in Nat
-----------------------------------------------------------------------------
(* Read returns the peer's bytes in order, none missing and none twice,    *)
(* and every byte the ACK number covers is in readBuf or was read, unless  *)
(* the application gave up the read side (handleData, deliver, deliverOOO).*)
StreamIntegrity ==
  /\ \A i \in DOMAIN conn.readBuf.q : conn.readBuf.q[i] = app.nread + i - 1
  /\ \/ conn.readShutdown
     \/ nxtPos = delivered
     \/ nxtPos = delivered + 1 /\ delivered = PeerBytes

(* The out-of-order list holds the right bytes, sorted, with a gap before  *)
(* every entry, and fits in the free space of readBuf: deliverOOO can      *)
(* always deliver a whole entry (insertOOO, handleData's trimming).        *)
OOOWellFormed ==
  LET rel(seq) == seqSub(seq, conn.rcv.nxt)
      ooo == conn.rcv.ooo
      good(i) == /\ ooo[i].data # <<>>
                 /\ \A k \in DOMAIN ooo[i].data : rcvSeq(ooo[i].data[k]) = seqAdd(ooo[i].seq, k - 1)
                 /\ rel(ooo[i].seq) > IF i = 1 THEN 0 ELSE rel(oooEnd(ooo[i - 1]))
                 /\ rel(oooEnd(ooo[i])) =< Room(conn.readBuf)
  IN  conn.readShutdown \/ \A i \in DOMAIN ooo : good(i)

(* A SACK or DSACK block we send covers only bytes we have received        *)
(* (sackBlocks), also when the list straddles the wrap of sequence space.  *)
SACKBlocksSound ==
  LET have == (0 .. nxtPos - 1) \cup UNION {ToSet(e.data) : e \in ToSet(conn.rcv.ooo)}
      covered(b) == {p \in 0 .. PeerBytes + 1 :
                       seqSub(rcvSeq(p), b.start) < seqSub(b.end, b.start)}
  IN  \A i \in DOMAIN conn.out : \A j \in DOMAIN conn.out[i].sack :
         /\ covered(conn.out[i].sack[j]) # {}
         /\ covered(conn.out[i].sack[j]) \subseteq have

(* Window never reneged: whatever window any ACK has ever advertised,      *)
(* readBuf still has room for every byte inside it (wnd, Grow, deliver).   *)
WindowHonoured ==
  conn.est /\ ~conn.readShutdown => conn.edge =< nxtPos + Room(conn.readBuf)

(* The application sees end of stream only after the peer's whole stream:  *)
(* a closed readBuf, unless closed locally, holds the last of it.          *)
EOFComplete ==
  conn.readBuf.closed /\ ~conn.readShutdown /\ ~conn.forceCloseCh => delivered = PeerBytes
-----------------------------------------------------------------------------
(* The retransmission queue covers exactly what is in flight, contiguously *)
(* and with the right bytes, and a FIN is its last entry: nothing sent is  *)
(* ever unavailable for resending (recordSent*, removeAcked).              *)
UnackedCoversFlight ==
  LET unacked == conn.snd.unacked
      rel(seq) == seqSub(seq, sndSeq(0))
      size(s)  == IF s.fin THEN 1 ELSE Len(s.data)
      good(i)  == LET s == unacked[i]
                  IN  /\ size(s) > 0 /\ (s.fin => i = Len(unacked))
                      /\ \A k \in DOMAIN s.data : s.data[k] = rel(s.seq) + k - 1
                      /\ rel(s.seq) + size(s) = IF i = Len(unacked) THEN sentPos
                                                ELSE rel(unacked[i + 1].seq)
  IN  IF unacked = <<>> THEN unaPos = sentPos
      ELSE /\ rel(Head(unacked).seq) =< unaPos
           /\ unaPos < rel(Head(unacked).seq) + size(Head(unacked))
           /\ \A i \in DOMAIN unacked : good(i)

(* The FIN comes after every byte a Write accepted, even one racing with   *)
(* CloseWrite (CloseWrite's order of steps, handleClose, finalizeFIN).     *)
FINAfterAllData ==
  conn.state \in {"FIN_WAIT_1", "FIN_WAIT_2", "CLOSING", "LAST_ACK", "TIME_WAIT"}
    => conn.writeBuf.q = <<>> /\ sentPos = app.written + 1

(* New data stays inside the window the peer last advertised; only the     *)
(* zero-window probe goes one byte beyond (sendPending, limitedTransmit).  *)
RespectsPeerWindow ==
  [][sentData' > sentData =>
       \/ sentData' - unaPos' =< conn'.snd.wnd
       \/ conn.zeroWindowProbing /\ sentData' = sentData + 1]_vars

(* Only segments the peer really holds are marked SACKed, so recovery      *)
(* never skips a lost one (processSACKBlocks).                             *)
SackedIsHeld ==
  \A i \in DOMAIN conn.snd.unacked :
     conn.snd.unacked[i].sacked => ToSet(conn.snd.unacked[i].data) \subseteq held

(* While a segment is unacknowledged and the loop waits, a timer is armed  *)
(* that will make the connection send again (run's RTO management).        *)
RetransmissionArmed ==
  conn.loop = "select" /\ conn.state # "CLOSED" /\ hasUnacked(conn)
    => "rto" \in conn.timers \/ (conn.zeroWindowProbing /\ "zeroWindow" \in conn.timers)
-----------------------------------------------------------------------------
(* A connection that has left the states in which its FIN is outstanding   *)
(* did so because the peer has everything: all bytes and the FIN           *)
(* (handleFinWait1, handleClosing).                                        *)
FINAckedMeansDelivered ==
  conn.state \in {"FIN_WAIT_2", "TIME_WAIT"} => 0 .. app.written \subseteq held

Legal ==
  {<<"SYN_RCVD", "ESTABLISHED">>, <<"ESTABLISHED", "FIN_WAIT_1">>,
   <<"ESTABLISHED", "CLOSE_WAIT">>, <<"ESTABLISHED", "LAST_ACK">>, <<"CLOSE_WAIT", "LAST_ACK">>,
   <<"FIN_WAIT_1", "FIN_WAIT_2">>, <<"FIN_WAIT_1", "CLOSING">>, <<"FIN_WAIT_1", "TIME_WAIT">>,
   <<"FIN_WAIT_2", "TIME_WAIT">>, <<"CLOSING", "TIME_WAIT">>}

(* The states in which data can release a FIN that ESTABLISHED deferred. *)
Releases == {<<"FIN_WAIT_1", "CLOSE_WAIT">>, <<"FIN_WAIT_2", "CLOSE_WAIT">>}

(***************************************************************************)
(* The state only moves along the TCP state diagram, and CLOSED is never   *)
(* left.  Two moves are the code's own: ESTABLISHED goes to LAST_ACK in    *)
(* one segment when the peer's FIN releases a pending FIN, and FIN_WAIT_1  *)
(* and FIN_WAIT_2 go back to CLOSE_WAIT, but only when data fills the gap  *)
(* before a FIN that ESTABLISHED had deferred (processFIN, finalizeFIN,    *)
(* the state handlers).                                                    *)
(***************************************************************************)
LegalTransitions ==
  [][conn'.state # conn.state =>
       \/ conn'.state = "CLOSED"
       \/ <<conn.state, conn'.state>> \in Legal
       \/ conn.rcv.finReceived /\ <<conn.state, conn'.state>> \in Releases]_vars
=============================================================================
