------------------------------ MODULE TcpSender ------------------------------
(***************************************************************************)
(* The send side of a connection (transport/tcp/snd.go): windowed sending  *)
(* with SWS avoidance and Nagle, the retransmission queue, RTO, NewReno    *)
(* fast recovery, limited transmit and SACK-based loss detection.  The     *)
(* clock is abstracted: the RTO value is not kept, and srtt only says      *)
(* whether an RTT has been measured.                                       *)
(***************************************************************************)
EXTENDS TcpReceiver

CONSTANTS
  SndWndScale,       \* the peer's window scale shift
  CwndSpace,         \* cwnd is a uint32: 2^32 in the code
  IWBytes,           \* 14600 in the initial-window formula
  InitialSSThresh,
  MaxRetries,
  NoDelay,           \* Nagle disabled
  GSOMaxSize         \* largest GSO payload; 0 when the device has no GSO

ASSUME SenderAssumption ==
  /\ SndWndScale \in Nat /\ IWBytes \in Nat /\ MaxRetries \in Nat
  /\ CwndSpace \in Nat /\ CwndSpace >= 8 * MSS /\ InitialSSThresh \in MSS .. CwndSpace - 1
  /\ NoDelay \in BOOLEAN /\ GSOMaxSize \in Nat

peerWnd(seg) == seg.wnd * 2^SndWndScale

newSender(w) ==
  [una |-> sndSeq(0), nxt |-> sndSeq(0), wnd |-> w, maxWnd |-> w, unacked |-> <<>>,
   cwnd |-> Min2(10 * MSS, Max2(2 * MSS, IWBytes)) % CwndSpace, ssthresh |-> InitialSSThresh,
   dupACKCount |-> 0, inRecovery |-> FALSE, recoveryPoint |-> 0,
   retries |-> 0, srtt |-> FALSE]

Unacked(seq, data, fin) ==
  [seq |-> seq, data |-> data, fin |-> fin, retransmitted |-> FALSE, sacked |-> FALSE]

(* op applied to every element; a tuple, also when there is none. *)
Each(op(_), s) == <<>> \o [i \in DOMAIN s |-> op(s[i])]

hasUnacked(c) == c.snd.unacked # <<>>

updateMaxWnd(c, w) == [c EXCEPT !.snd.maxWnd = Max2(@, w)]

flightSize(s) == seqSub(s.nxt, s.una)

(* Fault: only the congestion window limits sending. *)
effectiveWindowCwnd(s) == s.cwnd - flightSize(s)

effectiveWindow(s) == Min2(s.cwnd, s.wnd) - flightSize(s)
-----------------------------------------------------------------------------
recordSent(c, seq, data) ==
  [c EXCEPT !.snd.unacked = Append(@, Unacked(seq, data, FALSE))]

(* A fault: the last, partial chunk of a GSO payload is not recorded. *)
recordSentGSOFullOnly(c, seq, data) ==
  LET chunk(k) == Unacked(seqAdd(seq, (k - 1) * MSS),
                          SubSeq(data, (k - 1) * MSS + 1, k * MSS), FALSE)
  IN  [c EXCEPT !.snd.unacked = @ \o [k \in 1 .. Len(data) \div MSS |-> chunk(k)]]

(* recordSentGSO: the payload is recorded at MSS granularity. *)
recordSentGSO(c, seq, data) ==
  LET chunks == (Len(data) + MSS - 1) \div MSS
      chunk(k) == Unacked(seqAdd(seq, (k - 1) * MSS),
                          SubSeq(data, (k - 1) * MSS + 1, Min2(k * MSS, Len(data))), FALSE)
  IN  [c EXCEPT !.snd.unacked = @ \o [k \in 1 .. chunks |-> chunk(k)]]

recordSentFIN(c, seq) ==
  [c EXCEPT !.snd.unacked = Append(@, Unacked(seq, <<>>, TRUE))]

(* Take n bytes from writeBuf, send them at nxt and record them. *)
transmit(c, n) ==
  LET data == SubSeq(c.writeBuf.q, 1, n)
      record(d) == IF n > MSS THEN recordSentGSO(d, c.snd.nxt, data)
                   ELSE recordSent(d, c.snd.nxt, data)
      taken == [c EXCEPT !.writeBuf.q = SubSeq(@, n + 1, Len(@))]
  IN  [record(sendData(taken, data, c.snd.nxt)) EXCEPT !.snd.nxt = seqAdd(@, n)]

(***************************************************************************)
(* sendPending.  One turn of its loop sends one segment or, once a break   *)
(* condition holds, leaves c alone; a turn that sends takes at least one   *)
(* byte, so as many turns as there are bytes reach the end of the loop.    *)
(***************************************************************************)
sendTurn(c) ==
  LET windowLeft == effectiveWindow(c.snd)
      available  == Len(c.writeBuf.q)
      sws   == /\ ~c.zeroWindowProbing
               /\ windowLeft < Min2(MSS, c.snd.maxWnd \div 2)
               /\ available > windowLeft
      nagle == ~NoDelay /\ hasUnacked(c) /\ available < MSS
      limit == IF GSOMaxSize > 0 /\ available > MSS /\ windowLeft > MSS THEN GSOMaxSize ELSE MSS
  IN  IF windowLeft =< 0 \/ available = 0 \/ sws \/ nagle THEN c
      ELSE transmit(c, Min2(Min2(windowLeft, available), limit))

sendPending(c) ==
  LET turn(d, b) == sendTurn(d)
  IN  FoldLeft(turn, c, c.writeBuf.q)

limitedTransmit(c) ==
  LET room == c.snd.wnd - flightSize(c.snd)
      n    == Min2(Min2(Len(c.writeBuf.q), MSS), room)
  IN  IF n > 0 THEN transmit(c, n) ELSE c
-----------------------------------------------------------------------------
(* Resend unacked[i]. *)
resend(c, i) ==
  LET s  == c.snd.unacked[i]
      c1 == [c EXCEPT !.snd.unacked[i].retransmitted = TRUE]
  IN  IF s.fin THEN sendFINSegment(c1, s.seq) ELSE sendData(c1, s.data, s.seq)

(* Fault: the segment sent last is resent. *)
retransmitNewest(c) == IF hasUnacked(c) THEN resend(c, Len(c.snd.unacked)) ELSE c

retransmitOldest(c) == IF hasUnacked(c) THEN resend(c, 1) ELSE c

retransmitFirstUnSACKed(c) ==
  LET unsacked(s) == ~s.sacked
      i == SelectInSeq(c.snd.unacked, unsacked)
  IN  IF i = 0 THEN c ELSE resend(c, i)

(* Fault: a segment that begins in a block counts as covered. *)
processSACKBlocksStart(c, blocks, ack) ==
  LET mark(s) == [s EXCEPT !.sacked = @ \/ \E j \in DOMAIN blocks : s.seq >= blocks[j].start]
  IN  [c EXCEPT !.snd.unacked = Each(mark, @)]

(* processSACKBlocks compares sequence numbers with plain >= and <=. *)
processSACKBlocks(c, blocks, ack) ==
  LET dsack   == ~seqGreaterThan(blocks[1].end, ack)
      regular == IF dsack THEN Tail(blocks) ELSE blocks
      covers(b, s) == s.seq >= b.start /\ seqAdd(s.seq, Len(s.data)) =< b.end
      mark(s) == [s EXCEPT !.sacked = @ \/ \E j \in DOMAIN regular : covers(regular[j], s)]
  IN  [c EXCEPT !.snd.unacked = Each(mark, @)]

(* sackLossDetection: resend what has three SACKed segments above it. *)
sackLossDetection(c) ==
  LET unacked == c.snd.unacked
      above(i) == {j \in i + 1 .. Len(unacked) : unacked[j].sacked}
      lost(i)  == /\ ~unacked[i].sacked /\ ~unacked[i].retransmitted
                  /\ \E j, k, l \in above(i) : j < k /\ k < l
      turn(d, i) == IF lost(i) THEN resend(d, i) ELSE d
  IN  FoldLeft(turn, c, [i \in DOMAIN unacked |-> i])

(* removeAcked: drop what ack covers; Karn's rule decides the RTT sample. *)
removeAcked(c, ack) ==
  LET unacked == c.snd.unacked
      segEnd(s) == seqAdd(s.seq, IF s.fin THEN 1 ELSE Len(s.data))
      kept(s)   == ~seqGreaterThan(ack, s.seq) \/ seqGreaterThan(segEnd(s), ack)
      first     == SelectInSeq(unacked, kept)
      n         == IF first = 0 THEN Len(unacked) ELSE first - 1
      sampled   == \E i \in 1 .. Min2(n + 1, Len(unacked)) :
                      seqGreaterThan(ack, unacked[i].seq) /\ ~unacked[i].retransmitted
  IN  [c EXCEPT !.snd.unacked = SubSeq(@, n + 1, Len(@)), !.snd.srtt = @ \/ sampled]
-----------------------------------------------------------------------------
(* ssthresh after a loss. *)
halved(s) == Max2(s.cwnd \div 2, 2 * MSS)

(***************************************************************************)
(* handleDupACK: limited transmit, then fast retransmit, then inflation.   *)
(* The count stops at 4: the code never tells two larger values apart.     *)
(***************************************************************************)
handleDupACK(c) ==
  LET c1   == [c EXCEPT !.snd.dupACKCount = Min2(@ + 1, 4)]
      c2   == [c1 EXCEPT !.snd.ssthresh = halved(c.snd),
                         !.snd.cwnd = (halved(c.snd) + 3 * MSS) % CwndSpace,
                         !.snd.inRecovery = TRUE, !.snd.recoveryPoint = c.snd.nxt]
  IN  CASE c.snd.inRecovery -> sendPending([c1 EXCEPT !.snd.cwnd = (@ + MSS) % CwndSpace])
        [] ~c.snd.inRecovery /\ c1.snd.dupACKCount =< 2 -> limitedTransmit(c1)
        [] ~c.snd.inRecovery /\ c1.snd.dupACKCount = 3 -> retransmitFirstUnSACKed(c2)
        [] OTHER -> c1

(* The congestion window after a new ACK outside recovery. *)
grownCwnd(s, acked) ==
  IF s.cwnd < s.ssthresh THEN Min2(s.cwnd + acked, s.ssthresh)
  ELSE (s.cwnd + Max2(1, (MSS * acked) \div s.cwnd)) % CwndSpace

handleNewACK(c, ack) ==
  LET acked   == seqSub(ack, c.snd.una)
      partial == c.snd.inRecovery /\ seqLessThan(ack, c.snd.recoveryPoint)
      c1 == removeAcked([c EXCEPT !.snd.una = ack, !.snd.retries = 0], ack)
      c2 == IF partial THEN retransmitFirstUnSACKed(c1) ELSE c1
      c3 == [c2 EXCEPT !.snd.inRecovery = partial, !.snd.dupACKCount = 0,
                       !.snd.cwnd = IF c.snd.inRecovery THEN c.snd.ssthresh
                                    ELSE grownCwnd(c.snd, acked)]
  IN  sendPending(c3)

handleACK(c, ack) ==
  IF ack = c.snd.una THEN handleDupACK(c)
  ELSE IF ~seqGreaterThan(ack, c.snd.una) \/ seqGreaterThan(ack, c.snd.nxt) THEN c
  ELSE handleNewACK(c, ack)

closeDone(c) == [c EXCEPT !.state = "CLOSED"]

(* conn.abort *)
abort(c) == closeDone(sendRSTSegment(c, c.snd.nxt))

handleRTO(c) ==
  LET unSACKed(s) == [s EXCEPT !.sacked = FALSE]
      retries == IF c.zeroWindowProbing THEN c.snd.retries ELSE c.snd.retries + 1
      c1 == [c EXCEPT !.snd.retries = retries]
      c2 == [c1 EXCEPT !.snd.inRecovery = FALSE, !.snd.dupACKCount = 0,
                       !.snd.ssthresh = halved(c.snd), !.snd.cwnd = MSS,
                       !.snd.unacked = Each(unSACKed, @)]
  IN  IF ~hasUnacked(c) THEN c
      ELSE IF ~c.zeroWindowProbing /\ retries > MaxRetries THEN abort(c1)
      ELSE retransmitOldest(c2)
=============================================================================
