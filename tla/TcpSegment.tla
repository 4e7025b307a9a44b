----------------------------- MODULE TcpSegment -----------------------------
(***************************************************************************)
(* Segments a connection builds and sends (transport/tcp/segment.go), with *)
(* the receive window and the SACK blocks they carry (rcv.go).             *)
(*                                                                         *)
(* Every operator of this module and of TcpReceiver, TcpSender and TcpConn *)
(* that takes a connection c returns the connection the Go method leaves   *)
(* behind; the segments it sent are appended to c.out.  A byte of either   *)
(* stream is its position in that stream, so a payload is a sequence of    *)
(* positions.                                                              *)
(***************************************************************************)
EXTENDS SeqNum, Sequences, SequencesExt

CONSTANTS
  ISS, IRS,          \* initial sequence numbers of the two sides
  MSS,               \* negotiated segment size
  RcvWndScale,       \* our window scale shift
  WndMax,            \* largest value of the window field (0xFFFF)
  RcvWndSize,        \* window advertised until the handshake completes
  SACKPermitted,     \* both sides offered SACK
  MaxSACKBlocks      \* SACK blocks that fit in the options

ASSUME SegmentAssumption ==
  /\ ISS \in SeqNums /\ IRS \in SeqNums
  /\ MSS \in Nat \ {0} /\ WndMax \in Nat /\ RcvWndSize \in Nat /\ RcvWndScale \in Nat
  /\ SACKPermitted \in BOOLEAN /\ MaxSACKBlocks \in Nat

Min2(a, b) == IF a =< b THEN a ELSE b
Max2(a, b) == IF a >= b THEN a ELSE b

(* Positions of the peer's stream and of ours as sequence numbers. *)
rcvSeq(pos) == seqAdd(IRS, pos + 1)
sndSeq(pos) == seqAdd(ISS, pos + 1)

Seg(flags, seq, ack, wnd, data, sack) ==
  [flags |-> flags, seq |-> seq, ack |-> ack, wnd |-> wnd, data |-> data, sack |-> sack]

(* ringBuffer as seen by its callers: a bounded FIFO (module BoundedFIFO). *)
Buffer(cap) == [q |-> <<>>, cap |-> cap, closed |-> FALSE]
Room(b) == b.cap - Len(b.q)
Shut(b) == [b EXCEPT !.closed = TRUE]
-----------------------------------------------------------------------------
(* receiver.rcvWnd *)
rcvWnd(c) == Room(c.readBuf)

(* Fault: what readBuf already holds is not subtracted. *)
wndOfCapacity(c) == Min2(c.readBuf.cap \div 2^RcvWndScale, WndMax)

(* receiver.wnd: Clark's rule, then the scaled 16-bit field. *)
wnd(c) ==
  LET free == Room(c.readBuf)
  IN  IF free < Min2(MSS, c.readBuf.cap \div 2) THEN 0
      ELSE Min2(free \div 2^RcvWndScale, WndMax)

oooEnd(e) == seqAdd(e.seq, Len(e.data))

(* Fault: ranges are coalesced across gaps. *)
oooRangesGlued(ooo) ==
  IF ooo = <<>> THEN <<>> ELSE <<[start |-> ooo[1].seq, end |-> oooEnd(Last(ooo))]>>

(* The coalesced ranges of the sorted OOO list; the code compares with plain <=. *)
oooRanges(ooo) ==
  LET extend(rs, e) ==
        IF rs # <<>> /\ e.seq =< Last(rs).end
        THEN [rs EXCEPT ![Len(rs)].end = Max2(@, oooEnd(e))]
        ELSE Append(rs, [start |-> e.seq, end |-> oooEnd(e)])
  IN  FoldLeft(extend, <<>>, ooo)

(* receiver.sackBlocks: the pending DSACK block, then the newest ranges. *)
sackBlocks(c) ==
  LET ranges == Reverse(oooRanges(c.rcv.ooo))
      room   == MaxSACKBlocks - Len(c.rcv.dsack)
  IN  c.rcv.dsack \o SubSeq(ranges, 1, Min2(Len(ranges), room))
-----------------------------------------------------------------------------
(***************************************************************************)
(* Send a segment.  edge is history, not state of the code: the right edge *)
(* of the largest window advertised so far, as a stream position.          *)
(***************************************************************************)
windowEdge(seg) == seqSub(seg.ack, rcvSeq(0)) + seg.wnd * 2^RcvWndScale

Emit(c, seg) ==
  [c EXCEPT !.out = Append(@, seg),
            !.edge = IF "ACK" \in seg.flags THEN Max2(@, windowEdge(seg)) ELSE @]

(* Window and ACK fields before and after the handshake has made rcv. *)
advertised(c) == IF c.est THEN wnd(c) ELSE RcvWndSize

sendSYNACK(c) ==
  Emit(c, Seg({"SYN", "ACK"}, ISS, rcvSeq(0), RcvWndSize, <<>>, <<>>))

sendACK(c) ==
  LET sack == IF SACKPermitted /\ c.est THEN sackBlocks(c) ELSE <<>>
      c1   == Emit(c, Seg({"ACK"}, c.snd.nxt, c.rcv.nxt, advertised(c), <<>>, sack))
  IN  [c1 EXCEPT !.lastWndZero = (advertised(c) = 0),
                 !.rcv.dsack = IF SACKPermitted /\ c.est THEN <<>> ELSE @]

(* sendData, and sendDataGSO for a payload larger than one segment. *)
sendData(c, data, seq) ==
  [Emit(c, Seg({"ACK"}, seq, c.rcv.nxt, wnd(c), data, <<>>))
     EXCEPT !.lastWndZero = (wnd(c) = 0)]

(* The FIN carries the window but does not record it in lastWndZero. *)
sendFINSegment(c, seq) ==
  Emit(c, Seg({"FIN", "ACK"}, seq, c.rcv.nxt, advertised(c), <<>>, <<>>))

sendRSTSegment(c, seq) ==
  Emit(c, Seg({"RST"}, seq, 0, 0, <<>>, <<>>))
=============================================================================
