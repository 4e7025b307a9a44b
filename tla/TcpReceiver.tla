---------------------------- MODULE TcpReceiver ----------------------------
(***************************************************************************)
(* The receive side of a connection (transport/tcp/rcv.go): trimming,      *)
(* in-order delivery into readBuf, the out-of-order list, the deferred FIN *)
(* and receive-buffer auto-tuning.                                         *)
(***************************************************************************)
EXTENDS TcpSegment

CONSTANTS
  InitialReadBufferSize,
  ReadBufferSize,    \* phase-1 ceiling of auto-tuning
  MaxReadBufferSize  \* phase-2 ceiling

ASSUME ReceiverAssumption ==
  /\ InitialReadBufferSize \in Nat \ {0}
  /\ ReadBufferSize \in Nat /\ MaxReadBufferSize \in Nat

autoTuneEnabled ==
  ReadBufferSize > InitialReadBufferSize \/ MaxReadBufferSize > InitialReadBufferSize

(* measuring: measureStart is set; elapsed: one SRTT has passed since then. *)
newReceiver ==
  [nxt |-> rcvSeq(0), ooo |-> <<>>, finReceived |-> FALSE, finSeq |-> 0,
   dsack |-> <<>>, bytesDelivered |-> 0, measuring |-> FALSE, elapsed |-> FALSE]

Block(start, end) == [start |-> start, end |-> end]

setDSACK(c, seq, data) ==
  [c EXCEPT !.rcv.dsack = <<Block(seq, seqAdd(seq, Len(data)))>>]
-----------------------------------------------------------------------------
(* Fault: the new size is computed from what is buffered. *)
autoTuneCheckUsed(c) ==
  [c EXCEPT !.readBuf.cap = Max2(1, Min2(2 * Len(c.readBuf.q), ReadBufferSize)),
            !.rcv.bytesDelivered = 0, !.rcv.elapsed = FALSE]

(* autoTuneCheck: double the buffer, up to the ceiling of the phase. *)
autoTuneCheck(c) ==
  LET cap     == c.readBuf.cap
      phase1  == ReadBufferSize > 0 /\ cap < ReadBufferSize
      ceiling == IF phase1 THEN ReadBufferSize ELSE MaxReadBufferSize
      busy    == c.rcv.bytesDelivered > IF phase1 THEN 0 ELSE cap \div 2
  IN  [c EXCEPT !.readBuf.cap = IF busy /\ cap < ceiling THEN Min2(2 * cap, ceiling) ELSE cap,
                !.rcv.bytesDelivered = 0, !.rcv.elapsed = FALSE]

autoTuneAccumulate(c, n) ==
  LET c1 == [c EXCEPT !.rcv.bytesDelivered = @ + n, !.rcv.measuring = TRUE]
  IN  IF ~autoTuneEnabled THEN c
      ELSE IF c.snd.srtt /\ c.rcv.elapsed THEN autoTuneCheck(c1)
      ELSE c1

(* deliver, followed by the caller's nxt += n; Delivered is that n. *)
Delivered(c, data) == IF c.readBuf.closed THEN 0 ELSE Min2(Len(data), Room(c.readBuf))

deliver(c, data) ==
  LET n  == Delivered(c, data)
      c1 == [c EXCEPT !.readBuf.q = @ \o SubSeq(data, 1, n),
                      !.rcv.nxt = seqAdd(@, n)]
  IN  IF n > 0 THEN autoTuneAccumulate(c1, n) ELSE c1
-----------------------------------------------------------------------------
(* conn.processFIN: all data before the FIN has been delivered. *)
processFIN(c) ==
  LET c1 == sendACK([c EXCEPT !.rcv.nxt = seqAdd(@, 1),
                              !.timers = @ \ {"delayedACK"}])
  IN  [c1 EXCEPT !.readBuf = IF c.readShutdown THEN @ ELSE Shut(@),
                 !.state = "CLOSE_WAIT"]

(* What of the first OOO entry is still new; fault: all of it. *)
trimmedHeadWhole(c, head) == head.data

trimmedHead(c, head) ==
  IF seqLessThan(head.seq, c.rcv.nxt)
  THEN SubSeq(head.data, seqSub(c.rcv.nxt, head.seq) + 1, Len(head.data))
  ELSE head.data

(* One turn of the deliverOOO loop; going turns FALSE when the loop ends. *)
deliverHead(st) ==
  LET c       == st.c
      head    == Head(c.rcv.ooo)
      data    == trimmedHead(c, head)
      n       == Delivered(c, data)
      left    == [seq |-> seqAdd(c.rcv.nxt, n), data |-> SubSeq(data, n + 1, Len(data))]
  IN  IF ~st.going \/ c.rcv.ooo = <<>> \/ seqGreaterThan(head.seq, c.rcv.nxt)
      THEN [st EXCEPT !.going = FALSE]
      ELSE IF data = <<>> THEN [st EXCEPT !.c.rcv.ooo = Tail(@)]
      ELSE IF n < Len(data)
      THEN [c |-> [deliver(c, data) EXCEPT !.rcv.ooo = <<left>> \o Tail(@)], going |-> FALSE]
      ELSE [c |-> [deliver(c, data) EXCEPT !.rcv.ooo = Tail(@)], going |-> TRUE]

(* A FIN that arrived early takes effect once the data before it has. *)
deferredFIN(c) ==
  IF c.rcv.finReceived /\ c.rcv.nxt = c.rcv.finSeq
  THEN processFIN([c EXCEPT !.rcv.finReceived = FALSE]) ELSE c

deliverOOO(c) ==
  LET turn(st, e) == deliverHead(st)
  IN  deferredFIN(FoldLeft(turn, [c |-> c, going |-> TRUE], c.rcv.ooo).c)

(***************************************************************************)
(* insertOOO: a segment inside an existing entry is reported as a          *)
(* duplicate; any other is merged with the entry before it and with the    *)
(* entries after it that it overlaps or touches.                           *)
(***************************************************************************)
mergeIntoUntrimmed(cur, e) ==   \* fault: the overlap is not cut off
  IF seqGreaterThan(oooEnd(e), oooEnd(cur)) THEN [cur EXCEPT !.data = @ \o e.data] ELSE cur

mergeInto(cur, e) ==
  IF seqGreaterThan(oooEnd(e), oooEnd(cur))
  THEN [cur EXCEPT !.data = @ \o SubSeq(e.data, seqSub(oooEnd(cur), e.seq) + 1, Len(e.data))]
  ELSE cur

absorbFollowing(cur, after) ==
  LET absorb(acc, e) ==
        IF acc.gap \/ seqLessThan(oooEnd(acc.cur), e.seq)
        THEN [acc EXCEPT !.gap = TRUE, !.tail = Append(@, e)]
        ELSE [acc EXCEPT !.cur = mergeInto(@, e)]
      res == FoldLeft(absorb, [cur |-> cur, gap |-> FALSE, tail |-> <<>>], after)
  IN  <<res.cur>> \o res.tail

insertOOO(c, seq, data) ==
  LET ooo     == c.rcv.ooo
      new     == [seq |-> seq, data |-> data]
      covered == \E i \in DOMAIN ooo : /\ ~seqLessThan(seq, ooo[i].seq)
                                       /\ ~seqGreaterThan(oooEnd(new), oooEnd(ooo[i]))
      notLess(e) == ~seqLessThan(e.seq, seq)
      first   == SelectInSeq(ooo, notLess)
      i       == IF first = 0 THEN Len(ooo) ELSE first - 1
      before  == SubSeq(ooo, 1, i)
      after   == SubSeq(ooo, i + 1, Len(ooo))
      merge   == i > 0 /\ ~seqLessThan(oooEnd(Last(before)), seq)
      replace == ~merge /\ after # <<>> /\ Head(after).seq = seq
      cur     == IF merge THEN mergeInto(Last(before), new) ELSE new
      list    == (IF merge THEN Front(before) ELSE before)
                 \o absorbFollowing(cur, IF replace THEN Tail(after) ELSE after)
  IN  IF covered THEN setDSACK(c, seq, data) ELSE [c EXCEPT !.rcv.ooo = list]

(***************************************************************************)
(* handleData: trim what was already received and what lies beyond the     *)
(* window, then deliver, buffer out of order, or discard.                  *)
(***************************************************************************)
handleData(c, seq0, data0) ==
  LET overlap == seqSub(c.rcv.nxt, seq0)
      old     == seqLessThan(seq0, c.rcv.nxt)
      seq     == IF old THEN c.rcv.nxt ELSE seq0
      fresh   == IF old THEN SubSeq(data0, overlap + 1, Len(data0)) ELSE data0
      wndEnd  == seqAdd(c.rcv.nxt, rcvWnd(c))
      data    == IF seqGreaterThan(seqAdd(seq, Len(fresh)), wndEnd)
                 THEN SubSeq(fresh, 1, seqSub(wndEnd, seq)) ELSE fresh
  IN  IF old /\ overlap >= Len(data0) THEN setDSACK(c, seq0, data0)
      ELSE IF rcvWnd(c) = 0 \/ ~seqLessThan(seq, wndEnd) THEN c
      ELSE IF c.readShutdown
           THEN IF seq = c.rcv.nxt THEN [c EXCEPT !.rcv.nxt = seqAdd(@, Len(data))] ELSE c
      ELSE IF seq = c.rcv.nxt
           THEN IF Delivered(c, data) > 0 THEN deliverOOO(deliver(c, data)) ELSE c
      ELSE IF seqGreaterThan(seq, c.rcv.nxt) THEN insertOOO(c, seq, data)
      ELSE c
=============================================================================
