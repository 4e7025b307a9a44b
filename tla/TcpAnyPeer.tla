----------------------------- MODULE TcpAnyPeer -----------------------------
(***************************************************************************)
(* A connection facing a correct peer over the worst network: at any time  *)
(* any segment the peer may have sent, at whatever moment, can arrive.     *)
(* Loss, duplication, reordering and delay need no machinery of their own: *)
(* a segment carries any slice of the peer's stream, any acknowledgement   *)
(* that was true at some time, and any window.  The peer remembers which   *)
(* positions of our stream it holds, so what it acknowledges or SACKs is   *)
(* really there.                                                           *)
(***************************************************************************)
EXTENDS TcpConn

CONSTANTS
  PeerBytes,   \* length of the peer's stream; its FIN is at this position
  PeerMSS,     \* largest payload of a peer segment
  Windows,     \* values of the peer's window field
  PeerOps      \* kinds of segments explored

ASSUME PeerAssumption ==
  /\ PeerBytes \in Nat /\ PeerMSS \in Nat \ {0} /\ Windows \subseteq Nat
  /\ PeerOps \subseteq {"data", "fin", "ack", "sack", "noack", "rst", "syn", "stray"}
  \* positions of each stream, SYN and FIN included, fit in half the space
  /\ PeerBytes + 2 < Half /\ AppBytes + 2 < Half

(* The environment's state: the positions of our stream, FIN included, that *)
(* the peer has received.                                                  *)
held == env

vars == <<conn, app, env>>

(* Positions of our stream that have been sent, and acknowledged. *)
sentPos == seqSub(conn.snd.nxt, sndSeq(0))
unaPos  == seqSub(conn.snd.una, sndSeq(0))
gotPos  == CHOOSE p \in 0 .. AppBytes + 1 : p \notin held /\ 0 .. p - 1 \subseteq held

(* A position reaches the peer.  What it holds beyond the first gap shows   *)
(* only in SACK blocks; without them positions arrive in order.            *)
PeerHolds ==
  \E p \in (0 .. sentPos - 1) \ held :
     /\ "sack" \notin PeerOps => p = gotPos
     /\ env' = held \cup {p}
     /\ UNCHANGED <<conn, app>>
-----------------------------------------------------------------------------
(* A SACK block over a maximal run of what the peer holds out of order. *)
Runs ==
  {r \in (gotPos .. AppBytes) \X (gotPos .. AppBytes) :
     /\ r[1] =< r[2] /\ r[1] .. r[2] \subseteq held
     /\ r[1] - 1 \notin held /\ r[2] + 1 \notin held}

SackOptions ==
  {<<>>} \cup IF "sack" \in PeerOps
              THEN {<<Block(sndSeq(r[1]), sndSeq(r[2] + 1))>> : r \in Runs} ELSE {}

(* Payload slices <<from, to, fin>>; from = to without FIN is a pure ACK. *)
Slices ==
  {s \in (0 .. PeerBytes) \X (0 .. PeerBytes) \X BOOLEAN :
     /\ s[1] =< s[2] /\ s[2] - s[1] =< PeerMSS
     /\ s[3] => "fin" \in PeerOps /\ s[2] = PeerBytes
     /\ s[1] < s[2] => "data" \in PeerOps
     /\ s[1] = s[2] /\ ~s[3] => s[1] = PeerBytes /\ "ack" \in PeerOps}

Payload(s) == [i \in 1 .. s[2] - s[1] |-> s[1] + i - 1]
Flags(s, ack) == (IF s[3] THEN {"FIN"} ELSE {}) \cup (IF ack THEN {"ACK"} ELSE {})

(* Any ACK the peer can have sent. *)
Acks == 0 .. gotPos

PeerSegments ==
  {Seg(Flags(s, ack), rcvSeq(s[1]), sndSeq(p), w, Payload(s), b) :
     s \in Slices, p \in Acks, w \in Windows, b \in SackOptions,
     ack \in {TRUE} \cup IF "noack" \in PeerOps THEN {FALSE} ELSE {}}

(* A reset at any position the peer's SND.NXT has had. *)
Resets ==
  IF "rst" \in PeerOps
  THEN {Seg({"RST"}, rcvSeq(p), 0, 0, <<>>, <<>>) : p \in 0 .. PeerBytes + 1} ELSE {}

(* The SYN again. *)
SYNs == IF "syn" \in PeerOps THEN {Seg({"SYN"}, IRS, 0, RcvWndSize, <<>>, <<>>)} ELSE {}

(* A delayed segment of an earlier incarnation, during the handshake. *)
Strays ==
  IF "stray" \in PeerOps /\ conn.state = "SYN_RCVD"
  THEN {Seg({"ACK"}, seq, sndSeq(1), 0, <<>>, <<>>) :
          seq \in {rcvSeq(0), seqAdd(rcvSeq(0), RcvWndSize)}} ELSE {}

SegmentArrives ==
  \E seg \in PeerSegments \cup Resets \cup SYNs \cup Strays :
     /\ seg.flags # {} \/ seg.data # <<>>
     /\ RunInbound(seg)
     /\ UNCHANGED env

PeerStep == PeerHolds \/ SegmentArrives

Init == ConnInit /\ env = {}
Next == (ConnStep /\ UNCHANGED env) \/ PeerStep
Spec == Init /\ [][Next]_vars
=============================================================================
