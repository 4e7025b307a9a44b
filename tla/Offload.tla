------------------------------ MODULE Offload ------------------------------
(***************************************************************************)
(* Receive offload on the way to a TUN device and segmentation on the way  *)
(* back (channel/tun/offload.go, nativeTun.write and read of tun.go,       *)
(* TUNChannel.ReadPacket).                                                 *)
(*                                                                         *)
(* write takes a batch of packets; handleGRO merges those of a flow that   *)
(* follow each other, and what is left is written with a virtio header.    *)
(* A TUN reader gets it back: handleVirtioRead takes super-packets apart   *)
(* and ReadPacket hands the parts out one at a time.  The two ends are run *)
(* against each other, a batch after the other.                            *)
(*                                                                         *)
(* A byte of payload is known by the packet of the batch it came in and by *)
(* its place there.  A flow stands for the addresses and ports, and in TCP *)
(* for the acknowledgement number too (tcpFlowKey); cls for all that the   *)
(* headers must agree on (TCP options, ToS, DF, TTL).  Packets that GRO    *)
(* never looks at (IP options, fragments, other flags, no payload) are     *)
(* "other"; lengths and seq are too small to wrap.                         *)
(***************************************************************************)
EXTENDS Integers, Sequences, SequencesExt

CONSTANTS
  Packets,     \* what may be written: records [proto, flow, cls, seq, len, psh, csum]
  BatchSize,   \* packets of a batch
  BufCap,      \* payload for which a buffer has capacity
  ReadBufs,    \* len(bufs) of the reading TUNChannel
  Unset        \* no virtio header was put before a buffer; no write in progress

ASSUME OffloadAssumption ==
  /\ BatchSize \in Nat \ {0} /\ BufCap \in Nat \ {0} /\ ReadBufs \in Nat \ {0}
  /\ \A p \in Packets : p.proto \in {"tcp", "udp", "other"} /\ p.len \in 0 .. BufCap

VARIABLES
  sent,      \* the packets of the batch, as they came
  gro,       \* write's state: bufs, the two tables, toWrite and the headers
  wire,      \* what was written and not read yet
  batch,     \* TUNChannel's batch from head on
  got,       \* what ReadPacket returned
  overflow   \* a super-packet had more segments than the reader has buffers

offloadVars == <<sent, gro, wire, batch, got, overflow>>

Flows == {p.flow : p \in Packets}

(* The packet p as the i-th of a batch. *)
Packet(p, i) ==
  [proto |-> p.proto, flow |-> p.flow, cls |-> p.cls, seq |-> p.seq, psh |-> p.psh,
   csum |-> p.csum, data |-> [k \in 1 .. p.len |-> <<i, k>>]]

(* The tables after reset, nothing to write. *)
NewGRO == [bufs |-> <<>>, tcp |-> [f \in Flows |-> <<>>], udp |-> [f \in Flows |-> <<>>],
           toWrite |-> <<>>, hdr |-> <<>>]
-----------------------------------------------------------------------------
(* newTCPFlowKey, insert: the item of a packet that was not merged. *)
NewItem(pkt, i) ==
  [buf |-> i, seq |-> pkt.seq, numMerged |-> 0, gsoSize |-> Len(pkt.data), psh |-> pkt.psh,
   cSumKnownInvalid |-> FALSE]

(* tcpPacketsCanCoalesce = coalesceAppend. *)
canAppend(pkt, item, target) ==
  /\ pkt.cls = target.cls
  /\ pkt.seq = item.seq + (item.numMerged + 1) * item.gsoSize
  /\ ~item.psh
  /\ Len(target.data) % item.gsoSize = 0
  /\ Len(pkt.data) =< item.gsoSize

(* tcpPacketsCanCoalesce = coalescePrepend. *)
canPrepend(pkt, item, target) ==
  /\ pkt.cls = target.cls
  /\ pkt.seq # item.seq + (item.numMerged + 1) * item.gsoSize
  /\ pkt.seq + Len(pkt.data) = item.seq
  /\ ~pkt.psh
  /\ Len(pkt.data) >= item.gsoSize
  /\ Len(pkt.data) > item.gsoSize => item.numMerged = 0

udpPacketsCanCoalesce(pkt, item, target) ==
  /\ pkt.cls = target.cls
  /\ Len(target.data) % item.gsoSize = 0
  /\ Len(pkt.data) =< item.gsoSize

(* What stops a merge that the headers allow, in the order of the tests. *)
coalesceResult(pkt, item, target) ==
  CASE Len(target.data) + Len(pkt.data) > BufCap -> "insufficientCap"
    [] item.numMerged = 0 /\ (item.cSumKnownInvalid \/ ~target.csum) -> "itemInvalidCSum"
    [] ~pkt.csum -> "pktInvalidCSum"
    [] OTHER -> "success"

appendItem(item, pkt) ==
  [item EXCEPT !.numMerged = @ + 1, !.psh = @ \/ pkt.psh]

appendBuf(target, pkt) ==
  [target EXCEPT !.data = @ \o pkt.data, !.psh = @ \/ pkt.psh]

(* Fault: the item keeps the size of its smaller first packet. *)
prependItemKeepsSize(item, pkt) ==
  [item EXCEPT !.numMerged = @ + 1, !.seq = pkt.seq]

prependItem(item, pkt) ==
  [item EXCEPT !.numMerged = @ + 1, !.seq = pkt.seq,
               !.gsoSize = IF Len(pkt.data) > @ THEN Len(pkt.data) ELSE @]

(* The packet in front keeps its own header: its PSH bit, too. *)
prependBuf(target, pkt) == [pkt EXCEPT !.data = @ \o target.data]
-----------------------------------------------------------------------------
(* coalesceTCPPackets and updateAt for the j-th item of the flow; a prepend *)
(* swaps the two buffers, the item's index being in toWrite already.       *)
coalesceTCP(g, pktI, j) ==
  LET pkt == g.bufs[pktI]
      item == g.tcp[pkt.flow][j]
      target == g.bufs[item.buf]
  IN IF canAppend(pkt, item, target)
     THEN [g EXCEPT !.tcp[pkt.flow][j] = appendItem(@, pkt), !.bufs[item.buf] = appendBuf(@, pkt)]
     ELSE [g EXCEPT !.tcp[pkt.flow][j] = prependItem(@, pkt),
                    !.bufs = [@ EXCEPT ![item.buf] = prependBuf(target, pkt), ![pktI] = target]]

(* One round of tcpGRO's loop over the flow's items, unless it has returned. *)
tryItem(pktI, acc, j) ==
  LET pkt == acc.g.bufs[pktI]
      item == acc.g.tcp[pkt.flow][j]
      target == acc.g.bufs[item.buf]
  IN IF \/ acc.result # "open"
        \/ ~canAppend(pkt, item, target) /\ ~canPrepend(pkt, item, target)
     THEN acc
     ELSE CASE coalesceResult(pkt, item, target) = "success" ->
                 [g |-> coalesceTCP(acc.g, pktI, j), result |-> "coalesced"]
            [] coalesceResult(pkt, item, target) = "itemInvalidCSum" ->
                 [acc EXCEPT !.g.tcp[pkt.flow] = RemoveAt(@, j)]
            [] coalesceResult(pkt, item, target) = "pktInvalidCSum" ->
                 [acc EXCEPT !.result = "noop"]
            [] OTHER -> acc

(* groResultNoop: written as it is, under an empty header. *)
noop(g, i) == [g EXCEPT !.hdr[i] = 0, !.toWrite = Append(@, i)]

insertTCP(g, i) ==
  [g EXCEPT !.tcp[g.bufs[i].flow] = Append(@, NewItem(g.bufs[i], i)), !.toWrite = Append(@, i)]

(* The loop goes from the last item to the first. *)
tcpGRO(g, i) ==
  LET end == FoldLeft(LAMBDA acc, j : tryItem(i, acc, j), [g |-> g, result |-> "open"],
                      Reverse([j \in 1 .. Len(g.tcp[g.bufs[i].flow]) |-> j]))
  IN CASE end.result = "coalesced" -> end.g
       [] end.result = "noop" -> noop(end.g, i)
       [] OTHER -> insertTCP(end.g, i)

insertUDP(g, i, invalid) ==
  [g EXCEPT !.udp[g.bufs[i].flow] =
              Append(@, [NewItem(g.bufs[i], i) EXCEPT !.cSumKnownInvalid = invalid]),
            !.toWrite = Append(@, i)]

coalesceUDP(g, i, item) ==
  [g EXCEPT !.udp[g.bufs[i].flow][Len(g.udp[g.bufs[i].flow])].numMerged = @ + 1,
            !.bufs[item.buf].data = @ \o g.bufs[i].data]

(* Fault: a packet with a bad checksum is not put in the table, as in TCP. *)
udpGROSkipsInvalid(g, i) ==
  LET pkt == g.bufs[i]
      items == g.udp[pkt.flow]
  IN IF items = <<>> \/ ~udpPacketsCanCoalesce(pkt, Last(items), g.bufs[Last(items).buf])
     THEN insertUDP(g, i, FALSE)
     ELSE CASE coalesceResult(pkt, Last(items), g.bufs[Last(items).buf]) = "success" ->
                 coalesceUDP(g, i, Last(items))
            [] coalesceResult(pkt, Last(items), g.bufs[Last(items).buf]) = "pktInvalidCSum" ->
                 noop(g, i)
            [] OTHER -> insertUDP(g, i, FALSE)

(* Only the last item of the flow is tried. *)
udpGRO(g, i) ==
  LET pkt == g.bufs[i]
      items == g.udp[pkt.flow]
  IN IF items = <<>> \/ ~udpPacketsCanCoalesce(pkt, Last(items), g.bufs[Last(items).buf])
     THEN insertUDP(g, i, FALSE)
     ELSE CASE coalesceResult(pkt, Last(items), g.bufs[Last(items).buf]) = "success" ->
                 coalesceUDP(g, i, Last(items))
            [] coalesceResult(pkt, Last(items), g.bufs[Last(items).buf]) = "pktInvalidCSum" ->
                 insertUDP(g, i, TRUE)
            [] OTHER -> insertUDP(g, i, FALSE)

(* handleGRO's loop body for the packet just put at the end of bufs. *)
GRO(g, i) ==
  CASE g.bufs[i].proto = "tcp" /\ g.bufs[i].data # <<>> -> tcpGRO(g, i)
    [] g.bufs[i].proto = "udp" /\ g.bufs[i].data # <<>> -> udpGRO(g, i)
    [] OTHER -> noop(g, i)

(* applyTCPCoalesceAccounting, applyUDPCoalesceAccounting: the headers of   *)
(* the packets that the tables hold.  One that was deleted gets none.      *)
Items(g) == UNION {ToSet(g.tcp[f]) \cup ToSet(g.udp[f]) : f \in Flows}

ItemAt(g, i) == CHOOSE t \in Items(g) : t.buf = i

applyCoalesceAccounting(g) ==
  [i \in DOMAIN g.hdr |->
     IF \E t \in Items(g) : t.buf = i
     THEN IF ItemAt(g, i).numMerged > 0 THEN ItemAt(g, i).gsoSize ELSE 0
     ELSE g.hdr[i]]
-----------------------------------------------------------------------------
(* Fault: PSH is not taken from the segments before the last. *)
SegmentKeepsPsh(pkt, gsoSize, k) ==
  LET end == k * gsoSize
      data == SubSeq(pkt.data, (k - 1) * gsoSize + 1, IF end < Len(pkt.data) THEN end ELSE Len(pkt.data))
  IN [pkt EXCEPT !.data = data, !.csum = TRUE,
                 !.seq = IF pkt.proto = "tcp" THEN @ + gsoSize * (k - 1) ELSE @]

(* gsoSplit: the k-th segment of a super-packet. *)
Segment(pkt, gsoSize, k) ==
  LET end == k * gsoSize
      data == SubSeq(pkt.data, (k - 1) * gsoSize + 1, IF end < Len(pkt.data) THEN end ELSE Len(pkt.data))
  IN [pkt EXCEPT !.data = data, !.csum = TRUE,
                 !.seq = IF pkt.proto = "tcp" THEN @ + gsoSize * (k - 1) ELSE @,
                 !.psh = @ /\ end >= Len(pkt.data)]

Segments(pkt, gsoSize) == (Len(pkt.data) + gsoSize - 1) \div gsoSize

(* How many buffers gsoSplit reports as filled: with more segments than    *)
(* buffers, one less than it filled.                                       *)
gsoSplit(pkt, gsoSize) ==
  [k \in 1 .. (IF Segments(pkt, gsoSize) > ReadBufs THEN ReadBufs - 1 ELSE Segments(pkt, gsoSize)) |->
     Segment(pkt, gsoSize, k)]

(* handleVirtioRead of a packet with the header hdr.  What the kernel makes *)
(* of a packet whose header holds whatever was there before is not known:  *)
(* the model loses it.                                                     *)
handleVirtioRead(pkt, hdr) ==
  CASE hdr = Unset -> <<>>
    [] hdr = 0 -> <<pkt>>
    [] OTHER -> gsoSplit(pkt, hdr)
-----------------------------------------------------------------------------
OffloadInit ==
  sent = <<>> /\ gro = NewGRO /\ wire = <<>> /\ batch = <<>> /\ got = <<>> /\ overflow = FALSE

(* handleGRO comes to the next packet of the batch. *)
HandleGRO(p) ==
  /\ gro # Unset /\ Len(sent) < BatchSize
  /\ sent' = Append(sent, Packet(p, Len(sent) + 1))
  /\ gro' = GRO([gro EXCEPT !.bufs = Append(@, Last(sent')), !.hdr = Append(@, Unset)], Len(sent'))
  /\ UNCHANGED <<wire, batch, got, overflow>>

(* The batch has no more packets: write accounts for what was merged, writes *)
(* the buffers of toWrite and resets the tables.                           *)
Write ==
  /\ sent # <<>> /\ gro # Unset
  /\ LET hdr == applyCoalesceAccounting(gro)
     IN wire' = [n \in DOMAIN gro.toWrite |->
                   [pkt |-> gro.bufs[gro.toWrite[n]], hdr |-> hdr[gro.toWrite[n]]]]
  /\ gro' = Unset
  /\ UNCHANGED <<sent, batch, got, overflow>>

(* ReadPacket with an empty batch: read from the device, and again until    *)
(* something comes of it (ErrTooManySegments is not returned).             *)
BatchRead ==
  /\ batch = <<>> /\ wire # <<>>
  /\ batch' = handleVirtioRead(Head(wire).pkt, Head(wire).hdr)
  /\ overflow' = \/ overflow
                 \/ /\ Head(wire).hdr \notin {Unset, 0}
                    /\ Segments(Head(wire).pkt, Head(wire).hdr) > ReadBufs
  /\ wire' = Tail(wire)
  /\ UNCHANGED <<sent, gro, got>>

(* ReadPacket returns the next packet of the batch. *)
ReadPacket ==
  /\ batch # <<>>
  /\ got' = Append(got, Head(batch)) /\ batch' = Tail(batch)
  /\ UNCHANGED <<sent, gro, wire, overflow>>

AllRead == gro = Unset /\ wire = <<>> /\ batch = <<>>

(* The next batch: the tables were reset. *)
NextBatch ==
  /\ AllRead
  /\ sent' = <<>> /\ gro' = NewGRO /\ got' = <<>> /\ overflow' = FALSE
  /\ UNCHANGED <<wire, batch>>

OffloadNext == (\E p \in Packets : HandleGRO(p)) \/ Write \/ BatchRead \/ ReadPacket \/ NextBatch

OffloadSpec == OffloadInit /\ [][OffloadNext]_offloadVars
-----------------------------------------------------------------------------
(* Where in the batch a packet that was read came from. *)
From(pkt) == pkt.data[1][1]

(* The packet that was sent, whatever became of its PSH bit. *)
SameButPsh(pkt, orig) ==
  /\ [pkt EXCEPT !.psh = FALSE, !.csum = TRUE] = [orig EXCEPT !.psh = FALSE, !.csum = TRUE]
  /\ pkt.psh => orig.psh

(***************************************************************************)
(* Taking apart undoes merging.  Every packet that comes out was put in:   *)
(* its bytes together and in order, under its own sequence number, once,   *)
(* and with PSH only if it had it (a packet put in front of one with PSH   *)
(* takes the bit away).  If no super-packet overflowed the reader's        *)
(* buffers, every packet with a good checksum comes out.                   *)
(***************************************************************************)
RoundTrip ==
  /\ \A n \in DOMAIN got :
       \E i \in DOMAIN sent : SameButPsh(got[n], sent[i])
  /\ \A m, n \in DOMAIN got : m # n /\ got[m].data # <<>> => got[m].data # got[n].data
  /\ AllRead /\ ~overflow =>
       \A i \in DOMAIN sent : sent[i].csum => \E n \in DOMAIN got : SameButPsh(got[n], sent[i])

(***************************************************************************)
(* "With UDP we only check the last item, otherwise we could reorder       *)
(* packets for a given flow": the datagrams of a flow that carry payload   *)
(* come out in the order in which they were sent.                          *)
(***************************************************************************)
UdpInOrder ==
  \A m, n \in DOMAIN got :
    /\ m < n /\ got[m].proto = "udp" /\ got[n].proto = "udp" /\ got[m].flow = got[n].flow
    /\ got[m].data # <<>> /\ got[n].data # <<>>
    => From(got[m]) < From(got[n])

(***************************************************************************)
(* What the tables say of a buffer is true of it: the buffer is one that   *)
(* will be written, and no other item describes it; it starts at the       *)
(* item's sequence number, and it holds numMerged segments of gsoSize and  *)
(* a last one that is no longer.  All but the last thus are full, which is *)
(* what segmentation relies on.                                            *)
(***************************************************************************)
ItemsDescribeBuffers ==
  gro # Unset =>
    /\ \A t \in Items(gro) :
         /\ t.buf \in ToSet(gro.toWrite)
         /\ gro.bufs[t.buf].seq = t.seq
         /\ Len(gro.bufs[t.buf].data) \in t.numMerged * t.gsoSize + 1 .. (t.numMerged + 1) * t.gsoSize
    /\ \A t, u \in Items(gro) : t.buf = u.buf => t = u
=============================================================================
