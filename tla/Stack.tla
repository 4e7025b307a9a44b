------------------------------- MODULE Stack --------------------------------
(***************************************************************************)
(* The stack as a whole (stack/stack.go, icmp.go, channel/memory.go,       *)
(* transport/udp/handler.go): the read and the write loop, the outbound    *)
(* queue between the transports and the channel, and Stop, composed with   *)
(* the TCP handler of TcpHandler or with the UDP handler.                  *)
(*                                                                         *)
(* Every step of the TCP handler that sends is taken apart at SendPacket,  *)
(* which blocks while the outbound queue is full: the reader inside        *)
(* handleSYN (with h.mu held) and sendRST, and run() of a connection.      *)
(* Blocked senders wait in a queue, as Go's do: who makes room puts the    *)
(* first one's item in its place.                                          *)
(*                                                                         *)
(* Packets are counted, not told apart; what a connection does with its    *)
(* segments and the reassembler with fragments are other modules' subject. *)
(* Packets that are dropped on arrival (invalid, unknown protocol, not the *)
(* last fragment, a full UDP queue) change nothing: the buffer is released *)
(* and the next one allocated.                                             *)
(***************************************************************************)
EXTENDS TcpHandler, FiniteSets

CONSTANTS
  OutboundQueueSize,   \* capacity of outboundCh
  WireSize,            \* capacity of MemoryChannel.outbound
  UdpQueueSize,        \* capacity of UDPHandler.inbound
  MaxFragments         \* bound: wire packets of one outbound item

ASSUME StackAssumption ==
  /\ OutboundQueueSize \in Nat \ {0} /\ WireSize \in Nat \ {0}
  /\ UdpQueueSize \in Nat \ {0} /\ MaxFragments \in Nat \ {0}

VARIABLES
  traffic,             \* bound: the protocols in use, TCP alone or the two others
  rl,                  \* where readLoop is
  lock,                \* h.mu is held across a blocking call
  at,                  \* per connection: what run() is sending, "loop" if nothing
  wl, left,            \* where writeLoop is, and the wire packets left of its item
  outboundCh, sendq,   \* items in outboundCh, and the senders waiting for room
  wire, wireq,         \* the same of MemoryChannel.outbound
  done,                \* s.done is closed
  chClosed,            \* the channel is closed
  stopper,             \* where Stop is
  udpIn,               \* datagrams in UDPHandler.inbound
  udpDone,             \* UDPHandler.done is closed
  udpReader,           \* the application's loop around ReadFrom
  udpWriter,           \* the application inside WriteTo
  bufs, refs           \* PacketBuffers and RefBufs that are out of their pools

outVars == <<outboundCh, sendq>>
wireVars == <<wire, wireq>>
writeVars == <<wl, left, wireVars>>
stopVars == <<done, chClosed, stopper>>
udpVars == <<udpIn, udpDone, udpReader, udpWriter, refs>>
stackVars == <<traffic, rl, lock, at, outVars, writeVars, stopVars, udpVars, bufs>>
allVars == <<vars, stackVars>>

(* Those who may wait in a queue. *)
Reader == <<"reader", 0>>
Writer == <<"writer", 0>>
UdpApp == <<"udp", 0>>
RunOf(c) == <<"conn", c>>

Waits(g, q) == \E i \in DOMAIN q : q[i] = g
Without(q, i) == SubSeq(q, 1, i - 1) \o SubSeq(q, i + 1, Len(q))

StackInit ==
  /\ Init
  /\ traffic \in {{"tcp"}, {"udp", "icmp"}}
  /\ rl = "read" /\ lock = FALSE /\ at = [c \in Conns |-> "loop"]
  /\ wl = "select" /\ left = 0
  /\ outboundCh = 0 /\ sendq = <<>> /\ wire = 0 /\ wireq = <<>>
  /\ done = FALSE /\ chClosed = FALSE /\ stopper = "no"
  /\ udpIn = 0 /\ udpDone = FALSE /\ udpReader = "reading" /\ udpWriter = "idle"
  /\ bufs = 1 /\ refs = 0
-----------------------------------------------------------------------------
(* Fault: a packet that is dropped because the stack stops is not released. *)
SendPacketKeeps(g, extra) ==
  \/ /\ outboundCh < OutboundQueueSize
     /\ outboundCh' = outboundCh + 1 /\ sendq' = sendq /\ bufs' = bufs + extra + 1
  \/ /\ done
     /\ outboundCh' = outboundCh /\ sendq' = sendq /\ bufs' = bufs + extra + 1
  \/ /\ outboundCh = OutboundQueueSize /\ ~done
     /\ outboundCh' = outboundCh /\ sendq' = Append(sendq, g) /\ bufs' = bufs + extra + 1

(* NewPacketBuffer and SendPacket (or their GSO forms) by g, with extra     *)
(* other buffers allocated or, if negative, released in the same step.  The *)
(* packet is queued or, when the stack is stopping, released (with both     *)
(* cases ready it may be either); with neither ready g waits.              *)
SendPacket(g, extra) ==
  \/ /\ outboundCh < OutboundQueueSize
     /\ outboundCh' = outboundCh + 1 /\ sendq' = sendq /\ bufs' = bufs + extra + 1
  \/ /\ done
     /\ outboundCh' = outboundCh /\ sendq' = sendq /\ bufs' = bufs + extra
  \/ /\ outboundCh = OutboundQueueSize /\ ~done
     /\ outboundCh' = outboundCh /\ sendq' = Append(sendq, g) /\ bufs' = bufs + extra + 1

(* Whether that left g waiting. *)
Blocked(g) == Waits(g, sendq')

(* done is closed: a waiting sender releases its packet. *)
SendAborted ==
  /\ done /\ sendq # <<>>
  /\ \E i \in DOMAIN sendq : sendq' = Without(sendq, i)
  /\ bufs' = bufs - 1
  /\ UNCHANGED <<vars, traffic, rl, lock, at, outboundCh, writeVars, stopVars, udpVars>>
-----------------------------------------------------------------------------
(* WritePacket of the channel by g: tests closed, then waits for room or    *)
(* for closed.                                                             *)
WritePacket(g) ==
  IF chClosed THEN UNCHANGED wireVars
  ELSE IF wire < WireSize THEN wire' = wire + 1 /\ wireq' = wireq
  ELSE wire' = wire /\ wireq' = Append(wireq, g)

WriteAborted ==
  /\ chClosed /\ wireq # <<>>
  /\ \E i \in DOMAIN wireq : wireq' = Without(wireq, i)
  /\ UNCHANGED <<vars, traffic, rl, lock, at, outVars, wl, left, wire, stopVars, udpVars, bufs>>

(* Whoever is at the other end of the channel reads a packet. *)
PeerReads ==
  /\ wire > 0
  /\ IF wireq = <<>> THEN wire' = wire - 1 /\ wireq' = wireq
                     ELSE wire' = wire /\ wireq' = Tail(wireq)
  /\ UNCHANGED <<vars, traffic, rl, lock, at, outVars, wl, left, stopVars, udpVars, bufs>>
-----------------------------------------------------------------------------
(* A packet can be read: also from a closed MemoryChannel that still holds *)
(* some.                                                                   *)
Arrives(proto) == rl = "read" /\ proto \in traffic

(* A datagram: its payload is copied into a RefBuf, which is given back at  *)
(* once if the queue is full.                                              *)
UdpHandlePacket ==
  /\ Arrives("udp") /\ udpIn < UdpQueueSize
  /\ udpIn' = udpIn + 1 /\ refs' = refs + 1
  /\ UNCHANGED <<vars, traffic, rl, lock, at, outVars, writeVars, stopVars, udpDone,
                 udpReader, udpWriter, bufs>>

(* An echo request: handleICMP itself writes the answer to the channel. *)
handleICMP ==
  /\ Arrives("icmp")
  /\ WritePacket(Reader)
  /\ rl' = IF Waits(Reader, wireq') THEN "icmp" ELSE "read"
  /\ UNCHANGED <<vars, traffic, lock, at, outVars, wl, left, stopVars, udpVars, bufs>>

IcmpWritten ==
  /\ rl = "icmp" /\ ~Waits(Reader, wireq) /\ rl' = "read"
  /\ UNCHANGED <<vars, traffic, lock, at, outVars, writeVars, stopVars, udpVars, bufs>>

(* A TCP segment: HandlePacket looks its flow up.  No RST arrives: to a     *)
(* connection it is like any segment, to none it is dropped.               *)
TcpLookUp(f, kind) ==
  /\ Arrives("tcp") /\ LookUp(f, kind) /\ rl' = "tcp"
  /\ UNCHANGED <<traffic, lock, at, outVars, writeVars, stopVars, udpVars, bufs>>

(* The segment's buffer goes to the connection, or is dropped when its     *)
(* queue is full; the loop then allocates the next one.                    *)
TcpEnqueue ==
  /\ rl = "tcp" /\ Enqueue /\ rl' = "read"
  /\ bufs' = IF inbound' = inbound THEN bufs ELSE bufs + 1
  /\ UNCHANGED <<traffic, lock, at, outVars, writeVars, stopVars, udpVars>>

(* handleSYN when the handler was closed meanwhile. *)
TcpDropSYN ==
  /\ rl = "tcp" /\ closed /\ handleSYN /\ rl' = "read"
  /\ UNCHANGED <<traffic, lock, at, outVars, writeVars, stopVars, udpVars, bufs>>

(* handleSYN: h.mu is locked until the SYN-ACK has been queued. *)
TcpHandleSYN ==
  /\ rl = "tcp" /\ ~closed /\ handleSYN
  /\ SendPacket(Reader, 0)
  /\ rl' = IF Blocked(Reader) THEN "send" ELSE "read"
  /\ lock' = Blocked(Reader)
  /\ UNCHANGED <<traffic, at, writeVars, stopVars, udpVars>>

(* A segment for no connection is answered with a RST. *)
TcpReject ==
  /\ rl = "tcp" /\ Reject
  /\ SendPacket(Reader, 0)
  /\ rl' = IF Blocked(Reader) THEN "send" ELSE "read"
  /\ UNCHANGED <<traffic, lock, at, writeVars, stopVars, udpVars>>

(* Fault: h.mu stays locked when the SYN-ACK had to wait. *)
ReaderSentLocked ==
  /\ rl = "send" /\ ~Waits(Reader, sendq)
  /\ rl' = "read" /\ lock' = lock
  /\ UNCHANGED <<vars, traffic, at, outVars, writeVars, stopVars, udpVars, bufs>>

(* SendPacket returned; h.mu is unlocked if it was held. *)
ReaderSent ==
  /\ rl = "send" /\ ~Waits(Reader, sendq)
  /\ rl' = "read" /\ lock' = FALSE
  /\ UNCHANGED <<vars, traffic, at, outVars, writeVars, stopVars, udpVars, bufs>>

(* ReadPacket may fail once the channel is closed.  As Stop closes done first, *)
(* the loop always ends then.                                              *)
ReadLoopExit ==
  /\ rl = "read" /\ chClosed /\ done
  /\ rl' = "exited" /\ bufs' = bufs - 1
  /\ UNCHANGED <<vars, traffic, lock, at, outVars, writeVars, stopVars, udpVars>>

(* Steps of the read loop that need no packet to arrive. *)
ReadLoopGoesOn ==
  IcmpWritten \/ TcpEnqueue \/ TcpDropSYN \/ TcpHandleSYN \/ TcpReject \/ ReaderSent

ReadLoop ==
  \/ UdpHandlePacket \/ handleICMP
  \/ \E f \in Flows, kind \in {"SYN", "ACK"} : TcpLookUp(f, kind)
  \/ ReadLoopGoesOn \/ ReadLoopExit
-----------------------------------------------------------------------------
(* Where writeLoop is after a part of its item: an item of which nothing is *)
(* left is released.                                                       *)
WriteLoopAfter(blocked) ==
  /\ wl' = IF blocked THEN "blocked" ELSE IF left' > 0 THEN "write" ELSE "select"
  /\ bufs' = IF blocked \/ left' > 0 THEN bufs ELSE bufs - 1

(* writeLoop takes an item, to be dropped or to be written as one packet or *)
(* as its fragments; a waiting sender's item takes its place.              *)
WriteLoopTake ==
  /\ wl = "select" /\ outboundCh > 0
  /\ left' \in 0 .. MaxFragments
  /\ WriteLoopAfter(FALSE)
  /\ IF sendq = <<>> THEN outboundCh' = outboundCh - 1 /\ sendq' = sendq
                     ELSE outboundCh' = outboundCh /\ sendq' = Tail(sendq)
  /\ UNCHANGED <<vars, traffic, rl, lock, at, wireVars, stopVars, udpVars>>

WriteLoopWrite ==
  /\ wl = "write"
  /\ WritePacket(Writer)
  /\ left' = left - 1
  /\ WriteLoopAfter(Waits(Writer, wireq'))
  /\ UNCHANGED <<vars, traffic, rl, lock, at, outVars, stopVars, udpVars>>

WriteLoopWritten ==
  /\ wl = "blocked" /\ ~Waits(Writer, wireq)
  /\ left' = left
  /\ WriteLoopAfter(FALSE)
  /\ UNCHANGED <<vars, traffic, rl, lock, at, outVars, wireVars, stopVars, udpVars>>

WriteLoopExit ==
  /\ wl = "select" /\ done
  /\ wl' = "exited"
  /\ UNCHANGED <<vars, traffic, rl, lock, at, left, outVars, wireVars, stopVars, udpVars, bufs>>

WriteLoopGoesOn == WriteLoopTake \/ WriteLoopWrite \/ WriteLoopWritten

WriteLoop == WriteLoopGoesOn \/ WriteLoopExit
-----------------------------------------------------------------------------
(* run() handles a segment; the buffer is released afterwards. *)
ConnInbound(c) ==
  /\ at[c] = "loop" /\ RunInbound(c)
  /\ bufs' = bufs - 1
  /\ UNCHANGED <<traffic, rl, lock, at, outVars, writeVars, stopVars, udpVars>>

(* It answers before that, unless the segment closed the connection. *)
ConnAnswers(c) ==
  /\ at[c] = "loop" /\ RunInbound(c) /\ phase'[c] # "closed"
  /\ SendPacket(RunOf(c), IF outboundCh = OutboundQueueSize /\ ~done THEN 0 ELSE -1)
  /\ at' = [at EXCEPT ![c] = IF Blocked(RunOf(c)) THEN "answer" ELSE "loop"]
  /\ UNCHANGED <<traffic, rl, lock, writeVars, stopVars, udpVars>>

(* Data, an ACK, a FIN or a probe is due: writeNotify, closeCh, a timer. *)
ConnSends(c) ==
  /\ at[c] = "loop" /\ phase[c] = "running"
  /\ SendPacket(RunOf(c), 0)
  /\ at' = [at EXCEPT ![c] = IF Blocked(RunOf(c)) THEN "data" ELSE "loop"]
  /\ UNCHANGED <<vars, traffic, rl, lock, writeVars, stopVars, udpVars>>

(* The connection ends with a RST: it is aborted or, if reset, by a timer, *)
(* or forceCloseCh is closed; run() ends when the RST has been queued.     *)
SendRST(c) ==
  /\ at[c] = "loop" /\ phase[c] = "running"
  /\ SendPacket(RunOf(c), 0)
  /\ IF Blocked(RunOf(c))
     THEN at' = [at EXCEPT ![c] = "rst"] /\ UNCHANGED vars
     ELSE at' = at /\ RunTimeout(c)
  /\ UNCHANGED <<traffic, rl, lock, writeVars, stopVars, udpVars>>

(* SendPacket returned: run() goes on, and after a RST it ends. *)
ConnSent(c) ==
  /\ at[c] # "loop" /\ ~Waits(RunOf(c), sendq)
  /\ at' = [at EXCEPT ![c] = "loop"]
  /\ bufs' = IF at[c] = "answer" THEN bufs - 1 ELSE bufs
  /\ IF at[c] = "rst" THEN RunTimeout(c) ELSE UNCHANGED vars
  /\ UNCHANGED <<traffic, rl, lock, outVars, writeVars, stopVars, udpVars>>

ConnAccepted(c) == at[c] = "loop" /\ AcceptEnqueue(c) /\ UNCHANGED stackVars

ConnTimeout(c) == at[c] = "loop" /\ RunTimeout(c) /\ UNCHANGED stackVars

(* forceCloseCh or done is closed. *)
ConnEnds(c) ==
  \/ at[c] = "loop" /\ (RunForceClose(c) \/ RunDone(c)) /\ UNCHANGED stackVars
  \/ c \in forceCloseCh /\ SendRST(c)

ConnRemove(c) == at[c] = "loop" /\ ~lock /\ removeConn(c) /\ UNCHANGED stackVars

ConnDrain(c) ==
  /\ DrainInbound(c)
  /\ bufs' = bufs - Len(inbound[c])
  /\ UNCHANGED <<traffic, rl, lock, at, outVars, writeVars, stopVars, udpVars>>

ConnGoesOn(c) == ConnSent(c) \/ ConnAccepted(c) \/ ConnRemove(c) \/ ConnDrain(c)

Conn(c) ==
  \/ ConnInbound(c) \/ ConnAnswers(c) \/ ConnSends(c) \/ SendRST(c)
  \/ ConnTimeout(c) \/ ConnEnds(c) \/ ConnGoesOn(c)
-----------------------------------------------------------------------------
(* The application's TCP side and the caller of TCPHandler.Close. *)
TcpApp == (Accept \/ AcceptFails) /\ UNCHANGED stackVars

TcpClose == "tcp" \in traffic /\ CloseListener /\ UNCHANGED stackVars

TcpCloser ==
  /\ \/ ~lock /\ CloseSnapshot
     \/ \E c \in Conns : ForceClose(c)
     \/ CloseReturns
  /\ UNCHANGED stackVars

(* ReadFrom: a queued datagram or, once the handler is closed, an error. *)
ReadFrom ==
  /\ udpReader = "reading" /\ udpIn > 0
  /\ udpIn' = udpIn - 1 /\ refs' = refs - 1
  /\ UNCHANGED <<vars, traffic, rl, lock, at, outVars, writeVars, stopVars, udpDone,
                 udpReader, udpWriter, bufs>>

(* Fault: ReadFrom looks at done only when a datagram has come. *)
ReadFromFailsLate ==
  /\ udpReader = "reading" /\ udpDone /\ udpIn > 0
  /\ udpReader' = "failed"
  /\ UNCHANGED <<vars, traffic, rl, lock, at, outVars, writeVars, stopVars, udpIn, udpDone,
                 udpWriter, refs, bufs>>

ReadFromFails ==
  /\ udpReader = "reading" /\ udpDone
  /\ udpReader' = "failed"
  /\ UNCHANGED <<vars, traffic, rl, lock, at, outVars, writeVars, stopVars, udpIn, udpDone,
                 udpWriter, refs, bufs>>

WriteTo ==
  /\ "udp" \in traffic /\ udpWriter = "idle" /\ ~udpDone
  /\ SendPacket(UdpApp, 0)
  /\ udpWriter' = IF Blocked(UdpApp) THEN "send" ELSE "idle"
  /\ UNCHANGED <<vars, traffic, rl, lock, at, writeVars, stopVars, udpIn, udpDone, udpReader,
                 refs>>

WriteToReturns ==
  /\ udpWriter = "send" /\ ~Waits(UdpApp, sendq)
  /\ udpWriter' = "idle"
  /\ UNCHANGED <<vars, traffic, rl, lock, at, outVars, writeVars, stopVars, udpIn, udpDone,
                 udpReader, refs, bufs>>

UdpClose ==
  /\ "udp" \in traffic /\ ~udpDone /\ udpDone' = TRUE
  /\ UNCHANGED <<vars, traffic, rl, lock, at, outVars, writeVars, stopVars, udpIn, udpReader,
                 udpWriter, refs, bufs>>
-----------------------------------------------------------------------------
(* Fault: Stop does not close the channel. *)
StopChannelKeeps ==
  /\ stopper = "done" /\ stopper' = "closed"
  /\ UNCHANGED <<vars, traffic, rl, lock, at, outVars, writeVars, done, chClosed, udpVars, bufs>>

(* Stop: close(done), then the channel, then wait for the two loops. *)
StopDone ==
  /\ stopper = "no" /\ stopper' = "done" /\ done' = TRUE
  /\ UNCHANGED <<vars, traffic, rl, lock, at, outVars, writeVars, chClosed, udpVars, bufs>>

StopChannel ==
  /\ stopper = "done" /\ stopper' = "closed" /\ chClosed' = TRUE
  /\ UNCHANGED <<vars, traffic, rl, lock, at, outVars, writeVars, done, udpVars, bufs>>

(* Fault: Stop waits for the read loop only. *)
StopReturnsEarly ==
  /\ stopper = "closed" /\ rl = "exited"
  /\ stopper' = "stopped"
  /\ UNCHANGED <<vars, traffic, rl, lock, at, outVars, writeVars, done, chClosed, udpVars, bufs>>

StopReturns ==
  /\ stopper = "closed" /\ rl = "exited" /\ wl = "exited"
  /\ stopper' = "stopped"
  /\ UNCHANGED <<vars, traffic, rl, lock, at, outVars, writeVars, done, chClosed, udpVars, bufs>>

StackNext ==
  \/ ReadLoop \/ WriteLoop
  \/ \E c \in Conns : Conn(c)
  \/ TcpApp \/ TcpClose \/ TcpCloser
  \/ ReadFrom \/ ReadFromFails \/ WriteTo \/ WriteToReturns \/ UdpClose
  \/ StopDone \/ StopChannel \/ StopReturns
  \/ SendAborted \/ WriteAborted \/ PeerReads

StackSpec == StackInit /\ [][StackNext]_allVars

(***************************************************************************)
(* Goroutines that can go on do.  A select with several ready cases takes  *)
(* each of them now and then: hence strong fairness of leaving a loop      *)
(* whose other cases may be ready again and again.  No fairness of         *)
(* arrivals, timers, callers of Close and Stop, nor of the peer's reading. *)
(***************************************************************************)
StackFairness ==
  /\ WF_allVars(ReadLoopGoesOn) /\ WF_allVars(WriteLoopGoesOn)
  /\ WF_allVars(SendAborted \/ WriteAborted)
  /\ \A c \in Conns : WF_allVars(ConnGoesOn(c)) /\ SF_allVars(ConnEnds(c))
  /\ WF_allVars(TcpApp) /\ WF_allVars(TcpCloser)
  /\ SF_allVars(ReadLoopExit) /\ SF_allVars(WriteLoopExit) /\ SF_allVars(ReadFromFails)
  /\ WF_allVars(StopChannel \/ StopReturns)

StackFairSpec == StackSpec /\ StackFairness
-----------------------------------------------------------------------------
OneIf(b) == IF b THEN 1 ELSE 0

(* The segments that wait in the connections' queues, by their places there. *)
Queued == UNION {{c} \X DOMAIN inbound[c] : c \in Conns}

(* The connections that hold on to a segment while its answer waits. *)
Answering == {c \in Conns : at[c] = "answer"}

(* The buffers that the loops and the connections have. *)
InUse == OneIf(rl # "exited") + OneIf(wl \in {"write", "blocked"})
           + Cardinality(Queued) + Cardinality(Answering)

(***************************************************************************)
(* Every PacketBuffer that is out of the pool is in one place: the read    *)
(* loop's, a connection's queue, the hands of run(), of who waits in       *)
(* SendPacket or of the write loop, or outboundCh; and every RefBuf is in  *)
(* the UDP queue.  So none is released twice, and none is lost but those   *)
(* that stay behind in the queues of what has ended.                       *)
(***************************************************************************)
BuffersAccounted ==
  /\ bufs = InUse + Len(sendq) + outboundCh
  /\ refs = udpIn

(* "Stop shuts down the stack, waiting for goroutines to exit": once it has *)
(* returned nothing is written to the channel and no segment dispatched.   *)
StoppedIsQuiet ==
  [][stopper = "stopped" => wire' =< wire /\ rl' = rl /\ wl' = wl /\ reader' = reader]_allVars

(***************************************************************************)
(* Stop returns: whatever the queues hold, whoever waits in SendPacket or  *)
(* for h.mu, and though the peer may never read again.                     *)
(***************************************************************************)
StopTerminates == stopper = "done" ~> stopper = "stopped"

(***************************************************************************)
(* TCPHandler.Close returns as long as the peer keeps reading, though it   *)
(* needs h.mu, which the read loop holds while it waits for room in the    *)
(* outbound queue, and the write loop for room in the channel.             *)
(***************************************************************************)
CloseTerminatesIfDrained ==
  WF_allVars(PeerReads) => CloseTerminates

(* "Blocked ReadFrom calls return immediately with an error" after Close.  *)
ReadFromReturns == udpDone ~> udpReader = "failed"
=============================================================================
