----------------------------- MODULE StackProofs -----------------------------
(***************************************************************************)
(* Proofs about Stack for any flows, number of connections and queue sizes. *)
(* The stack takes the steps of the TCP handler apart, at the points where *)
(* a send may block and where h.mu is held: it still implements TcpHandler, *)
(* so what is proved of the handler holds of the handler in the stack.     *)
(***************************************************************************)
EXTENDS Stack, TcpHandlerProofs, FiniteSetTheorems

(* Stop has returned only if both loops have ended. *)
LoopInv ==
  /\ wire \in Nat
  /\ stopper = "stopped" => rl = "exited" /\ wl = "exited"

(* A step of the read loop, of the handler's point of view. *)
LEMMA ReadLoopSteps == ReadLoop => [Next]_vars
<1> USE DEF Next, ReaderStep, Kinds
<1>1. CASE UdpHandlePacket \/ handleICMP \/ IcmpWritten \/ ReaderSent \/ ReadLoopExit
  BY <1>1 DEF UdpHandlePacket, handleICMP, IcmpWritten, ReaderSent, ReadLoopExit, vars
<1>2. CASE \E f \in Flows, kind \in {"SYN", "ACK"} : TcpLookUp(f, kind)
  BY <1>2 DEF TcpLookUp
<1>3. CASE TcpEnqueue \/ TcpDropSYN \/ TcpHandleSYN \/ TcpReject
  BY <1>3 DEF TcpEnqueue, TcpDropSYN, TcpHandleSYN, TcpReject
<1>4. QED  BY <1>1, <1>2, <1>3 DEF ReadLoop, ReadLoopGoesOn

(* A step of run() of a connection. *)
LEMMA ConnSteps == ASSUME NEW c \in Conns, Conn(c)  PROVE [Next]_vars
<1> USE DEF Next, RunExit
<1>1. CASE ConnInbound(c) \/ ConnAnswers(c)
  BY <1>1 DEF ConnInbound, ConnAnswers
<1>2. CASE ConnSends(c)
  BY <1>2 DEF ConnSends
<1>3. CASE SendRST(c)
  BY <1>3 DEF SendRST
<1>4. CASE ConnSent(c)
  BY <1>4 DEF ConnSent
<1>5. CASE ConnTimeout(c) \/ ConnEnds(c)
  BY <1>3, <1>5 DEF ConnTimeout, ConnEnds
<1>6. CASE ConnAccepted(c) \/ ConnRemove(c) \/ ConnDrain(c)
  BY <1>6 DEF ConnAccepted, ConnRemove, ConnDrain
<1>7. QED  BY <1>1, <1>2, <1>3, <1>4, <1>5, <1>6 DEF Conn, ConnGoesOn

(***************************************************************************)
(* A step of the stack is a step of the handler or none: sends that block  *)
(* and the lock held meanwhile delay the handler, and do nothing else.     *)
(***************************************************************************)
LEMMA HandlerSteps == [StackNext]_allVars => [Next]_vars
<1> SUFFICES ASSUME [StackNext]_allVars PROVE [Next]_vars
  OBVIOUS
<1>1. CASE ReadLoop
  BY <1>1, ReadLoopSteps
<1>2. CASE \E c \in Conns : Conn(c)
  BY <1>2, ConnSteps
<1>3. CASE TcpApp \/ TcpClose \/ TcpCloser
  BY <1>3 DEF TcpApp, TcpClose, TcpCloser, Next, CloserStep
<1>4. CASE WriteLoop \/ SendAborted \/ WriteAborted \/ PeerReads
  BY <1>4, Zenon DEF WriteLoop, WriteLoopGoesOn, WriteLoopTake, WriteLoopWrite, WriteLoopWritten,
     WriteLoopExit, SendAborted, WriteAborted, PeerReads
<1>5. CASE ReadFrom \/ ReadFromFails \/ WriteTo \/ WriteToReturns \/ UdpClose
  BY <1>5 DEF ReadFrom, ReadFromFails, WriteTo, WriteToReturns, UdpClose
<1>6. CASE StopDone \/ StopChannel \/ StopReturns
  BY <1>6 DEF StopDone, StopChannel, StopReturns
<1>7. CASE UNCHANGED allVars
  BY <1>7 DEF allVars
<1>8. QED  BY <1>1, <1>2, <1>3, <1>4, <1>5, <1>6, <1>7 DEF StackNext

(* The stack implements the TCP handler. *)
THEOREM StackImplementsHandler == StackSpec => Spec
<1>1. StackInit => Init
  BY DEF StackInit
<1>2. QED  BY <1>1, HandlerSteps, PTL DEF StackSpec, Spec

(* So the table of connections is exact in the stack as well ...           *)
THEOREM StackTableIsExact == StackSpec => []TableExact
BY StackImplementsHandler, TableIsExact, PTL

(* ... and no connection escapes TCPHandler.Close. *)
THEOREM StackCloseReachesAll == StackSpec => []NoneEscapesClose
BY StackImplementsHandler, CloseReachesAll, PTL
-----------------------------------------------------------------------------
(* Steps of the read loop: an ended loop takes none. *)
LEMMA LoopInvRead == ASSUME LoopInv, ReadLoop  PROVE LoopInv'
<1> USE DEF LoopInv, Arrives
<1>1. CASE UdpHandlePacket
  BY <1>1 DEF UdpHandlePacket, writeVars, wireVars, stopVars
<1>2. CASE handleICMP
  BY <1>2 DEF handleICMP, WritePacket, wireVars, stopVars
<1>3. CASE IcmpWritten \/ ReaderSent \/ ReadLoopExit
  BY <1>3 DEF IcmpWritten, ReaderSent, ReadLoopExit, writeVars, wireVars, stopVars
<1>4. CASE \E f \in Flows, kind \in {"SYN", "ACK"} : TcpLookUp(f, kind)
  BY <1>4 DEF TcpLookUp, writeVars, wireVars, stopVars
<1>5. CASE TcpEnqueue \/ TcpDropSYN
  BY <1>5 DEF TcpEnqueue, TcpDropSYN, writeVars, wireVars, stopVars
<1>6. CASE TcpHandleSYN \/ TcpReject
  BY <1>6 DEF TcpHandleSYN, TcpReject, writeVars, wireVars, stopVars
<1>7. QED  BY <1>1, <1>2, <1>3, <1>4, <1>5, <1>6 DEF ReadLoop, ReadLoopGoesOn

(* Steps of the write loop, of the peer and of those who wait. *)
LEMMA LoopInvWrite ==
  ASSUME LoopInv, WriteLoop \/ SendAborted \/ WriteAborted \/ PeerReads  PROVE LoopInv'
<1> USE DEF LoopInv
<1>1. CASE WriteLoopTake \/ WriteLoopWritten \/ WriteLoopExit
  <2>1. CASE WriteLoopTake
    BY <2>1 DEF WriteLoopTake, wireVars, stopVars
  <2>2. CASE WriteLoopWritten
    BY <2>2 DEF WriteLoopWritten, wireVars, stopVars
  <2>3. CASE WriteLoopExit
    BY <2>3 DEF WriteLoopExit, wireVars, stopVars
  <2>4. QED  BY <1>1, <2>1, <2>2, <2>3
<1>2. CASE WriteLoopWrite
  BY <1>2 DEF WriteLoopWrite, WritePacket, wireVars, stopVars
<1>3. CASE SendAborted \/ WriteAborted
  BY <1>3 DEF SendAborted, WriteAborted, writeVars, wireVars, stopVars
<1>4. CASE PeerReads
  <2>1. wire' \in Nat
    BY <1>4 DEF PeerReads
  <2>2. QED  BY <1>4, <2>1 DEF PeerReads, stopVars
<1>5. QED  BY <1>1, <1>2, <1>3, <1>4 DEF WriteLoop, WriteLoopGoesOn

(* No one else moves the loops or writes. *)
LEMMA LoopInvRest ==
  ASSUME \/ \E c \in Conns : Conn(c)
         \/ TcpApp \/ TcpClose \/ TcpCloser
         \/ ReadFrom \/ ReadFromFails \/ WriteTo \/ WriteToReturns \/ UdpClose
         \/ UNCHANGED allVars
  PROVE  UNCHANGED <<wire, rl, wl, stopper>>
<1> USE DEF stackVars, writeVars, wireVars, stopVars
<1>1. ASSUME NEW c \in Conns, ConnInbound(c) \/ ConnAnswers(c) \/ ConnSends(c) \/ SendRST(c)
      PROVE  UNCHANGED <<wire, rl, wl, stopper>>
  BY <1>1 DEF ConnInbound, ConnAnswers, ConnSends, SendRST
<1>2. ASSUME NEW c \in Conns, ConnTimeout(c) \/ ConnEnds(c) \/ ConnGoesOn(c)
      PROVE  UNCHANGED <<wire, rl, wl, stopper>>
  BY <1>1, <1>2 DEF ConnTimeout, ConnEnds, ConnGoesOn, ConnSent, ConnAccepted, ConnRemove, ConnDrain
<1>3. CASE TcpApp \/ TcpClose \/ TcpCloser \/ UNCHANGED allVars
  BY <1>3 DEF TcpApp, TcpClose, TcpCloser, allVars
<1>4. CASE ReadFrom \/ ReadFromFails \/ WriteTo \/ WriteToReturns \/ UdpClose
  BY <1>4 DEF ReadFrom, ReadFromFails, WriteTo, WriteToReturns, UdpClose
<1>5. QED  BY <1>1, <1>2, <1>3, <1>4 DEF Conn

LEMMA LoopInvStep == LoopInv /\ [StackNext]_allVars => LoopInv'
<1> SUFFICES ASSUME LoopInv, [StackNext]_allVars PROVE LoopInv'
  OBVIOUS
<1>1. CASE StopDone \/ StopChannel \/ StopReturns
  BY <1>1 DEF StopDone, StopChannel, StopReturns, LoopInv, writeVars, wireVars
<1>2. CASE UNCHANGED <<wire, rl, wl, stopper>>
  BY <1>2 DEF LoopInv
<1>3. QED  BY <1>1, <1>2, LoopInvRead, LoopInvWrite, LoopInvRest DEF StackNext

LEMMA LoopInvariant == StackSpec => []LoopInv
<1>1. StackInit => LoopInv
  BY DEF StackInit, LoopInv
<1>2. QED  BY <1>1, LoopInvStep, PTL DEF StackSpec

(***************************************************************************)
(* Once Stop has returned nothing is written and no segment dispatched.    *)
(***************************************************************************)
THEOREM StopLeavesQuiet == StackSpec => StoppedIsQuiet
<1> DEFINE Quiet ==
      stopper = "stopped" => wire' =< wire /\ rl' = rl /\ wl' = wl /\ reader' = reader
<1>1. LoopInv /\ [StackNext]_allVars => [Quiet]_allVars
  <2> SUFFICES ASSUME LoopInv, StackNext, stopper = "stopped"
               PROVE  wire' =< wire /\ rl' = rl /\ wl' = wl /\ reader' = reader
    OBVIOUS
  <2> USE DEF LoopInv
  <2>1. ~ReadLoop
    BY DEF ReadLoop, ReadLoopGoesOn, UdpHandlePacket, handleICMP, Arrives, TcpLookUp, IcmpWritten,
       TcpEnqueue, TcpDropSYN, TcpHandleSYN, TcpReject, ReaderSent, ReadLoopExit
  <2>2. ~WriteLoop
    BY DEF WriteLoop, WriteLoopGoesOn, WriteLoopTake, WriteLoopWrite, WriteLoopWritten,
       WriteLoopExit
  <2>3. ~(StopDone \/ StopChannel \/ StopReturns)
    BY DEF StopDone, StopChannel, StopReturns
  <2>4. CASE SendAborted \/ WriteAborted \/ PeerReads
    BY <2>4 DEF SendAborted, WriteAborted, PeerReads, writeVars, wireVars, vars
  <2>5. ASSUME NEW c \in Conns, Conn(c)  PROVE reader' = reader
    <3> USE DEF Move, vars
    <3>1. CASE ConnInbound(c) \/ ConnAnswers(c) \/ ConnSends(c) \/ SendRST(c) \/ ConnSent(c)
      BY <3>1, SMTT(30) DEF ConnInbound, ConnAnswers, ConnSends, SendRST, ConnSent, RunInbound, RunTimeout
    <3>2. CASE ConnTimeout(c) \/ ConnEnds(c) \/ ConnAccepted(c) \/ ConnRemove(c) \/ ConnDrain(c)
      BY <3>1, <3>2 DEF ConnTimeout, ConnEnds, ConnAccepted, ConnRemove, ConnDrain, RunTimeout,
         RunForceClose, RunDone, AcceptEnqueue, removeConn, DrainInbound
    <3>3. QED  BY <2>5, <3>1, <3>2 DEF Conn, ConnGoesOn
  <2>6. CASE TcpApp \/ TcpClose \/ TcpCloser
    <3>1. reader' = reader
      BY <2>6 DEF TcpApp, TcpClose, TcpCloser, Accept, AcceptFails, CloseListener, CloseSnapshot,
         ForceClose, CloseReturns
    <3>2. QED  BY <2>6, <3>1, LoopInvRest, SMTT(30)
  <2>7. CASE ReadFrom \/ ReadFromFails \/ WriteTo \/ WriteToReturns \/ UdpClose
    <3>1. reader' = reader
      BY <2>7 DEF ReadFrom, ReadFromFails, WriteTo, WriteToReturns, UdpClose, vars
    <3>2. QED  BY <2>7, <3>1, LoopInvRest
  <2>8. QED  BY <2>1, <2>2, <2>3, <2>4, <2>5, <2>6, <2>7, LoopInvRest DEF StackNext
<1>2. QED  BY <1>1, LoopInvariant, PTL DEF StackSpec, StoppedIsQuiet
-----------------------------------------------------------------------------
(* What run() of a connection may be sending. *)
Places == {"loop", "answer", "data", "rst"}
(* What Queued holds. *)
LEMMA QueuedMember ==
  ASSUME inbound \in [Conns -> Seq(Kinds)]
  PROVE \A x : x \in Queued <=> \E c \in Conns : \E i \in 1 .. Len(inbound[c]) : x = <<c, i>>
BY DEF Queued

(* The queues are bounded, so there are finitely many segments in them. *)
LEMMA QueuedFinite == TypeOK => IsFiniteSet(Queued) /\ Cardinality(Queued) \in Nat
<1> SUFFICES ASSUME TypeOK PROVE IsFiniteSet(Queued) /\ Cardinality(Queued) \in Nat
  OBVIOUS
<1>1. IsFiniteSet(Conns) /\ IsFiniteSet(1 .. InboundQueueSize)
  BY HandlerAssumption, FS_Interval DEF Conns
<1>2. IsFiniteSet(Conns \X (1 .. InboundQueueSize))
  BY <1>1, FS_Product, Zenon
<1>3. Queued \subseteq Conns \X (1 .. InboundQueueSize)
  <2>1. ASSUME NEW c \in Conns, NEW i \in 1 .. Len(inbound[c])
        PROVE  <<c, i>> \in Conns \X (1 .. InboundQueueSize)
    BY HandlerAssumption DEF TypeOK
  <2>2. QED  BY <2>1, QueuedMember DEF TypeOK
<1>4. QED  BY <1>2, <1>3, FS_Subset, FS_CardinalityType

(* A segment that finds room in its connection's queue is one more. *)
LEMMA QueuedGrows ==
  ASSUME TypeOK, Enqueue
  PROVE  Cardinality(Queued') =
           IF inbound' = inbound THEN Cardinality(Queued) ELSE Cardinality(Queued) + 1
<1> DEFINE c == reader.conn  n == Len(inbound[c]) + 1
<1>1. c \in Conns /\ inbound[c] \in Seq(Kinds) /\ reader.kind \in Kinds
  BY DEF Enqueue, TypeOK, Idle
<1>2. CASE n - 1 < InboundQueueSize
  <2>1. /\ inbound'[c] = Append(inbound[c], reader.kind)
        /\ \A d \in Conns : d # c => inbound'[d] = inbound[d]
    BY <1>1, <1>2 DEF Enqueue, TypeOK
  <2>2. Len(inbound'[c]) = n /\ n \in 1 .. InboundQueueSize
    BY <1>1, <1>2, <2>1, HandlerAssumption
  <2>3. Queued' = Queued \cup {<<c, n>>} /\ <<c, n>> \notin Queued
    BY <1>1, <2>1, <2>2 DEF Queued, TypeOK
  <2>4. inbound' # inbound
    BY <1>1, <2>2
  <2>5. QED  BY <2>3, <2>4, QueuedFinite, FS_AddElement, Zenon
<1>3. CASE ~(n - 1 < InboundQueueSize)
  <2>1. inbound' = inbound
    BY <1>1, <1>3 DEF Enqueue, TypeOK
  <2>2. QED  BY <2>1 DEF Queued
<1>4. QED  BY <1>2, <1>3

(* run() takes a segment out of its queue. *)
LEMMA QueuedShrinks ==
  ASSUME TypeOK, NEW c \in Conns, RunInbound(c)
  PROVE  Cardinality(Queued') = Cardinality(Queued) - 1
<1> DEFINE n == Len(inbound[c])
<1>1. inbound[c] \in Seq(Kinds) /\ inbound[c] # <<>>
  BY DEF RunInbound, TypeOK
<1>2. inbound'[c] = Tail(inbound[c]) /\ \A d \in Conns : d # c => inbound'[d] = inbound[d]
  BY DEF RunInbound, TypeOK
<1>3. Len(inbound'[c]) = n - 1 /\ n \in Nat \ {0}
  BY <1>1, <1>2
<1>4. Queued' = Queued \ {<<c, n>>} /\ <<c, n>> \in Queued
  BY <1>2, <1>3 DEF Queued, TypeOK
<1>5. QED  BY <1>4, QueuedFinite, FS_RemoveElement, Zenon

(* cleanup empties the queue. *)
LEMMA QueuedDrained ==
  ASSUME TypeOK, NEW c \in Conns, DrainInbound(c)
  PROVE  Cardinality(Queued') = Cardinality(Queued) - Len(inbound[c])
<1> DEFINE T == {c} \X (1 .. Len(inbound[c]))
<1>1. inbound'[c] = <<>> /\ \A d \in Conns : d # c => inbound'[d] = inbound[d]
  BY DEF DrainInbound, TypeOK
<1>2. Queued' = Queued \ T /\ Queued \cap T = T
  BY <1>1 DEF Queued, TypeOK
<1>3. Len(inbound[c]) \in Nat
  BY DEF TypeOK
<1>4. IsFiniteSet(1 .. Len(inbound[c])) /\ Cardinality(1 .. Len(inbound[c])) = Len(inbound[c])
  BY <1>3, FS_Interval
<1>5. Cardinality(T) = Len(inbound[c])
  <2>1. IsFiniteSet({c}) /\ Cardinality({c}) = 1
    BY FS_Singleton, Zenon
  <2>2. Cardinality(T) = Cardinality({c}) * Cardinality(1 .. Len(inbound[c]))
    BY <1>4, <2>1, FS_Product
  <2>3. QED  BY <1>3, <1>4, <2>1, <2>2
<1> HIDE DEF T
<1>6. Cardinality(Queued \ T) = Cardinality(Queued) - Cardinality(Queued \cap T)
  BY QueuedFinite, FS_Difference, Zenon
<1>7. QED  BY <1>2, <1>3, <1>5, <1>6, Zenon

(* run() of c goes from a to b, of which one may hold on to a segment. *)
LEMMA AnsweringStep ==
  ASSUME NEW c \in Conns, NEW b, at \in [Conns -> Places],
         at' = [at EXCEPT ![c] = b]
  PROVE  /\ Cardinality(Answering) \in Nat
         /\ Cardinality(Answering') =
              Cardinality(Answering) + OneIf(b = "answer") - OneIf(at[c] = "answer")
<1>1. IsFiniteSet(Conns)
  BY HandlerAssumption, FS_Interval DEF Conns
<1>2. IsFiniteSet(Answering) /\ Cardinality(Answering) \in Nat
  BY <1>1, FS_Subset, FS_CardinalityType DEF Answering
<1>3. Answering' = IF b = "answer" THEN Answering \cup {c} ELSE Answering \ {c}
  BY DEF Answering
<1>4. c \in Answering <=> at[c] = "answer"
  BY DEF Answering
<1>5. /\ Cardinality(Answering \cup {c}) = Cardinality(Answering) + 1 - OneIf(at[c] = "answer")
      /\ Cardinality(Answering \ {c}) = Cardinality(Answering) - OneIf(at[c] = "answer")
  <2>1. Cardinality(Answering \cup {c}) =
          IF c \in Answering THEN Cardinality(Answering) ELSE Cardinality(Answering) + 1
    BY <1>2, FS_AddElement, SMTT(30)
  <2>2. Cardinality(Answering \ {c}) =
          IF c \in Answering THEN Cardinality(Answering) - 1 ELSE Cardinality(Answering)
    BY <1>2, FS_RemoveElement, SMTT(30)
  <2>3. QED  BY <1>2, <1>4, <2>1, <2>2 DEF OneIf
<1>6. QED  BY <1>2, <1>3, <1>5 DEF OneIf

(* Those who call SendPacket. *)
Senders == {Reader, UdpApp} \cup {RunOf(c) : c \in Conns}

(***************************************************************************)
(* A run() that is in its loop does not wait in SendPacket, so that one    *)
(* that asks for room and is not left waiting has been served.             *)
(***************************************************************************)
BufInv ==
  /\ sendq \in Seq(Senders) /\ outboundCh \in Nat
  /\ at \in [Conns -> Places]
  /\ \A c \in Conns : at[c] = "loop" => ~Waits(RunOf(c), sendq)
  /\ BuffersAccounted

(* The counts are numbers. *)
LEMMA InUseType ==
  ASSUME TypeOK
  PROVE /\ InUse \in Int /\ Cardinality(Queued) \in Int /\ Cardinality(Answering) \in Int
        /\ OneIf(rl # "exited") \in Int /\ OneIf(wl \in {"write", "blocked"}) \in Int
<1>1. IsFiniteSet(Conns)
  BY HandlerAssumption, FS_Interval DEF Conns
<1>2. Cardinality(Answering) \in Nat
  BY <1>1, FS_Subset, FS_CardinalityType DEF Answering
<1>3. OneIf(rl # "exited") \in Int /\ OneIf(wl \in {"write", "blocked"}) \in Int
  BY DEF OneIf
<1>4. QED  BY <1>2, <1>3, QueuedFinite DEF InUse

LEMMA BufsType == 
  ASSUME TypeOK, BufInv
  PROVE  /\ bufs \in Int /\ bufs = InUse + Len(sendq) + outboundCh /\ InUse \in Int
         /\ Len(sendq) \in Nat /\ outboundCh \in Nat
<1>1. Len(sendq) \in Nat
  BY DEF BufInv
<1>2. QED  BY <1>1, InUseType DEF BufInv, BuffersAccounted

(* What SendPacket queues or leaves waiting it has allocated. *)
LEMMA SendAccounts ==
  ASSUME TypeOK, BufInv, NEW g \in Senders, NEW extra \in Int, SendPacket(g, extra)
  PROVE  /\ sendq' \in Seq(Senders) /\ outboundCh' \in Nat
         /\ sendq' = sendq \/ sendq' = Append(sendq, g)
         /\ bufs' = InUse + extra + Len(sendq') + outboundCh'
<1>1. /\ sendq \in Seq(Senders) /\ outboundCh \in Nat /\ Len(sendq) \in Nat
      /\ bufs = InUse + Len(sendq) + outboundCh /\ InUse \in Int
  BY BufsType DEF BufInv
<1>2. Append(sendq, g) \in Seq(Senders) /\ Len(Append(sendq, g)) = Len(sendq) + 1
  BY <1>1
<1>3. CASE outboundCh' = outboundCh + 1 /\ sendq' = sendq /\ bufs' = bufs + extra + 1
  BY <1>1, <1>3
<1>4. CASE outboundCh' = outboundCh /\ sendq' = sendq /\ bufs' = bufs + extra
  BY <1>1, <1>4
<1>5. CASE outboundCh' = outboundCh /\ sendq' = Append(sendq, g) /\ bufs' = bufs + extra + 1
  BY <1>1, <1>2, <1>5
<1>6. QED  BY <1>3, <1>4, <1>5 DEF SendPacket

(* Who waits in a queue that one has joined ... *)
LEMMA WaitsAppend ==
  ASSUME NEW S, NEW q \in Seq(S), NEW g \in S
  PROVE  \A h : Waits(h, Append(q, g)) <=> Waits(h, q) \/ h = g
<1>1. DOMAIN Append(q, g) = DOMAIN q \cup {Len(q) + 1} /\ Append(q, g)[Len(q) + 1] = g
  OBVIOUS
<1>2. \A i \in DOMAIN q : Append(q, g)[i] = q[i]
  OBVIOUS
<1>3. QED  BY <1>1, <1>2 DEF Waits

(* ... that one has left, having given up ... *)
LEMMA WaitsRemove ==
  ASSUME NEW S, NEW q \in Seq(S), NEW i \in DOMAIN q
  PROVE  /\ Without(q, i) \in Seq(S) /\ Len(Without(q, i)) = Len(q) - 1
         /\ \A h : Waits(h, Without(q, i)) => Waits(h, q)
<1> DEFINE a == SubSeq(q, 1, i - 1)  b == SubSeq(q, i + 1, Len(q))
<1>1. i \in 1 .. Len(q) /\ Len(q) \in Nat
  OBVIOUS
<1>2. a \in Seq(S) /\ Len(a) = i - 1 /\ \A j \in 1 .. i - 1 : a[j] = q[j]
  BY <1>1
<1>3. b \in Seq(S) /\ Len(b) = Len(q) - i /\ \A j \in 1 .. Len(q) - i : b[j] = q[i + j]
  BY <1>1
<1>4. Without(q, i) = a \o b
  BY DEF Without
<1> HIDE DEF a, b
<1>5. a \o b \in Seq(S) /\ Len(a \o b) = Len(q) - 1
  BY <1>1, <1>2, <1>3
<1>6. ASSUME NEW j \in DOMAIN (a \o b)  PROVE \E k \in DOMAIN q : (a \o b)[j] = q[k]
  <2>1. CASE j =< i - 1
    BY <1>1, <1>2, <1>3, <2>1
  <2>2. CASE j > i - 1
    <3>1. (a \o b)[j] = b[j - (i - 1)] /\ j - (i - 1) \in 1 .. Len(q) - i
      BY <1>1, <1>2, <1>3, <2>2
    <3>2. j + 1 \in DOMAIN q /\ b[j - (i - 1)] = q[j + 1]
      BY <1>1, <1>3, <3>1, SMTT(30)
    <3>3. QED  BY <3>1, <3>2
  <2>3. QED  BY <1>1, <1>5, <2>1, <2>2
<1>7. QED  BY <1>4, <1>5, <1>6 DEF Waits

(* ... and that the first has left. *)
LEMMA WaitsTail ==
  ASSUME NEW S, NEW q \in Seq(S), q # <<>>
  PROVE  /\ Tail(q) \in Seq(S) /\ Len(Tail(q)) = Len(q) - 1
         /\ \A h : Waits(h, Tail(q)) => Waits(h, q)
<1>1. /\ Tail(q) \in Seq(S) /\ Len(Tail(q)) = Len(q) - 1
      /\ \A i \in DOMAIN Tail(q) : Tail(q)[i] = q[i + 1] /\ i + 1 \in DOMAIN q
  OBVIOUS
<1>2. QED  BY <1>1 DEF Waits

(* The places that have not moved. *)
LEMMA InUseSame ==
  ASSUME UNCHANGED <<inbound, at>>, rl' # "exited" <=> rl # "exited",
         wl' \in {"write", "blocked"} <=> wl \in {"write", "blocked"}
  PROVE  InUse' = InUse
  BY DEF InUse, Queued, Answering, OneIf

(* A step that changes none of it. *)
LEMMA BufQuiet ==
  ASSUME TypeOK, BufInv, UNCHANGED <<inbound, at, sendq, outboundCh, bufs, refs, udpIn>>,
         rl' # "exited" <=> rl # "exited",
         wl' \in {"write", "blocked"} <=> wl \in {"write", "blocked"}
  PROVE  BufInv'
  BY InUseSame DEF BufInv, BuffersAccounted, Waits

(* The reader or the application of UDP sends. *)
LEMMA BufSend ==
  ASSUME TypeOK, BufInv, NEW g \in {Reader, UdpApp}, SendPacket(g, 0),
         UNCHANGED <<inbound, at, wl, refs, udpIn>>, rl' # "exited" <=> rl # "exited"
  PROVE  BufInv'
<1> g \in Senders
  BY DEF Senders
<1>1. /\ sendq' \in Seq(Senders) /\ outboundCh' \in Nat
      /\ sendq' = sendq \/ sendq' = Append(sendq, g)
      /\ bufs' = InUse + 0 + Len(sendq') + outboundCh'
  BY SendAccounts
<1>2. InUse' = InUse /\ InUse \in Int
  BY InUseSame, BufsType
<1>3. \A c \in Conns : Waits(RunOf(c), sendq') => Waits(RunOf(c), sendq)
  <2>1. \A c \in Conns : RunOf(c) # g
    BY DEF RunOf, Reader, UdpApp
  <2>2. \A h : Waits(h, Append(sendq, g)) <=> Waits(h, sendq) \/ h = g
    BY WaitsAppend DEF BufInv
  <2>3. QED  BY <1>1, <2>1, <2>2, Zenon
<1>4. BuffersAccounted'
  BY <1>1, <1>2 DEF BuffersAccounted, BufInv
<1>5. \A c \in Conns : at'[c] = "loop" => ~Waits(RunOf(c), sendq')
  BY <1>3 DEF BufInv
<1>6. QED  BY <1>1, <1>4, <1>5 DEF BufInv

(* Steps of the read loop: a buffer handed to a connection is replaced. *)
LEMMA BufRead == ASSUME TypeOK, BufInv, ReadLoop  PROVE BufInv'
<1>1. CASE UdpHandlePacket
  BY <1>1, InUseSame DEF UdpHandlePacket, outVars, writeVars, BufInv, BuffersAccounted, vars
<1>2. CASE handleICMP \/ IcmpWritten \/ ReaderSent \/ TcpDropSYN
  BY <1>2, BufQuiet DEF handleICMP, IcmpWritten, ReaderSent, TcpDropSYN, handleSYN, outVars,
     writeVars, udpVars, vars, Arrives
<1>3. CASE \E f \in Flows, kind \in {"SYN", "ACK"} : TcpLookUp(f, kind)
  BY <1>3, BufQuiet DEF TcpLookUp, LookUp, outVars, writeVars, udpVars, vars, Arrives
<1>4. CASE TcpHandleSYN \/ TcpReject
  BY <1>4, BufSend DEF TcpHandleSYN, TcpReject, handleSYN, Reject, writeVars, udpVars
<1>5. CASE TcpEnqueue
  <2>1. Cardinality(Queued') =
          IF inbound' = inbound THEN Cardinality(Queued) ELSE Cardinality(Queued) + 1
    BY <1>5, QueuedGrows DEF TcpEnqueue
  <2>2. UNCHANGED <<at, sendq, outboundCh, wl, udpIn, refs>> /\ rl' # "exited" /\ rl # "exited"
    BY <1>5 DEF TcpEnqueue, outVars, writeVars, udpVars
  <2>3. InUse' = IF inbound' = inbound THEN InUse ELSE InUse + 1
    BY <2>1, <2>2, InUseType DEF InUse, Answering
  <2>4. bufs' = InUse' + Len(sendq') + outboundCh'
    BY <1>5, <2>2, <2>3, BufsType DEF TcpEnqueue
  <2>5. QED  BY <2>2, <2>4 DEF BufInv, BuffersAccounted, Waits
<1>6. CASE ReadLoopExit
  <2>1. /\ UNCHANGED <<inbound, at, sendq, outboundCh, wl, udpIn, refs>>
        /\ rl' = "exited" /\ rl = "read" /\ bufs' = bufs - 1
    BY <1>6 DEF ReadLoopExit, vars, outVars, writeVars, udpVars
  <2>2. InUse' = InUse - 1
    BY <2>1, InUseType DEF InUse, Answering, Queued, OneIf
  <2>3. bufs' = InUse' + Len(sendq') + outboundCh'
    BY <2>1, <2>2, BufsType
  <2>4. QED  BY <2>1, <2>3 DEF BufInv, BuffersAccounted, Waits
<1>7. QED  BY <1>1, <1>2, <1>3, <1>4, <1>5, <1>6 DEF ReadLoop, ReadLoopGoesOn

(* A sender goes from the queue, with its packet. *)
LEMMA BufLeave ==
  ASSUME TypeOK, BufInv, NEW k \in Int,
         sendq' \in Seq(Senders), outboundCh' \in Nat,
         Len(sendq') + outboundCh' = Len(sendq) + outboundCh - 1,
         \A h : Waits(h, sendq') => Waits(h, sendq),
         UNCHANGED <<at, refs, udpIn>>, InUse' = InUse + k, bufs' = bufs + k - 1
  PROVE  BufInv'
<1>1. /\ Len(sendq) \in Nat /\ Len(sendq') \in Nat /\ outboundCh \in Nat
      /\ InUse \in Int /\ bufs = InUse + Len(sendq) + outboundCh
  BY BufsType DEF BufInv
<1>2. bufs' = InUse' + Len(sendq') + outboundCh'
  BY <1>1
<1>3. \A c \in Conns : at'[c] = "loop" => ~Waits(RunOf(c), sendq')
  BY DEF BufInv
<1>4. BuffersAccounted'
  BY <1>2 DEF BuffersAccounted, BufInv
<1>5. QED  BY <1>3, <1>4 DEF BufInv

(* Steps of the write loop and of those who wait. *)
LEMMA BufWrite ==
  ASSUME TypeOK, BufInv, WriteLoop \/ SendAborted \/ WriteAborted \/ PeerReads  PROVE BufInv'
<1>1. CASE WriteLoopTake
  <2>1. /\ UNCHANGED <<inbound, at, rl, refs, udpIn>> /\ wl = "select" /\ outboundCh > 0
        /\ IF left' > 0 THEN wl' = "write" /\ bufs' = bufs ELSE wl' = "select" /\ bufs' = bufs - 1
    BY <1>1 DEF WriteLoopTake, WriteLoopAfter, vars, udpVars
  <2>2. /\ sendq' \in Seq(Senders) /\ outboundCh' \in Nat
        /\ Len(sendq') + outboundCh' = Len(sendq) + outboundCh - 1
        /\ \A h : Waits(h, sendq') => Waits(h, sendq)
    <3>1. CASE sendq = <<>>
      BY <1>1, <2>1, <3>1 DEF WriteLoopTake, BufInv
    <3>2. CASE sendq # <<>>
      <4>1. sendq \in Seq(Senders) /\ Len(sendq) \in Nat /\ outboundCh \in Nat
        BY DEF BufInv
      <4>2. sendq' = Tail(sendq) /\ outboundCh' = outboundCh
        BY <1>1, <3>2 DEF WriteLoopTake
      <4>3. QED  BY <3>2, <4>1, <4>2, WaitsTail
    <3>3. QED  BY <3>1, <3>2
  <2>3. CASE left' > 0
    <3>1. InUse' = InUse + 1
      BY <2>1, <2>3, InUseType DEF InUse, Queued, Answering, OneIf
    <3>2. bufs' = bufs + 1 - 1
      BY <2>1, <2>3, BufsType
    <3>3. QED  BY <2>1, <2>2, <3>1, <3>2, BufLeave
  <2>4. CASE ~(left' > 0)
    <3>1. InUse' = InUse + 0
      BY <2>1, <2>4, InUseType DEF InUse, Queued, Answering, OneIf
    <3>2. bufs' = bufs + 0 - 1
      BY <2>1, <2>4, BufsType
    <3>3. QED  BY <2>1, <2>2, <3>1, <3>2, BufLeave
  <2>5. QED  BY <2>3, <2>4
<1>2. CASE WriteLoopWrite \/ WriteLoopWritten
  <2>1. /\ UNCHANGED <<inbound, at, rl, sendq, outboundCh, refs, udpIn>>
        /\ wl \in {"write", "blocked"}
        /\ \/ wl' \in {"write", "blocked"} /\ bufs' = bufs
           \/ wl' = "select" /\ bufs' = bufs - 1
    <3>1. /\ UNCHANGED <<inbound, at, rl, sendq, outboundCh, refs, udpIn>>
          /\ wl \in {"write", "blocked"}
      BY <1>2, Zenon DEF WriteLoopWrite, WriteLoopWritten, vars, outVars, udpVars
    <3>2. \E b \in BOOLEAN : WriteLoopAfter(b)
      <4>1. (Waits(Writer, wireq')) \in BOOLEAN
        BY DEF Waits
      <4>2. QED  BY <1>2, <4>1, Zenon DEF WriteLoopWrite, WriteLoopWritten
    <3>3. QED  BY <3>1, <3>2 DEF WriteLoopAfter
  <2>2. CASE wl' \in {"write", "blocked"} /\ bufs' = bufs
    BY <2>1, <2>2, BufQuiet
  <2>3. CASE wl' = "select" /\ bufs' = bufs - 1
    <3>1. InUse' = InUse - 1
      BY <2>1, <2>3, InUseType DEF InUse, Queued, Answering, OneIf
    <3>2. bufs' = InUse' + Len(sendq') + outboundCh'
      BY <2>1, <2>3, <3>1, BufsType, SMTT(30)
    <3>3. QED  BY <2>1, <3>2 DEF BufInv, BuffersAccounted, Waits
  <2>4. QED  BY <2>1, <2>2, <2>3
<1>3. CASE WriteLoopExit \/ WriteAborted \/ PeerReads
  BY <1>3, BufQuiet DEF WriteLoopExit, WriteAborted, PeerReads, vars, outVars, udpVars
<1>4. CASE SendAborted
  <2>1. PICK i \in DOMAIN sendq : sendq' = Without(sendq, i)
    BY <1>4 DEF SendAborted
  <2>2. /\ sendq' \in Seq(Senders) /\ Len(sendq') = Len(sendq) - 1
        /\ \A h : Waits(h, sendq') => Waits(h, sendq)
    BY <2>1, WaitsRemove DEF BufInv
  <2>3. UNCHANGED <<inbound, at, outboundCh, rl, wl, refs, udpIn>> /\ bufs' = bufs - 1
    BY <1>4 DEF SendAborted, vars, writeVars, udpVars
  <2>4. InUse' = InUse + 0 /\ bufs' = bufs + 0 - 1
    BY <2>3, InUseSame, BufsType
  <2>5. Len(sendq') + outboundCh' = Len(sendq) + outboundCh - 1 /\ outboundCh' \in Nat
    BY <2>2, <2>3, SMTT(30) DEF BufInv
  <2>6. QED  BY <2>2, <2>3, <2>4, <2>5, BufLeave
<1>5. QED  BY <1>1, <1>2, <1>3, <1>4 DEF WriteLoop, WriteLoopGoesOn

(* run() of c asks for room, and is left waiting or goes on. *)
LEMMA BufConnSend ==
  ASSUME TypeOK, BufInv, NEW c \in Conns, at[c] = "loop", NEW extra \in Int, NEW k \in Int,
         NEW p \in {"answer", "data", "rst"}, SendPacket(RunOf(c), extra),
         at' = [at EXCEPT ![c] = IF Blocked(RunOf(c)) THEN p ELSE "loop"],
         Cardinality(Queued') = Cardinality(Queued) - k,
         extra = OneIf(p = "answer" /\ sendq' # sendq) - k,
         UNCHANGED <<rl, wl, refs, udpIn>>
  PROVE  BufInv'
<1> DEFINE g == RunOf(c)  b == IF Blocked(g) THEN p ELSE "loop"
<1>1. g \in Senders
  BY DEF Senders
<1>2. /\ sendq' \in Seq(Senders) /\ outboundCh' \in Nat
      /\ sendq' = sendq \/ sendq' = Append(sendq, g)
      /\ bufs' = InUse + extra + Len(sendq') + outboundCh'
  BY <1>1, SendAccounts
<1>3. \A h : Waits(h, Append(sendq, g)) <=> Waits(h, sendq) \/ h = g
  BY <1>1, WaitsAppend DEF BufInv
<1>4. ~Waits(g, sendq)
  BY DEF BufInv
<1>5. Blocked(g) <=> sendq' # sendq
  BY <1>2, <1>3, <1>4, Zenon DEF Blocked
<1>6. b \in Places /\ (b = "answer" <=> p = "answer" /\ sendq' # sendq)
  BY <1>5 DEF Places
<1>7. at' \in [Conns -> Places] /\ at'[c] = b /\ \A d \in Conns : d # c => at'[d] = at[d]
  BY <1>6 DEF BufInv
<1> HIDE DEF b
<1>8. ASSUME NEW d \in Conns, at'[d] = "loop"  PROVE ~Waits(RunOf(d), sendq')
  <2>1. CASE d = c
    BY <1>5, <1>7, <1>8, <2>1, <1>2, <1>4 DEF Places, b
  <2>2. CASE d # c
    <3>1. RunOf(d) # g
      BY <2>2 DEF RunOf
    <3>2. QED  BY <1>2, <1>3, <1>7, <1>8, <2>2, <3>1, Zenon DEF BufInv
  <2>3. QED  BY <2>1, <2>2
<1>9. /\ Cardinality(Answering) \in Nat
      /\ Cardinality(Answering') =
           Cardinality(Answering) + OneIf(b = "answer") - OneIf(at[c] = "answer")
  BY <1>7, AnsweringStep, Zenon DEF BufInv, b
<1>10. InUse' = InUse + extra
  <2>1. OneIf(at[c] = "answer") = 0 /\ OneIf(b = "answer") \in Int
        /\ OneIf(b = "answer") = OneIf(p = "answer" /\ sendq' # sendq)
    BY <1>6 DEF OneIf
  <2>2. Cardinality(Answering') = Cardinality(Answering) + (extra + k)
    BY <1>9, <2>1
  <2>3. QED  BY <1>9, <2>2, InUseType DEF InUse
<1>11. BuffersAccounted'
  BY <1>2, <1>10 DEF BuffersAccounted, BufInv
<1>12. QED  BY <1>2, <1>7, <1>8, <1>11 DEF BufInv

(* Steps of run() of a connection. *)
LEMMA BufConn == ASSUME TypeOK, BufInv, NEW c \in Conns, Conn(c)  PROVE BufInv'
<1>1. CASE ConnInbound(c)
  <2>1. UNCHANGED <<at, sendq, outboundCh, rl, wl, udpIn, refs>> /\ bufs' = bufs - 1
    BY <1>1 DEF ConnInbound, outVars, writeVars, udpVars
  <2>2. Cardinality(Queued') = Cardinality(Queued) - 1
    BY <1>1, QueuedShrinks DEF ConnInbound
  <2>3. InUse' = InUse - 1
    BY <2>1, <2>2, InUseType DEF InUse, Answering
  <2>4. bufs' = InUse' + Len(sendq') + outboundCh'
    BY <2>1, <2>3, BufsType
  <2>5. QED  BY <2>1, <2>4 DEF BufInv, BuffersAccounted, Waits
<1>2. CASE ConnAnswers(c)
  <2> DEFINE extra == IF outboundCh = OutboundQueueSize /\ ~done THEN 0 ELSE -1
  <2>1. Cardinality(Queued') = Cardinality(Queued) - 1
    BY <1>2, QueuedShrinks DEF ConnAnswers
  <2>2. /\ at[c] = "loop" /\ SendPacket(RunOf(c), extra)
        /\ at' = [at EXCEPT ![c] = IF Blocked(RunOf(c)) THEN "answer" ELSE "loop"]
        /\ UNCHANGED <<rl, wl, refs, udpIn>>
    BY <1>2 DEF ConnAnswers, writeVars, udpVars
  <2>3. sendq' # sendq <=> outboundCh = OutboundQueueSize /\ ~done
    <3>1. Len(Append(sendq, RunOf(c))) = Len(sendq) + 1 /\ Len(sendq) \in Nat
      BY DEF BufInv
    <3>2. Append(sendq, RunOf(c)) # sendq
      BY <3>1
    <3>3. QED  BY <2>2, <3>2, StackAssumption DEF SendPacket, BufInv
  <2>4. extra = OneIf("answer" = "answer" /\ sendq' # sendq) - 1 /\ extra \in Int
    BY <2>3 DEF OneIf
  <2> HIDE DEF extra
  <2>5. 1 \in Int /\ "answer" \in {"answer", "data", "rst"}
    OBVIOUS
  <2>6. QED  BY <2>1, <2>2, <2>4, <2>5, BufConnSend, Zenon
<1>3. CASE ConnSends(c)
  <2>1. /\ at[c] = "loop" /\ SendPacket(RunOf(c), 0)
        /\ at' = [at EXCEPT ![c] = IF Blocked(RunOf(c)) THEN "data" ELSE "loop"]
        /\ UNCHANGED <<inbound, rl, wl, refs, udpIn>>
    BY <1>3 DEF ConnSends, vars, writeVars, udpVars
  <2>2. Cardinality(Queued') = Cardinality(Queued) - 0
    <3>1. Queued' = Queued
      BY <2>1 DEF Queued
    <3>2. QED  BY <3>1, InUseType
  <2>3. 0 = OneIf("data" = "answer" /\ sendq' # sendq) - 0
    BY DEF OneIf
  <2>4. 0 \in Int /\ "data" \in {"answer", "data", "rst"}
    OBVIOUS
  <2>5. QED  BY <2>1, <2>2, <2>3, <2>4, BufConnSend, Zenon
<1>4. CASE SendRST(c)
  <2>1. /\ at[c] = "loop" /\ SendPacket(RunOf(c), 0)
        /\ IF Blocked(RunOf(c)) THEN at' = [at EXCEPT ![c] = "rst"] ELSE at' = at
        /\ UNCHANGED <<inbound, rl, wl, refs, udpIn>>
    BY <1>4 DEF SendRST, RunTimeout, Move, vars, writeVars, udpVars
  <2>2. at' = [at EXCEPT ![c] = IF Blocked(RunOf(c)) THEN "rst" ELSE "loop"]
    BY <2>1, SMTT(30) DEF BufInv
  <2>3. Cardinality(Queued') = Cardinality(Queued) - 0
    <3>1. Queued' = Queued
      BY <2>1 DEF Queued
    <3>2. QED  BY <3>1, InUseType
  <2>4. 0 = OneIf("rst" = "answer" /\ sendq' # sendq) - 0
    BY DEF OneIf
  <2>5. 0 \in Int /\ "rst" \in {"answer", "data", "rst"}
    BY SMTT(30)
  <2>6. QED  BY <2>1, <2>2, <2>3, <2>4, <2>5, BufConnSend, Zenon
<1>5. CASE ConnSent(c)
  <2>1. /\ at[c] # "loop" /\ ~Waits(RunOf(c), sendq) /\ at' = [at EXCEPT ![c] = "loop"]
        /\ bufs' = (IF at[c] = "answer" THEN bufs - 1 ELSE bufs)
        /\ UNCHANGED <<inbound, rl, wl, sendq, outboundCh, refs, udpIn>>
    BY <1>5 DEF ConnSent, RunTimeout, Move, vars, outVars, writeVars, udpVars
  <2>8. at \in [Conns -> Places]
    BY DEF BufInv
  <2>2. /\ Cardinality(Answering) \in Nat
        /\ Cardinality(Answering') =
             Cardinality(Answering) + OneIf("loop" = "answer") - OneIf(at[c] = "answer")
    BY <2>1, <2>8, AnsweringStep, Zenon
  <2>3. InUse' = IF at[c] = "answer" THEN InUse - 1 ELSE InUse
    <3>1. /\ Queued' = Queued /\ OneIf(rl' # "exited") = OneIf(rl # "exited")
          /\ OneIf(wl' \in {"write", "blocked"}) = OneIf(wl \in {"write", "blocked"})
      BY <2>1, Zenon DEF Queued
    <3>2. Cardinality(Answering') =
            IF at[c] = "answer" THEN Cardinality(Answering) - 1 ELSE Cardinality(Answering)
      BY <2>2 DEF OneIf
    <3>3. QED  BY <3>1, <3>2, InUseType DEF InUse
  <2>4. bufs' = InUse' + Len(sendq') + outboundCh'
    BY <2>1, <2>3, BufsType
  <2>5. at' \in [Conns -> Places] /\ \A d \in Conns : at'[d] = "loop" => at[d] = "loop" \/ d = c
    BY <2>1, <2>8, SMTT(30) DEF Places
  <2>6. \A d \in Conns : at'[d] = "loop" => ~Waits(RunOf(d), sendq')
    BY <2>1, <2>5 DEF BufInv
  <2>7. QED  BY <2>1, <2>4, <2>5, <2>6 DEF BufInv, BuffersAccounted
<1>6. CASE ConnDrain(c)
  <2>1. UNCHANGED <<at, sendq, outboundCh, rl, wl, udpIn, refs>> /\ bufs' = bufs - Len(inbound[c])
    BY <1>6, SMTT(30) DEF ConnDrain, outVars, writeVars, udpVars
  <2>2. Cardinality(Queued') = Cardinality(Queued) - Len(inbound[c]) /\ Len(inbound[c]) \in Nat
    BY <1>6, QueuedDrained, SMTT(30) DEF ConnDrain, TypeOK
  <2>3. InUse' = InUse - Len(inbound[c])
    BY <2>1, <2>2, InUseType DEF InUse, Answering
  <2>4. bufs' = InUse' + Len(sendq') + outboundCh'
    <3> DEFINE k == Len(inbound[c])
    <3>1. /\ k \in Nat /\ bufs' = bufs - k /\ InUse' = InUse - k
          /\ Len(sendq') = Len(sendq) /\ outboundCh' = outboundCh
      BY <2>1, <2>2, <2>3
    <3> HIDE DEF k
    <3>2. QED  BY <3>1, BufsType
  <2>5. QED  BY <2>1, <2>4 DEF BufInv, BuffersAccounted, Waits
<1>7. CASE ConnAccepted(c) \/ ConnTimeout(c) \/ ConnRemove(c)
           \/ (at[c] = "loop" /\ (RunForceClose(c) \/ RunDone(c)) /\ UNCHANGED stackVars)
  <2>1. inbound' = inbound /\ UNCHANGED stackVars
    BY <1>7, Zenon DEF ConnAccepted, ConnTimeout, ConnRemove, AcceptEnqueue, RunTimeout, removeConn,
       RunForceClose, RunDone
  <2>2. QED  BY <2>1, BufQuiet DEF stackVars, outVars, writeVars, udpVars
<1>8. QED  BY <1>1, <1>2, <1>3, <1>4, <1>5, <1>6, <1>7 DEF Conn, ConnEnds, ConnGoesOn

(* The invariant is inductive. *)
LEMMA BufStep == TypeOK /\ BufInv /\ [StackNext]_allVars => BufInv'
<1> SUFFICES ASSUME TypeOK, BufInv, [StackNext]_allVars PROVE BufInv'
  OBVIOUS
<1>1. CASE TcpApp \/ TcpClose \/ TcpCloser
  <2>1. inbound' = inbound /\ UNCHANGED stackVars
    BY <1>1 DEF TcpApp, TcpClose, TcpCloser, Accept, AcceptFails, CloseListener, CloseSnapshot,
       ForceClose, CloseReturns
  <2>2. QED  BY <2>1, BufQuiet, SMTT(30) DEF stackVars, outVars, writeVars, udpVars
<1>2. CASE ReadFrom
  <2>1. /\ UNCHANGED <<inbound, at, sendq, outboundCh, rl, wl, bufs>>
        /\ udpIn' = udpIn - 1 /\ refs' = refs - 1
    BY <1>2 DEF ReadFrom, vars, outVars, writeVars
  <2>2. QED  BY <2>1, InUseSame, SMTT(30) DEF BufInv, BuffersAccounted, Waits
<1>3. CASE ReadFromFails \/ WriteToReturns \/ UdpClose
  BY <1>3, BufQuiet DEF ReadFromFails, WriteToReturns, UdpClose, vars, outVars, writeVars
<1>4. CASE WriteTo
  BY <1>4, BufSend DEF WriteTo, vars, writeVars
<1>5. CASE StopDone \/ StopChannel \/ StopReturns
  BY <1>5, BufQuiet DEF StopDone, StopChannel, StopReturns, vars, outVars, writeVars, udpVars
<1>6. CASE UNCHANGED allVars
  BY <1>6, BufQuiet DEF allVars, stackVars, vars, outVars, writeVars, udpVars
<1>7. QED  BY <1>1, <1>2, <1>3, <1>4, <1>5, <1>6, BufRead, BufWrite, BufConn DEF StackNext

(***************************************************************************)
(* Every buffer that is out of the pool is in one place, for any number of *)
(* connections and any queue sizes, though SendPacket may block at each of *)
(* its calls and Stop make it give up.                                     *)
(***************************************************************************)
THEOREM BuffersAreAccounted == StackSpec => []BuffersAccounted
<1>1. StackInit => BufInv
  <2> SUFFICES ASSUME StackInit PROVE BufInv
    OBVIOUS
  <2>1. Queued = {} /\ Answering = {}
    BY DEF StackInit, Init, Queued, Answering
  <2>2. Cardinality(Queued) = 0 /\ Cardinality(Answering) = 0
    BY <2>1, FS_EmptySet
  <2>3. BuffersAccounted
    BY <2>2 DEF StackInit, BuffersAccounted, InUse, OneIf
  <2>4. QED  BY <2>3 DEF StackInit, BufInv, Places, Waits
<1>2. BufInv => BuffersAccounted
  BY DEF BufInv
<1>3. StackSpec => []TypeOK
  BY StackImplementsHandler, HandlerTypeCorrect, PTL
<1>4. QED  BY <1>1, <1>2, <1>3, BufStep, PTL DEF StackSpec
=============================================================================
