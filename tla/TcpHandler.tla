----------------------------- MODULE TcpHandler -----------------------------
(***************************************************************************)
(* TCPHandler and TCPListener (transport/tcp/handler.go, listener.go): the *)
(* table of connections, the accept queue and the shutdown of everything.  *)
(*                                                                         *)
(* Goroutines: the stack's read loop, which calls HandlePacket for one     *)
(* segment at a time; run() of every connection; the application, which    *)
(* calls Accept until it fails; and the caller of Close.  A step is what a *)
(* goroutine does between two points where it takes a lock or may block.   *)
(* What a connection does with a segment is TcpConn's subject: here it may *)
(* end or go on.                                                           *)
(***************************************************************************)
EXTENDS Integers, Sequences

CONSTANTS
  Flows,             \* four-tuples (FlowID)
  MaxConns,          \* bound: connections created in all
  InboundQueueSize, AcceptQueueSize,
  None               \* no connection

Conns == 1 .. MaxConns

ASSUME HandlerAssumption ==
  /\ MaxConns \in Nat /\ InboundQueueSize \in Nat \ {0} /\ AcceptQueueSize \in Nat \ {0}
  /\ None \notin Conns

VARIABLES
  conns,             \* h.conns
  closed,            \* h.closed
  reader,            \* the read loop inside HandlePacket: what it looked up
  phase,             \* where run() of each connection is
  flow,              \* conn.flow
  inbound,           \* conn.inbound
  forceCloseCh,      \* connections whose forceCloseCh is closed
  acceptCh,          \* listener.acceptCh
  listenerDone,      \* listener.done is closed
  app,               \* the application: accepting, or stopped by an error
  closer,            \* where Close is
  toClose            \* the connections Close has yet to force closed

vars == <<conns, closed, reader, phase, flow, inbound, forceCloseCh, acceptCh,
          listenerDone, app, closer, toClose>>

(***************************************************************************)
(* Phases of run(): "synRcvd" and "running" are in the select; "accepting" *)
(* is blocked sending to acceptCh; "closed" is in the select with done     *)
(* closed; "exiting" has left the loop, "removed" has taken itself out of  *)
(* the table, "gone" has drained inbound and returned.                     *)
(***************************************************************************)
InSelect == {"synRcvd", "running", "closed"}
DoneClosed == {"closed", "exiting", "removed", "gone"}
Phases == {"none", "accepting"} \cup InSelect \cup DoneClosed

Kinds == {"SYN", "ACK", "RST"}

Idle == [pc |-> "idle"]

Init ==
  /\ conns = [f \in Flows |-> None] /\ closed = FALSE
  /\ reader = Idle
  /\ phase = [c \in Conns |-> "none"]
  /\ flow = [c \in Conns |-> None]
  /\ inbound = [c \in Conns |-> <<>>]
  /\ forceCloseCh = {} /\ acceptCh = <<>> /\ listenerDone = FALSE
  /\ app = "accepting" /\ closer = "no" /\ toClose = {}
-----------------------------------------------------------------------------
(* Fault: a SYN is taken for a new connection whatever the table says. *)
LookUpFreshSYN(f, kind) ==
  /\ reader = Idle /\ ~closed
  /\ kind = "SYN" => \E c \in Conns : phase[c] = "none"
  /\ reader' = [pc |-> "found", flow |-> f, kind |-> kind,
                conn |-> IF kind = "SYN" THEN None ELSE conns[f]]
  /\ UNCHANGED <<conns, closed, phase, flow, inbound, forceCloseCh, acceptCh,
                 listenerDone, app, closer, toClose>>

(* HandlePacket up to RUnlock: look the flow up, or drop once closed.      *)
(* Bound: no new flow opens once MaxConns connections were created.        *)
LookUp(f, kind) ==
  /\ reader = Idle /\ ~closed
  /\ kind = "SYN" => conns[f] # None \/ \E c \in Conns : phase[c] = "none"
  /\ reader' = [pc |-> "found", flow |-> f, kind |-> kind, conn |-> conns[f]]
  /\ UNCHANGED <<conns, closed, phase, flow, inbound, forceCloseCh, acceptCh,
                 listenerDone, app, closer, toClose>>

(* Fault: the queue is not bounded. *)
EnqueueUnbounded ==
  /\ reader.pc = "found" /\ reader.conn # None
  /\ inbound' = [inbound EXCEPT ![reader.conn] = Append(@, reader.kind)]
  /\ reader' = Idle
  /\ UNCHANGED <<conns, closed, phase, flow, forceCloseCh, acceptCh, listenerDone,
                 app, closer, toClose>>

(* The connection looked up gets the segment, unless its queue is full. *)
Enqueue ==
  /\ reader.pc = "found" /\ reader.conn # None
  /\ inbound' = [inbound EXCEPT ![reader.conn] =
                   IF Len(@) < InboundQueueSize THEN Append(@, reader.kind) ELSE @]
  /\ reader' = Idle
  /\ UNCHANGED <<conns, closed, phase, flow, forceCloseCh, acceptCh, listenerDone,
                 app, closer, toClose>>

(* Fault: closed is not tested again under the lock. *)
handleSYNUnchecked ==
  /\ reader.pc = "found" /\ reader.conn = None /\ reader.kind = "SYN"
  /\ \E c \in Conns :
       /\ phase[c] = "none" /\ \A d \in 1 .. c - 1 : phase[d] # "none"
       /\ conns' = [conns EXCEPT ![reader.flow] = c]
       /\ phase' = [phase EXCEPT ![c] = "synRcvd"]
       /\ flow' = [flow EXCEPT ![c] = reader.flow]
  /\ reader' = Idle
  /\ UNCHANGED <<closed, inbound, forceCloseCh, acceptCh, listenerDone, app, closer, toClose>>

(* handleSYN: under the lock, a new connection unless closed meanwhile. *)
handleSYN ==
  /\ reader.pc = "found" /\ reader.conn = None /\ reader.kind = "SYN"
  /\ \/ /\ closed
        /\ UNCHANGED <<conns, phase, flow>>
     \/ /\ ~closed
        /\ \E c \in Conns :
             /\ phase[c] = "none" /\ \A d \in 1 .. c - 1 : phase[d] # "none"
             /\ conns' = [conns EXCEPT ![reader.flow] = c]
             /\ phase' = [phase EXCEPT ![c] = "synRcvd"]
             /\ flow' = [flow EXCEPT ![c] = reader.flow]
  /\ reader' = Idle
  /\ UNCHANGED <<closed, inbound, forceCloseCh, acceptCh, listenerDone, app, closer, toClose>>

(* Anything else for an unknown flow is dropped or answered with RST. *)
Reject ==
  /\ reader.pc = "found" /\ reader.conn = None /\ reader.kind # "SYN"
  /\ reader' = Idle
  /\ UNCHANGED <<conns, closed, phase, flow, inbound, forceCloseCh, acceptCh,
                 listenerDone, app, closer, toClose>>
-----------------------------------------------------------------------------
Move(c, p) ==
  /\ phase' = [phase EXCEPT ![c] = p]
  /\ UNCHANGED <<closed, reader, flow, forceCloseCh, listenerDone, app, closer, toClose>>

(* The phases a segment can lead to: an ACK may complete the handshake, a  *)
(* segment may end the connection, and a closed one stays closed.          *)
After(p, kind) ==
  CASE p = "synRcvd" -> {"synRcvd", "closed"} \cup IF kind = "ACK" THEN {"accepting"} ELSE {}
    [] p = "running" -> {"running", "closed"}
    [] p = "closed"  -> {"closed"}

RunInbound(c) ==
  /\ phase[c] \in InSelect /\ inbound[c] # <<>>
  /\ \E p \in After(phase[c], Head(inbound[c])) : Move(c, p)
  /\ inbound' = [inbound EXCEPT ![c] = Tail(@)]
  /\ UNCHANGED <<conns, acceptCh>>

(* handleSynRcvd's send to acceptCh; its other case waits for c.done, which *)
(* only run() itself closes.                                               *)
AcceptEnqueue(c) ==
  /\ phase[c] = "accepting" /\ Len(acceptCh) < AcceptQueueSize
  /\ Move(c, "running")
  /\ acceptCh' = Append(acceptCh, c)
  /\ UNCHANGED <<conns, inbound>>

(* A timer ends the connection: SYN_RCVD, RTO, keepalive, TIME_WAIT... *)
RunTimeout(c) ==
  /\ phase[c] \in {"synRcvd", "running"}
  /\ Move(c, "exiting")
  /\ UNCHANGED <<conns, inbound, acceptCh>>

(* Fault: SYN_RCVD does not look at forceCloseCh. *)
RunForceCloseOnceRunning(c) ==
  /\ phase[c] = "running" /\ c \in forceCloseCh
  /\ Move(c, "exiting")
  /\ UNCHANGED <<conns, inbound, acceptCh>>

RunForceClose(c) ==
  /\ phase[c] \in InSelect /\ c \in forceCloseCh
  /\ Move(c, "exiting")
  /\ UNCHANGED <<conns, inbound, acceptCh>>

RunDone(c) ==
  /\ phase[c] = "closed"
  /\ Move(c, "exiting")
  /\ UNCHANGED <<conns, inbound, acceptCh>>

(* cleanup: removeConn under the lock, then drain inbound. *)
removeConn(c) ==
  /\ phase[c] = "exiting"
  /\ Move(c, "removed")
  /\ conns' = [conns EXCEPT ![flow[c]] = None]
  /\ UNCHANGED <<inbound, acceptCh>>

DrainInbound(c) ==
  /\ phase[c] = "removed"
  /\ Move(c, "gone")
  /\ inbound' = [inbound EXCEPT ![c] = <<>>]
  /\ UNCHANGED <<conns, acceptCh>>

RunExit(c) == RunForceClose(c) \/ RunDone(c) \/ removeConn(c) \/ DrainInbound(c)
-----------------------------------------------------------------------------
(* Accept: a queued connection or, once the listener is closed, an error.  *)
(* With both ready the select may take either.                             *)
Accept ==
  /\ app = "accepting" /\ acceptCh # <<>>
  /\ acceptCh' = Tail(acceptCh)
  /\ UNCHANGED <<conns, closed, reader, phase, flow, inbound, forceCloseCh,
                 listenerDone, app, closer, toClose>>

AcceptFails ==
  /\ app = "accepting" /\ listenerDone
  /\ app' = "stopped"
  /\ UNCHANGED <<conns, closed, reader, phase, flow, inbound, forceCloseCh, acceptCh,
                 listenerDone, closer, toClose>>
-----------------------------------------------------------------------------
(* The application may close the listener alone. *)
ListenerClose ==
  /\ ~listenerDone
  /\ listenerDone' = TRUE
  /\ UNCHANGED <<conns, closed, reader, phase, flow, inbound, forceCloseCh, acceptCh,
                 app, closer, toClose>>

(* Close: the listener; then the flag and the snapshot under the lock; then *)
(* ForceClose of each connection, which waits for its done; then wg.Wait.  *)
CloseListener ==
  /\ closer = "no"
  /\ listenerDone' = TRUE /\ closer' = "listener"
  /\ UNCHANGED <<conns, closed, reader, phase, flow, inbound, forceCloseCh, acceptCh,
                 app, toClose>>

CloseSnapshot ==
  /\ closer = "listener"
  /\ closed' = TRUE /\ closer' = "forcing"
  /\ toClose' = {conns[f] : f \in Flows} \ {None}
  /\ UNCHANGED <<conns, reader, phase, flow, inbound, forceCloseCh, acceptCh,
                 listenerDone, app>>

ForceClose(c) ==
  /\ closer = "forcing" /\ c \in toClose
  /\ \A d \in forceCloseCh : phase[d] \in DoneClosed
  /\ forceCloseCh' = forceCloseCh \cup {c}
  /\ toClose' = toClose \ {c}
  /\ UNCHANGED <<conns, closed, reader, phase, flow, inbound, acceptCh, listenerDone,
                 app, closer>>

(* Fault: wg.Wait is missing. *)
CloseReturnsEarly ==
  /\ closer = "forcing" /\ toClose = {}
  /\ closer' = "returned"
  /\ UNCHANGED <<conns, closed, reader, phase, flow, inbound, forceCloseCh, acceptCh,
                 listenerDone, app, toClose>>

CloseReturns ==
  /\ closer = "forcing" /\ toClose = {}
  /\ \A c \in Conns : phase[c] \in {"none", "gone"}
  /\ closer' = "returned"
  /\ UNCHANGED <<conns, closed, reader, phase, flow, inbound, forceCloseCh, acceptCh,
                 listenerDone, app, toClose>>
-----------------------------------------------------------------------------
ReaderStep == Enqueue \/ handleSYN \/ Reject

CloserStep == CloseSnapshot \/ (\E c \in Conns : ForceClose(c)) \/ CloseReturns

Next ==
  \/ \E f \in Flows, kind \in Kinds : LookUp(f, kind)
  \/ ReaderStep
  \/ \E c \in Conns : RunInbound(c) \/ AcceptEnqueue(c) \/ RunTimeout(c) \/ RunExit(c)
  \/ Accept \/ AcceptFails \/ ListenerClose
  \/ CloseListener \/ CloserStep

Spec == Init /\ [][Next]_vars

(***************************************************************************)
(* Every goroutine that can run does: a run loop takes one of its ready    *)
(* cases, and with forceCloseCh or done closed it takes that one in the    *)
(* end; the application keeps calling Accept until it fails; Close, once   *)
(* called, goes on.  Segments need not arrive and timers need not expire.  *)
(***************************************************************************)
Fairness ==
  /\ WF_vars(ReaderStep) /\ WF_vars(CloserStep)
  /\ \A c \in Conns : WF_vars(AcceptEnqueue(c)) /\ SF_vars(RunExit(c))
  /\ WF_vars(Accept \/ AcceptFails)

FairSpec == Spec /\ Fairness
-----------------------------------------------------------------------------
(* The variables keep their types; neither queue exceeds its size. *)
TypeOK ==
  /\ conns \in [Flows -> Conns \cup {None}] /\ closed \in BOOLEAN
  /\ reader = Idle \/ reader \in [pc : {"found"}, flow : Flows, kind : Kinds,
                                  conn : Conns \cup {None}]
  /\ phase \in [Conns -> Phases]
  /\ flow \in [Conns -> Flows \cup {None}]
  /\ inbound \in [Conns -> Seq(Kinds)] /\ acceptCh \in Seq(Conns)
  /\ \A c \in Conns : Len(inbound[c]) =< InboundQueueSize
  /\ Len(acceptCh) =< AcceptQueueSize
  /\ forceCloseCh \subseteq Conns /\ toClose \subseteq Conns
  /\ listenerDone \in BOOLEAN /\ app \in {"accepting", "stopped"}
  /\ closer \in {"no", "listener", "forcing", "returned"}

Live(c) == phase[c] \notin {"none", "removed", "gone"}

(***************************************************************************)
(* The table is exact: a flow maps to c if and only if c is that flow's    *)
(* live connection.  So there is at most one live connection per flow, and *)
(* removeConn, which deletes by flow, never deletes a successor. handleSYN *)
(* acts on a lookup made before it took the lock, and a connection may     *)
(* leave at any time.                                                      *)
(***************************************************************************)
TableExact ==
  \A f \in Flows, c \in Conns : conns[f] = c <=> Live(c) /\ flow[c] = f

(***************************************************************************)
(* No connection escapes Close: once closed is set every connection that   *)
(* is still live has been, or is going to be, forced closed, even one whose*)
(* SYN was in HandlePacket when Close took its snapshot.                   *)
(***************************************************************************)
NoneEscapesClose ==
  closed => \A c \in Conns : Live(c) => c \in toClose \cup forceCloseCh

(* Close has returned: nothing runs, the table is empty and stays so.      *)
ClosedIsQuiet ==
  closer = "returned" =>
    /\ \A f \in Flows : conns[f] = None
    /\ \A c \in Conns : phase[c] \in {"none", "gone"}

(* "Close shuts down the handler and all connections": it returns.         *)
CloseTerminates == closer = "listener" ~> closer = "returned"
=============================================================================
