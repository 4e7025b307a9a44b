-------------------------- MODULE TcpHandlerProofs --------------------------
(***************************************************************************)
(* Proofs about TcpHandler for any flows, number of connections and queue  *)
(* sizes.  None of the three safety invariants is inductive alone: whether *)
(* handleSYN keeps the table exact depends on the lookup it acts on being  *)
(* current, and whether Close misses a connection depends on the table.    *)
(***************************************************************************)
EXTENDS TcpHandler, SequenceTheorems, TLAPS

(* A lookup that found no connection is still right when it is acted on. *)
LookupCurrent ==
  reader.pc = "found" /\ reader.conn = None => conns[reader.flow] = None

(* A connection that was created has a flow. *)
FlowKnown == \A c \in Conns : phase[c] # "none" => flow[c] \in Flows

(* closed is set exactly when Close has taken its snapshot. *)
CloserState == closed <=> closer \in {"forcing", "returned"}

HInv ==
  /\ TypeOK /\ TableExact /\ LookupCurrent /\ FlowKnown
  /\ CloserState /\ NoneEscapesClose /\ ClosedIsQuiet

(* HandlerAssumption gives what the proofs use: None is no connection. *)
LEMMA InitHolds == Init => HInv
<1> SUFFICES ASSUME Init PROVE HInv
  OBVIOUS
<1> USE DEF Init
<1>1. <<>> \in Seq(Kinds) /\ <<>> \in Seq(Conns) /\ Len(<<>>) = 0
  OBVIOUS
<1>2. TypeOK
  <2>1. /\ inbound \in [Conns -> Seq(Kinds)] /\ acceptCh \in Seq(Conns)
        /\ \A c \in Conns : Len(inbound[c]) = 0
        /\ Len(acceptCh) = 0
    BY <1>1
  <2>2. 0 =< InboundQueueSize /\ 0 =< AcceptQueueSize
    BY HandlerAssumption
  <2>3. phase \in [Conns -> Phases]
    BY DEF Phases
  <2>4. QED  BY <2>1, <2>2, <2>3 DEF TypeOK
<1>3. TableExact /\ FlowKnown
  BY HandlerAssumption DEF TableExact, FlowKnown, Live
<1>4. LookupCurrent /\ CloserState /\ NoneEscapesClose /\ ClosedIsQuiet
  BY DEF LookupCurrent, CloserState, NoneEscapesClose, ClosedIsQuiet, Idle
<1>5. QED  BY <1>2, <1>3, <1>4 DEF HInv

(* Taking the head off a queue and appending to one keep it a queue.      *)
LEMMA QueueFacts ==
  ASSUME NEW S, NEW q \in Seq(S), NEW x \in S
  PROVE  /\ Append(q, x) \in Seq(S) /\ Len(Append(q, x)) = Len(q) + 1
         /\ Len(q) \in Nat
         /\ q # <<>> => Tail(q) \in Seq(S) /\ Len(Tail(q)) = Len(q) - 1 /\ Head(q) \in S
  OBVIOUS

(* The type invariant is kept by the steps that touch a queue. *)
LEMMA TypeQueues ==
  ASSUME TypeOK, Enqueue \/ (\E c \in Conns : RunInbound(c) \/ AcceptEnqueue(c)) \/ Accept
  PROVE  TypeOK'
<1> USE DEF TypeOK, Phases, InSelect, DoneClosed
<1>1. CASE Enqueue
  <2>1. reader.conn \in Conns /\ reader.kind \in Kinds
    BY <1>1 DEF Enqueue, Idle
  <2>2. QED  BY <1>1, <2>1, QueueFacts, HandlerAssumption DEF Enqueue, Idle
<1>2. ASSUME NEW c \in Conns, RunInbound(c)  PROVE TypeOK'
  <2>1. Tail(inbound[c]) \in Seq(Kinds) /\ Len(Tail(inbound[c])) =< InboundQueueSize
    BY <1>2, QueueFacts, HandlerAssumption DEF RunInbound, Kinds
  <2>2. PICK p \in After(phase[c], Head(inbound[c])) : Move(c, p)
    BY <1>2 DEF RunInbound
  <2>3. p \in Phases
    BY <1>2, <2>2 DEF RunInbound, After
  <2>4. QED  BY <1>2, <2>1, <2>2, <2>3 DEF RunInbound, Move
<1>3. ASSUME NEW c \in Conns, AcceptEnqueue(c)  PROVE TypeOK'
  <2>1. Append(acceptCh, c) \in Seq(Conns) /\ Len(Append(acceptCh, c)) =< AcceptQueueSize
    BY <1>3, QueueFacts, HandlerAssumption DEF AcceptEnqueue
  <2>2. QED  BY <1>3, <2>1 DEF AcceptEnqueue, Move
<1>4. CASE Accept
  <2>1. PICK x \in Conns : TRUE
    BY <1>4 DEF Accept
  <2>2. Tail(acceptCh) \in Seq(Conns) /\ Len(Tail(acceptCh)) =< AcceptQueueSize
    BY <1>4, <2>1, QueueFacts, HandlerAssumption DEF Accept
  <2>3. QED  BY <1>4, <2>2 DEF Accept
<1>5. QED  BY <1>1, <1>2, <1>3, <1>4

(* And by the other steps. *)
LEMMA TypeRest ==
  ASSUME TypeOK,
         \/ \E f \in Flows, kind \in Kinds : LookUp(f, kind)
         \/ handleSYN \/ Reject
         \/ \E c \in Conns : RunTimeout(c) \/ RunExit(c)
         \/ AcceptFails \/ ListenerClose \/ CloseListener \/ CloserStep
  PROVE  TypeOK'
<1> USE DEF TypeOK, Phases, InSelect, DoneClosed
<1>1. ASSUME NEW f \in Flows, NEW kind \in Kinds, LookUp(f, kind)  PROVE TypeOK'
  BY <1>1 DEF LookUp
<1>2. CASE handleSYN
  <2>1. reader.flow \in Flows
    BY <1>2 DEF handleSYN, Idle
  <2>2. CASE closed
    BY <1>2, <2>2 DEF handleSYN
  <2>3. CASE ~closed
    <3>1. PICK c \in Conns : /\ conns' = [conns EXCEPT ![reader.flow] = c]
                            /\ phase' = [phase EXCEPT ![c] = "synRcvd"]
                            /\ flow' = [flow EXCEPT ![c] = reader.flow]
      BY <1>2, <2>3 DEF handleSYN
    <3>2. conns' \in [Flows -> Conns \cup {None}] /\ phase' \in [Conns -> Phases]
          /\ flow' \in [Conns -> Flows \cup {None}]
      BY <2>1, <3>1
    <3>3. QED  BY <1>2, <3>2 DEF handleSYN
  <2>4. QED  BY <2>2, <2>3
<1>3. CASE Reject
  BY <1>3 DEF Reject
<1>4. ASSUME NEW c \in Conns, RunTimeout(c)  PROVE TypeOK'
  BY <1>4 DEF RunTimeout, Move
<1>5. ASSUME NEW c \in Conns, RunExit(c)  PROVE TypeOK'
  <2>1. CASE RunForceClose(c) \/ RunDone(c)
    BY <2>1 DEF RunForceClose, RunDone, Move
  <2>2. CASE removeConn(c)
    BY <2>2 DEF removeConn, Move
  <2>3. CASE DrainInbound(c)
    <3>1. <<>> \in Seq(Kinds) /\ Len(<<>>) = 0
      OBVIOUS
    <3>2. QED  BY <2>3, <3>1, HandlerAssumption DEF DrainInbound, Move
  <2>4. QED  BY <1>5, <2>1, <2>2, <2>3 DEF RunExit
<1>6. CASE AcceptFails \/ ListenerClose \/ CloseListener
  BY <1>6 DEF AcceptFails, ListenerClose, CloseListener
<1>7. CASE CloserStep
  <2>1. CASE CloseSnapshot
    <3>1. {conns[f] : f \in Flows} \ {None} \subseteq Conns
      OBVIOUS
    <3>2. QED  BY <2>1, <3>1 DEF CloseSnapshot
  <2>2. ASSUME NEW c \in Conns, ForceClose(c)  PROVE TypeOK'
    BY <2>2 DEF ForceClose
  <2>3. CASE CloseReturns
    BY <2>3 DEF CloseReturns
  <2>4. QED  BY <1>7, <2>1, <2>2, <2>3 DEF CloserStep
<1>8. QED  BY <1>1, <1>2, <1>3, <1>4, <1>5, <1>6, <1>7

(* TypeOK is inductive. *)
LEMMA HandlerTypeStep == TypeOK /\ [Next]_vars => TypeOK'
<1>1. CASE Next
  BY <1>1, TypeQueues, TypeRest DEF Next, ReaderStep
<1>2. CASE UNCHANGED vars
  BY <1>2 DEF vars, TypeOK
<1>3. QED  BY <1>1, <1>2

(* The steps that create or remove no connection leave the table exact. *)
LEMMA TableQuiet ==
  ASSUME TypeOK, TableExact, FlowKnown, conns' = conns, flow' = flow,
         \A c \in Conns : (Live(c))' <=> Live(c),
         \A c \in Conns : phase'[c] = "none" <=> phase[c] = "none"
  PROVE  TableExact' /\ FlowKnown'
  BY DEF TableExact, FlowKnown, Live

(* handleSYN keeps the table exact because its lookup is current. *)
LEMMA SYNStep ==
  ASSUME HInv, handleSYN
  PROVE  TableExact' /\ FlowKnown' /\ LookupCurrent' /\ NoneEscapesClose' /\ ClosedIsQuiet'
<1> USE DEF HInv, handleSYN
<1>1. LookupCurrent'
  BY DEF LookupCurrent, Idle
<1>2. CASE closed
  BY <1>1, <1>2 DEF TableExact, FlowKnown, NoneEscapesClose, ClosedIsQuiet, Live
<1>3. CASE ~closed
  <2>1. reader.flow \in Flows /\ conns[reader.flow] = None
    BY DEF TypeOK, Idle, LookupCurrent
  <2>2. PICK c \in Conns : /\ phase[c] = "none"
                          /\ conns' = [conns EXCEPT ![reader.flow] = c]
                          /\ phase' = [phase EXCEPT ![c] = "synRcvd"]
                          /\ flow' = [flow EXCEPT ![c] = reader.flow]
    BY <1>3
  <2>3. c # None /\ ~Live(c)
    BY <2>2, HandlerAssumption DEF Live
  <2>4. /\ phase'[c] = "synRcvd" /\ flow'[c] = reader.flow
        /\ \A d \in Conns : d # c => phase'[d] = phase[d] /\ flow'[d] = flow[d]
    BY <2>2 DEF TypeOK
  <2>5. /\ conns'[reader.flow] = c
        /\ \A f \in Flows : f # reader.flow => conns'[f] = conns[f]
    BY <2>1, <2>2 DEF TypeOK
  <2>6. FlowKnown'
    BY <2>1, <2>4 DEF FlowKnown
  <2>7. TableExact'
    <3> SUFFICES ASSUME NEW f \in Flows, NEW d \in Conns
                 PROVE  conns'[f] = d <=> (Live(d))' /\ flow'[d] = f
      BY DEF TableExact
    <3>1. CASE d = c
      BY <2>2, <2>3, <2>4, <2>5, <3>1 DEF TableExact, Live
    <3>2. CASE d # c
      <4>1. (Live(d))' <=> Live(d)
        BY <2>4, <3>2 DEF Live
      <4>2. d # None
        BY HandlerAssumption
      <4>3. QED  BY <2>1, <2>4, <2>5, <3>2, <4>1, <4>2 DEF TableExact
    <3>3. QED  BY <3>1, <3>2
  <2>8. NoneEscapesClose' /\ ClosedIsQuiet'
    BY <1>3 DEF NoneEscapesClose, ClosedIsQuiet, CloserState
  <2>9. QED  BY <1>1, <2>6, <2>7, <2>8
<1>4. QED  BY <1>2, <1>3

(* removeConn deletes its own entry and no other. *)
LEMMA RemoveStep ==
  ASSUME HInv, NEW c \in Conns, removeConn(c)
  PROVE  /\ TableExact' /\ FlowKnown' /\ LookupCurrent'
         /\ conns[flow[c]] = c
<1> USE DEF HInv, removeConn, Move
<1>1. Live(c) /\ flow[c] \in Flows
  BY DEF Live, FlowKnown
<1>2. conns[flow[c]] = c
  BY <1>1 DEF TableExact
<1>3. /\ phase'[c] = "removed" /\ flow' = flow
      /\ \A d \in Conns : d # c => phase'[d] = phase[d]
      /\ conns'[flow[c]] = None
      /\ \A f \in Flows : f # flow[c] => conns'[f] = conns[f]
  BY <1>1 DEF TypeOK
<1>4. FlowKnown'
  BY <1>1, <1>3 DEF FlowKnown
<1>5. TableExact'
  <2> SUFFICES ASSUME NEW f \in Flows, NEW d \in Conns
               PROVE  conns'[f] = d <=> (Live(d))' /\ flow'[d] = f
    BY DEF TableExact
  <2>1. d # None
    BY HandlerAssumption
  <2>2. CASE d = c
    BY <1>2, <1>3, <2>1, <2>2 DEF TableExact, Live
  <2>3. CASE d # c
    <3>1. (Live(d))' <=> Live(d)
      BY <1>3, <2>3 DEF Live
    <3>2. QED  BY <1>2, <1>3, <2>1, <2>3, <3>1 DEF TableExact
  <2>4. QED  BY <2>2, <2>3
<1>6. LookupCurrent'
  BY <1>3 DEF LookupCurrent, TypeOK, Idle
<1>7. QED  BY <1>2, <1>4, <1>5, <1>6

(* The steps of run() up to its exit, and those of the application, keep a *)
(* connection live and the table as it is.                                 *)
LEMMA RunStep ==
  ASSUME HInv, NEW c \in Conns,
         \/ RunInbound(c) \/ AcceptEnqueue(c) \/ RunTimeout(c)
         \/ RunForceClose(c) \/ RunDone(c) \/ DrainInbound(c)
  PROVE  /\ TableExact' /\ FlowKnown' /\ LookupCurrent'
         /\ CloserState' /\ NoneEscapesClose' /\ ClosedIsQuiet'
<1> USE DEF HInv
<1>1. PICK p \in Phases : Move(c, p) /\ p # "none" /\ (p \in {"removed", "gone"} <=> ~Live(c))
  <2> USE DEF Live, Phases, InSelect, DoneClosed
  <2>1. CASE RunInbound(c)
    BY <2>1 DEF RunInbound, After
  <2>2. CASE AcceptEnqueue(c) \/ RunTimeout(c) \/ RunForceClose(c) \/ RunDone(c)
    BY <2>2 DEF AcceptEnqueue, RunTimeout, RunForceClose, RunDone
  <2>3. CASE DrainInbound(c)
    BY <2>3 DEF DrainInbound
  <2>4. QED  BY <2>1, <2>2, <2>3
<1>2. phase[c] # "none" /\ phase[c] # "gone" /\ conns' = conns
  BY DEF RunInbound, AcceptEnqueue, RunTimeout, RunForceClose, RunDone, DrainInbound, InSelect
<1>3. /\ phase'[c] = p
      /\ \A d \in Conns : d # c => phase'[d] = phase[d]
  BY <1>1 DEF Move, TypeOK
<1>4. \A d \in Conns : (Live(d))' <=> Live(d)
  BY <1>1, <1>2, <1>3 DEF Live
<1>5. \A d \in Conns : phase'[d] = "none" <=> phase[d] = "none"
  BY <1>1, <1>2, <1>3
<1>6. TableExact' /\ FlowKnown'
  BY <1>1, <1>2, <1>4, <1>5, TableQuiet DEF Move
<1>7. LookupCurrent' /\ CloserState'
  BY <1>1, <1>2 DEF Move, LookupCurrent, CloserState
<1>8. NoneEscapesClose'
  BY <1>1, <1>4 DEF Move, NoneEscapesClose
<1>9. ClosedIsQuiet'
  <2>1. closer # "returned"
    BY <1>2 DEF ClosedIsQuiet
  <2>2. QED  BY <1>1, <2>1 DEF ClosedIsQuiet, Move
<1>10. QED  BY <1>6, <1>7, <1>8, <1>9

(* The steps of Close. *)
LEMMA ClosingStep ==
  ASSUME HInv, CloseListener \/ CloserStep
  PROVE  /\ TableExact' /\ FlowKnown' /\ LookupCurrent'
         /\ CloserState' /\ NoneEscapesClose' /\ ClosedIsQuiet'
<1> USE DEF HInv
<1>1. conns' = conns /\ flow' = flow /\ phase' = phase /\ reader' = reader
  BY DEF CloseListener, CloserStep, CloseSnapshot, ForceClose, CloseReturns
<1>2. TableExact' /\ FlowKnown' /\ LookupCurrent'
  BY <1>1 DEF TableExact, FlowKnown, LookupCurrent, Live
<1>3. CASE CloseListener
  BY <1>1, <1>2, <1>3 DEF CloseListener, CloserState, NoneEscapesClose, ClosedIsQuiet, Live
<1>4. CASE CloseSnapshot
  <2>1. ASSUME NEW c \in Conns, Live(c)  PROVE c \in toClose'
    <3>1. flow[c] \in Flows
      BY <2>1 DEF FlowKnown, Live
    <3>2. conns[flow[c]] = c /\ c # None
      BY <2>1, <3>1, HandlerAssumption DEF TableExact
    <3>3. QED  BY <1>4, <3>1, <3>2 DEF CloseSnapshot
  <2>2. NoneEscapesClose'
    BY <1>1, <2>1 DEF NoneEscapesClose, Live
  <2>3. QED  BY <1>2, <1>4, <2>2 DEF CloseSnapshot, CloserState, ClosedIsQuiet
<1>5. ASSUME NEW c \in Conns, ForceClose(c)
      PROVE  CloserState' /\ NoneEscapesClose' /\ ClosedIsQuiet'
  BY <1>1, <1>5 DEF ForceClose, CloserState, NoneEscapesClose, ClosedIsQuiet, Live
<1>6. CASE CloseReturns
  <2>1. \A c \in Conns : ~Live(c)
    BY <1>6 DEF CloseReturns, Live
  <2>2. \A f \in Flows : conns[f] = None
    <3>1. ASSUME NEW f \in Flows, conns[f] # None  PROVE FALSE
      <4>1. conns[f] \in Conns
        BY <3>1 DEF TypeOK
      <4>2. Live(conns[f])
        BY <4>1 DEF TableExact
      <4>3. QED  BY <2>1, <4>1, <4>2
    <3>2. QED  BY <3>1
  <2>3. QED  BY <1>1, <1>2, <1>6, <2>1, <2>2
             DEF CloseReturns, CloserState, NoneEscapesClose, ClosedIsQuiet, Live
<1>7. QED  BY <1>2, <1>3, <1>4, <1>5, <1>6 DEF CloserStep

(* The remaining steps: the lookup, its other outcomes, and Accept. *)
LEMMA OtherStep ==
  ASSUME HInv,
         \/ \E f \in Flows, kind \in Kinds : LookUp(f, kind)
         \/ Enqueue \/ Reject \/ Accept \/ AcceptFails \/ ListenerClose
         \/ UNCHANGED vars
  PROVE  /\ TableExact' /\ FlowKnown' /\ LookupCurrent'
         /\ CloserState' /\ NoneEscapesClose' /\ ClosedIsQuiet'
<1> USE DEF HInv
<1>1. UNCHANGED <<conns, flow, phase, closed, closer, toClose, forceCloseCh>>
  BY DEF LookUp, Enqueue, Reject, Accept, AcceptFails, ListenerClose, vars
<1>2. LookupCurrent'
  <2>1. CASE \E f \in Flows, kind \in Kinds : LookUp(f, kind)
    BY <2>1 DEF LookUp, LookupCurrent
  <2>2. CASE Enqueue \/ Reject
    BY <2>2 DEF Enqueue, Reject, LookupCurrent, Idle
  <2>3. CASE Accept \/ AcceptFails \/ ListenerClose \/ UNCHANGED vars
    BY <2>3 DEF Accept, AcceptFails, ListenerClose, vars, LookupCurrent
  <2>4. QED  BY <2>1, <2>2, <2>3
<1>3. QED
  BY <1>1, <1>2 DEF TableExact, FlowKnown, CloserState, NoneEscapesClose, ClosedIsQuiet, Live

(* HInv is inductive. *)
THEOREM HandlerInvariant == Spec => []HInv
<1>1. HInv /\ [Next]_vars => HInv'
  <2> SUFFICES ASSUME HInv, [Next]_vars PROVE HInv'
    OBVIOUS
  <2>1. TypeOK'
    BY HandlerTypeStep DEF HInv
  <2>2. CASE handleSYN
    <3>1. CloserState'
      BY <2>2 DEF handleSYN, CloserState, HInv
    <3>2. QED  BY <2>1, <2>2, <3>1, SYNStep DEF HInv
  <2>3. ASSUME NEW c \in Conns, removeConn(c)  PROVE HInv'
    <3>1. CloserState' /\ NoneEscapesClose'
      BY <2>3 DEF removeConn, Move, CloserState, NoneEscapesClose, HInv, Live, TypeOK
    <3>2. ClosedIsQuiet'
      BY <2>3 DEF removeConn, Move, ClosedIsQuiet, HInv
    <3>3. QED  BY <2>1, <2>3, <3>1, <3>2, RemoveStep DEF HInv
  <2>4. ASSUME NEW c \in Conns, RunInbound(c) \/ AcceptEnqueue(c) \/ RunTimeout(c)
                                \/ RunForceClose(c) \/ RunDone(c) \/ DrainInbound(c)
        PROVE  HInv'
    BY <2>1, <2>4, RunStep DEF HInv
  <2>5. CASE CloseListener \/ CloserStep
    BY <2>1, <2>5, ClosingStep DEF HInv
  <2>6. CASE \/ \E f \in Flows, kind \in Kinds : LookUp(f, kind)
             \/ Enqueue \/ Reject \/ Accept \/ AcceptFails \/ ListenerClose
             \/ UNCHANGED vars
    BY <2>1, <2>6, OtherStep DEF HInv
  <2>7. QED  BY <2>2, <2>3, <2>4, <2>5, <2>6 DEF Next, ReaderStep, RunExit
<1>2. QED  BY InitHolds, <1>1, PTL DEF Spec

(* The variables keep their types and the queues their bounds. *)
THEOREM HandlerTypeCorrect == Spec => []TypeOK
<1>1. HInv => TypeOK
  BY DEF HInv
<1>2. QED  BY <1>1, HandlerInvariant, PTL

(* The connection table is exact for any number of flows and connections. *)
THEOREM TableIsExact == Spec => []TableExact
<1>1. HInv => TableExact
  BY DEF HInv
<1>2. QED  BY <1>1, HandlerInvariant, PTL

(* No connection escapes Close. *)
THEOREM CloseReachesAll == Spec => []NoneEscapesClose
<1>1. HInv => NoneEscapesClose
  BY DEF HInv
<1>2. QED  BY <1>1, HandlerInvariant, PTL

(* Nothing runs and the table is empty once Close has returned. *)
THEOREM ClosedStaysQuiet == Spec => []ClosedIsQuiet
<1>1. HInv => ClosedIsQuiet
  BY DEF HInv
<1>2. QED  BY <1>1, HandlerInvariant, PTL
=============================================================================
