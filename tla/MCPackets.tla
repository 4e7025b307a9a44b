----------------------------- MODULE MCPackets ------------------------------
(***************************************************************************)
(* The packet algorithms for TLC: reassembly of datagrams with distinct    *)
(* keys, and offload of batches of two flows.  The two share no state, so  *)
(* that one of them at a time leaves its initial state.                    *)
(***************************************************************************)
EXTENDS Reassembly, Offload

Apart == {[id |-> 1, key |-> "k1", len |-> 20], [id |-> 2, key |-> "k2", len |-> 32],
          [id |-> 3, key |-> "k3", len |-> 17]}

Tcp(s, l, p) ==
  [proto |-> "tcp", flow |-> "t", cls |-> 1, seq |-> s, len |-> l, psh |-> p, csum |-> TRUE]

Udp(l) ==
  [proto |-> "udp", flow |-> "u", cls |-> 1, seq |-> 0, len |-> l, psh |-> FALSE, csum |-> TRUE]

(* Segments of one or two bytes in a stream of five, some with PSH, one with *)
(* a bad checksum and one under another header; datagrams of up to two     *)
(* bytes, one with a bad checksum.                                         *)
Batchable ==
  {Tcp(s, 1, FALSE) : s \in {0, 1, 2, 4}} \cup {Tcp(s, 2, FALSE) : s \in {0, 2}}
  \cup {Tcp(0, 1, TRUE), Tcp(2, 1, TRUE), Tcp(2, 2, TRUE)}
  \cup {[Tcp(1, 1, FALSE) EXCEPT !.csum = FALSE], [Tcp(2, 1, FALSE) EXCEPT !.cls = 2]}
  \cup {Udp(l) : l \in 0 .. 2} \cup {[Udp(1) EXCEPT !.csum = FALSE]}

PacketsInit == Init /\ OffloadInit

PacketsNext ==
  \/ Next /\ sent = <<>> /\ UNCHANGED offloadVars
  \/ OffloadNext /\ order = <<>> /\ out = None /\ UNCHANGED vars

PacketsSpec == PacketsInit /\ [][PacketsNext]_<<vars, offloadVars>>
=============================================================================
