----------------------------- MODULE BoundedFIFO -----------------------------
(***************************************************************************)
(* What a ringBuffer promises its users: a first-in first-out queue of     *)
(* bytes of bounded capacity that can grow, and that can be closed for     *)
(* writing while what is already queued stays readable.  RingBuffer is     *)
(* shown to implement this specification.                                  *)
(***************************************************************************)
EXTENDS Naturals, Sequences

CONSTANT Byte        \* the bytes a user may write

VARIABLES
  queue,             \* unread bytes, oldest first
  cap,               \* capacity in bytes
  closed,            \* CloseWrite was called
  last               \* the bytes handed out by the latest successful read

vars == <<queue, cap, closed, last>>

Init ==
  /\ queue = <<>>
  /\ cap \in Nat \ {0}
  /\ closed = FALSE
  /\ last = <<>>

(* A writer appends some bytes; a closed queue accepts nothing. *)
Put ==
  /\ ~closed
  /\ queue' \in Seq(Byte)
  /\ Len(queue) < Len(queue') /\ Len(queue') =< cap
  /\ SubSeq(queue', 1, Len(queue)) = queue
  /\ UNCHANGED <<cap, closed, last>>

(* A reader takes the oldest bytes, whether or not the queue is closed. *)
Take ==
  /\ \E n \in 1 .. Len(queue) :
       /\ last' = SubSeq(queue, 1, n)
       /\ queue' = SubSeq(queue, n + 1, Len(queue))
  /\ UNCHANGED <<cap, closed>>

(* Growing keeps every unread byte. *)
Enlarge ==
  /\ cap' \in Nat
  /\ cap' > cap
  /\ UNCHANGED <<queue, closed, last>>

Shut ==
  /\ closed' = TRUE
  /\ UNCHANGED <<queue, cap, last>>

Next == Put \/ Take \/ Enlarge \/ Shut

Spec == Init /\ [][Next]_vars
=============================================================================
