------------------------------- MODULE SeqNum -------------------------------
(***************************************************************************)
(* TCP sequence-number arithmetic (transport/tcp/rcv.go).  The code uses   *)
(* uint32; the modulus is a parameter so that small instances wrap.        *)
(***************************************************************************)
EXTENDS Integers

CONSTANT SeqSpace      \* 2^32 in the code

ASSUME SeqSpaceAssumption == SeqSpace \in Nat /\ SeqSpace >= 4 /\ SeqSpace % 2 = 0

SeqNums == 0 .. SeqSpace - 1

Half == SeqSpace \div 2

seqAdd(a, n) == (a + n) % SeqSpace

(* The uint32 difference a - b. *)
seqSub(a, b) == (a - b) % SeqSpace

(* int32(a - b) > 0 *)
seqGreaterThan(a, b) == seqSub(a, b) \in 1 .. Half - 1

(* int32(a - b) < 0 *)
seqLessThan(a, b) == seqSub(a, b) \in Half .. SeqSpace - 1

seqWithinWindow(seq, start, wnd) ==
  ~seqLessThan(seq, start) /\ seqLessThan(seq, seqAdd(start, wnd))
=============================================================================
