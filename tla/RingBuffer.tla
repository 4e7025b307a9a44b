----------------------------- MODULE RingBuffer -----------------------------
(***************************************************************************)
(* ringBuffer (transport/tcp/ringbuf.go): the circular byte buffer between *)
(* the application and a connection's run loop.                            *)
(*                                                                         *)
(* Every method body between mu.Lock and mu.Unlock is one action.  A       *)
(* blocked caller holds the channel (notEmpty or notFull) it captured under*)
(* the lock; "close and re-create" releases exactly the callers that hold  *)
(* the old channel, so a caller is "parked" while its channel is open and  *)
(* "woken" once it has been closed.  Writers and Readers are application   *)
(* goroutines inside the blocking Write and Read; the run loop uses the    *)
(* non-blocking calls.                                                     *)
(***************************************************************************)
EXTENDS Integers, Sequences

CONSTANTS
  Byte,              \* byte values
  Writers,           \* goroutines calling Write
  Readers,           \* goroutines calling Read
  Caps,              \* capacities: the initial one and the targets of Grow
  Payloads,          \* byte sequences passed to Write and WriteNoBlock
  ReadSizes,         \* lengths of the slices passed to Read and ReadNoBlock
  MaxCalls           \* bound: calls of Write, Read and the NoBlock methods

ASSUME ByteAssumption == 0 \in Byte
ASSUME CapsAssumption == Caps # {} /\ Caps \subseteq Nat \ {0}
ASSUME PayloadAssumption == Payloads \subseteq Seq(Byte) \ {<<>>}
ASSUME SizeAssumption == ReadSizes \subseteq Nat
ASSUME CallerAssumption == Writers \cap Readers = {} /\ MaxCalls \in Nat

VARIABLES
  cap,               \* len(rb.buf)
  buf,               \* rb.buf
  r, w, full,        \* read index, write index, and r = w means full
  closed,            \* rb.closed
  done,              \* the connection's done channel is closed
  pc,                \* where each blocked or looping caller is
  rest,              \* p[written:] of each Write call
  eof,               \* readers whose latest Read returned io.EOF
  last,              \* bytes copied out by the latest successful read
  unread,            \* ghost: bytes copied in and not copied out again
  calls              \* calls started so far

vars == <<cap, buf, r, w, full, closed, done, pc, rest, eof, last, unread, calls>>

Min2(a, b) == IF a =< b THEN a ELSE b

lenLocked == IF full THEN cap ELSE (w - r + cap) % cap

Free == cap - lenLocked

Contents == [i \in 1 .. lenLocked |-> buf[(r + i - 1) % cap]]

Init ==
  /\ cap \in Caps
  /\ buf = [i \in 0 .. cap - 1 |-> 0]
  /\ r = 0 /\ w = 0 /\ full = FALSE
  /\ closed = FALSE /\ done = FALSE
  /\ pc = [p \in Writers \cup Readers |-> "idle"]
  /\ rest = [p \in Writers |-> <<>>]
  /\ eof = {}
  /\ last = <<>>
  /\ unread = 0
  /\ calls = 0

(***************************************************************************)
(* Closing notEmpty releases the parked readers, closing notFull the       *)
(* parked writers.                                                         *)
(***************************************************************************)
Released(S) == [p \in DOMAIN pc |-> IF p \in S /\ pc[p] = "parked" THEN "woken" ELSE pc[p]]

(* The two copies of writeLocked: up to the end of buf, then from its start. *)
writeLocked(p) ==
  LET n     == Min2(Len(p), Free)
      first == Min2(cap - w, n)
  IN  /\ buf' = [i \in 0 .. cap - 1 |->
                   IF w =< i /\ i < w + first THEN p[i - w + 1]
                   ELSE IF i < n - first THEN p[first + i + 1]
                   ELSE buf[i]]
      /\ w' = (w + n) % cap
      /\ full' = IF w' = r THEN TRUE ELSE full
      /\ unread' = unread + n

(* Fault: full is not cleared. *)
readLockedStaysFull(size) ==
  LET n == Min2(size, lenLocked)
  IN  /\ last' = [j \in 1 .. n |-> buf[(r + j - 1) % cap]]
      /\ r' = (r + n) % cap
      /\ unread' = unread - n
      /\ UNCHANGED full

(* The two copies of readLocked into a slice of length size. *)
readLocked(size) ==
  LET n     == Min2(size, lenLocked)
      first == Min2(cap - r, n)
  IN  /\ last' = [j \in 1 .. n |-> IF j =< first THEN buf[r + j - 1] ELSE buf[j - first - 1]]
      /\ r' = (r + n) % cap
      /\ full' = FALSE
      /\ unread' = unread - n

Start(p) == pc[p] = "idle" /\ calls < MaxCalls /\ calls' = calls + 1

Ready(p) == pc[p] \in {"loop", "woken"}
-----------------------------------------------------------------------------
(* Write: the loop body, once per acquisition of the lock. *)
WriteCall(p) ==
  /\ Start(p)
  /\ \E b \in Payloads : rest' = [rest EXCEPT ![p] = b]
  /\ pc' = [pc EXCEPT ![p] = "loop"]
  /\ UNCHANGED <<cap, buf, r, w, full, closed, done, eof, last, unread>>

WriteReturn(p) ==
  /\ Ready(p)
  /\ rest[p] = <<>> \/ closed
  /\ pc' = [pc EXCEPT ![p] = "idle"]
  /\ rest' = [rest EXCEPT ![p] = <<>>]
  /\ UNCHANGED <<cap, buf, r, w, full, closed, done, eof, last, unread, calls>>

WritePark(p) ==
  /\ Ready(p) /\ rest[p] # <<>> /\ ~closed
  /\ Free = 0
  /\ pc' = [pc EXCEPT ![p] = "parked"]
  /\ UNCHANGED <<cap, buf, r, w, full, closed, done, rest, eof, last, unread, calls>>

WriteCopy(p) ==
  /\ Ready(p) /\ rest[p] # <<>> /\ ~closed
  /\ Free > 0
  /\ writeLocked(rest[p])
  /\ rest' = [rest EXCEPT ![p] = SubSeq(@, Min2(Len(@), Free) + 1, Len(@))]
  /\ pc' = [Released(Readers) EXCEPT ![p] = "loop"]
  /\ UNCHANGED <<cap, r, closed, done, eof, last, calls>>

(* The select of a blocked Write takes its <-done case. *)
WriteDone(p) ==
  /\ pc[p] \in {"parked", "woken"} /\ done
  /\ pc' = [pc EXCEPT ![p] = "idle"]
  /\ rest' = [rest EXCEPT ![p] = <<>>]
  /\ UNCHANGED <<cap, buf, r, w, full, closed, done, eof, last, unread, calls>>
-----------------------------------------------------------------------------
(* Read: the loop body, once per acquisition of the lock. *)
ReadCall(p) ==
  /\ Start(p)
  /\ pc' = [pc EXCEPT ![p] = "loop"]
  /\ eof' = eof \ {p}
  /\ UNCHANGED <<cap, buf, r, w, full, closed, done, rest, last, unread>>

ReadCopy(p) ==
  /\ Ready(p)
  /\ lenLocked > 0
  /\ \E size \in ReadSizes : readLocked(size)
  /\ pc' = [Released(Writers) EXCEPT ![p] = "idle"]
  /\ UNCHANGED <<cap, buf, w, closed, done, rest, eof, calls>>

(* Fault: closed is tested before the length. *)
ReadEOFEager(p) ==
  /\ Ready(p)
  /\ closed
  /\ pc' = [pc EXCEPT ![p] = "idle"]
  /\ eof' = eof \cup {p}
  /\ UNCHANGED <<cap, buf, r, w, full, closed, done, rest, last, unread, calls>>

ReadEOF(p) ==
  /\ Ready(p)
  /\ lenLocked = 0 /\ closed
  /\ pc' = [pc EXCEPT ![p] = "idle"]
  /\ eof' = eof \cup {p}
  /\ UNCHANGED <<cap, buf, r, w, full, closed, done, rest, last, unread, calls>>

ReadPark(p) ==
  /\ Ready(p)
  /\ lenLocked = 0 /\ ~closed
  /\ pc' = [pc EXCEPT ![p] = "parked"]
  /\ UNCHANGED <<cap, buf, r, w, full, closed, done, rest, eof, last, unread, calls>>

ReadDone(p) ==
  /\ pc[p] \in {"parked", "woken"} /\ done
  /\ pc' = [pc EXCEPT ![p] = "idle"]
  /\ UNCHANGED <<cap, buf, r, w, full, closed, done, rest, eof, last, unread, calls>>
-----------------------------------------------------------------------------
(* The run loop's calls never block; it never passes an empty slice. *)
ReadNoBlock ==
  /\ calls < MaxCalls /\ calls' = calls + 1
  /\ lenLocked > 0
  /\ \E size \in ReadSizes \ {0} : readLocked(size)
  /\ pc' = Released(Writers)
  /\ UNCHANGED <<cap, buf, w, closed, done, rest, eof>>

WriteNoBlock ==
  /\ calls < MaxCalls /\ calls' = calls + 1
  /\ ~closed /\ Free > 0
  /\ \E p \in Payloads : writeLocked(p)
  /\ pc' = Released(Readers)
  /\ UNCHANGED <<cap, r, closed, done, rest, eof, last>>

(* Fault: the part before the wrap is not copied. *)
GrowOneCopy ==
  \E newCap \in Caps :
    /\ newCap > cap
    /\ cap' = newCap
    /\ buf' = [i \in 0 .. newCap - 1 |-> IF i < lenLocked /\ i < cap - r THEN buf[r + i] ELSE 0]
    /\ r' = 0 /\ w' = lenLocked /\ full' = FALSE
    /\ pc' = Released(Writers)
    /\ UNCHANGED <<closed, done, rest, eof, last, unread, calls>>

(* Grow copies buf[r:w], or buf[r:] and buf[:w], to the start of a new array. *)
Grow ==
  \E newCap \in Caps :
    /\ newCap > cap
    /\ cap' = newCap
    /\ buf' = [i \in 0 .. newCap - 1 |->
                 IF i >= lenLocked THEN 0
                 ELSE IF r < w \/ i < cap - r THEN buf[r + i]
                 ELSE buf[i - (cap - r)]]
    /\ r' = 0 /\ w' = lenLocked /\ full' = FALSE
    /\ pc' = Released(Writers)
    /\ UNCHANGED <<closed, done, rest, eof, last, unread, calls>>

(* Fault: notEmpty is not closed. *)
CloseWriteSilent ==
  /\ closed' = TRUE
  /\ UNCHANGED <<cap, buf, r, w, full, done, pc, rest, eof, last, unread, calls>>

CloseWrite ==
  /\ closed' = TRUE
  /\ pc' = Released(Readers)
  /\ UNCHANGED <<cap, buf, r, w, full, done, rest, eof, last, unread, calls>>

(* The connection reaches CLOSED: closeDone closes the done channel. *)
closeDone ==
  /\ done' = TRUE
  /\ UNCHANGED <<cap, buf, r, w, full, closed, pc, rest, eof, last, unread, calls>>
-----------------------------------------------------------------------------
WriterStep(p) == WriteReturn(p) \/ WritePark(p) \/ WriteCopy(p) \/ WriteDone(p)

ReaderStep(p) == ReadCopy(p) \/ ReadEOF(p) \/ ReadPark(p) \/ ReadDone(p)

Next ==
  \/ \E p \in Writers : WriteCall(p) \/ WriterStep(p)
  \/ \E p \in Readers : ReadCall(p) \/ ReaderStep(p)
  \/ ReadNoBlock \/ WriteNoBlock \/ Grow \/ CloseWrite \/ closeDone

Spec == Init /\ [][Next]_vars

(* A goroutine that can run does run; nobody is obliged to make a call. *)
Fairness ==
  /\ \A p \in Writers : WF_vars(WriterStep(p))
  /\ \A p \in Readers : WF_vars(ReaderStep(p))

FairSpec == Spec /\ Fairness
-----------------------------------------------------------------------------
(* Types, with the one fact lenLocked rests on: full only when r = w. *)
TypeOK ==
  /\ cap \in Caps
  /\ buf \in [0 .. cap - 1 -> Byte]
  /\ r \in 0 .. cap - 1 /\ w \in 0 .. cap - 1
  /\ full \in BOOLEAN /\ (full => r = w)
  /\ closed \in BOOLEAN /\ done \in BOOLEAN
  /\ pc \in [Writers \cup Readers -> {"idle", "loop", "parked", "woken"}]
  /\ rest \in [Writers -> Seq(Byte)]
  /\ eof \subseteq Readers
  /\ last \in Seq(Byte)
  /\ unread \in Int
  /\ calls \in Nat

(***************************************************************************)
(* No wakeup is lost: a Write still parked on notFull finds the buffer full*)
(* and a Read still parked on notEmpty finds it empty and open.  Every     *)
(* method that frees space, adds bytes or closes must signal the right     *)
(* channel, including Grow and CloseWrite.                                 *)
(***************************************************************************)
NoLostWakeup ==
  /\ \A p \in Writers : pc[p] = "parked" => Free = 0
  /\ \A p \in Readers : pc[p] = "parked" => lenLocked = 0 /\ ~closed

(***************************************************************************)
(* Read "returns io.EOF when the buffer is closed and empty": once a reader*)
(* has seen EOF every byte ever copied in has been copied out.             *)
(***************************************************************************)
EOFOnlyWhenDrained == eof # {} => unread = 0

(***************************************************************************)
(* The buffer is a bounded FIFO: what a read copies out is the oldest      *)
(* unread bytes, across wrap-around, Grow and CloseWrite.                  *)
(***************************************************************************)
FIFO == INSTANCE BoundedFIFO WITH queue <- Contents

FIFOSpec == FIFO!Spec

(***************************************************************************)
(* CloseWrite unblocks readers (ringbuf_test.go, CloseWrite_UnblocksReader):*)
(* a Read in progress when the buffer is closed returns, with data or EOF, *)
(* without any further call on the buffer.                                 *)
(***************************************************************************)
CloseEndsReads == \A p \in Readers : closed ~> pc[p] = "idle"
=============================================================================
