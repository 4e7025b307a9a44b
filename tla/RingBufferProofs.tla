-------------------------- MODULE RingBufferProofs --------------------------
(***************************************************************************)
(* Proofs about RingBuffer for every capacity, payload and set of callers. *)
(***************************************************************************)
EXTENDS RingBuffer, SequenceTheorems, TLAPS

(* lenLocked as a function of the capacity, the indices and the full flag. *)
LenOf(c, rr, ww, f) == IF f THEN c ELSE (ww - rr + c) % c

(* What lenLocked returns, without the remainder. *)
LEMMA LenOfCases ==
  ASSUME NEW c \in Nat \ {0}, NEW rr \in 0 .. c - 1, NEW ww \in 0 .. c - 1
  PROVE  /\ LenOf(c, rr, ww, TRUE) = c
         /\ LenOf(c, rr, ww, FALSE) = IF rr =< ww THEN ww - rr ELSE ww - rr + c
         /\ LenOf(c, rr, ww, FALSE) \in 0 .. c - 1
<1>1. (ww - rr + c) % c = IF rr =< ww THEN ww - rr ELSE ww - rr + c
  OBVIOUS
<1> QED BY <1>1 DEF LenOf

(* Advancing an index by at most the capacity keeps it in range. *)
LEMMA AdvanceCases ==
  ASSUME NEW c \in Nat \ {0}, NEW x \in 0 .. c - 1, NEW n \in 0 .. c
  PROVE  /\ (x + n) % c = IF x + n < c THEN x + n ELSE x + n - c
         /\ (x + n) % c \in 0 .. c - 1
<1>1. (x + n) % c = IF x + n < c THEN x + n ELSE x + n - c OBVIOUS
<1> QED BY <1>1

(* Writing n bytes into the free space adds n to the length: the indices    *)
(* meet exactly when the buffer has become full.                           *)
LEMMA WriteIndex ==
  ASSUME NEW c \in Nat \ {0}, NEW rr \in 0 .. c - 1, NEW ww \in 0 .. c - 1,
         NEW len \in 0 .. c, len = (IF rr =< ww THEN ww - rr ELSE ww - rr + c),
         NEW n \in 1 .. c, n =< c - len,
         NEW v \in 0 .. c - 1, v = (IF ww + n < c THEN ww + n ELSE ww + n - c)
  PROVE  (IF v = rr THEN c ELSE IF rr =< v THEN v - rr ELSE v - rr + c) = len + n
OBVIOUS

(* Reading n bytes takes n from the length, unless nothing is read from a   *)
(* full buffer: then clearing full empties it.                             *)
LEMMA ReadIndex ==
  ASSUME NEW c \in Nat \ {0}, NEW rr \in 0 .. c - 1, NEW ww \in 0 .. c - 1,
         NEW f \in BOOLEAN, f => rr = ww, NEW len \in 0 .. c,
         len = (IF f THEN c ELSE IF rr =< ww THEN ww - rr ELSE ww - rr + c),
         NEW n \in 0 .. c, n =< len, f => n > 0,
         NEW v \in 0 .. c - 1, v = (IF rr + n < c THEN rr + n ELSE rr + n - c)
  PROVE  (IF v =< ww THEN ww - v ELSE ww - v + c) = len - n
OBVIOUS
-----------------------------------------------------------------------------
LEMMA LenFacts ==
  ASSUME TypeOK
  PROVE  /\ cap \in Nat \ {0} /\ r \in 0 .. cap - 1 /\ w \in 0 .. cap - 1
         /\ full \in BOOLEAN /\ (full => r = w)
         /\ lenLocked = IF full THEN cap ELSE IF r =< w THEN w - r ELSE w - r + cap
         /\ lenLocked \in 0 .. cap /\ Free \in 0 .. cap /\ Free = cap - lenLocked
         /\ full <=> lenLocked = cap
<1>1. cap \in Nat \ {0} /\ r \in 0 .. cap - 1 /\ w \in 0 .. cap - 1 
  BY CapsAssumption DEF TypeOK
<1>2. full \in BOOLEAN /\ (full => r = w) BY DEF TypeOK
<1>3. LenOf(cap, r, w, FALSE) = (IF r =< w THEN w - r ELSE w - r + cap)
  BY <1>1, LenOfCases
<1>4. CASE full
  <2>1. lenLocked = cap BY <1>4 DEF lenLocked
  <2> QED BY <1>1, <1>2, <1>4, <2>1 DEF Free
<1>5. CASE ~full
  <2>1. lenLocked = LenOf(cap, r, w, FALSE) BY <1>5 DEF lenLocked, LenOf
  <2>2. lenLocked = IF r =< w THEN w - r ELSE w - r + cap BY <2>1, <1>3
  <2>3. lenLocked \in 0 .. cap - 1 BY <2>2, <1>1
  <2>4. Free = cap - lenLocked BY DEF Free
  <2>5. Free \in 0 .. cap BY <2>3, <2>4, <1>1
  <2>6. lenLocked # cap BY <2>3, <1>1
  <2> QED BY <1>1, <1>2, <1>5, <2>2, <2>3, <2>4, <2>5, <2>6
<1> QED BY <1>2, <1>4, <1>5

LEMMA InitType == Init => TypeOK
BY CapsAssumption, ByteAssumption, CallerAssumption DEF Init, TypeOK

(* Signalling a channel only turns parked callers into woken ones. *)
LEMMA ReleasedType ==
  ASSUME TypeOK, NEW S
  PROVE  /\ Released(S) \in [Writers \cup Readers -> {"idle", "loop", "parked", "woken"}]
         /\ \A p \in Writers \cup Readers :
              /\ Released(S)[p] = "parked" => pc[p] = "parked" /\ p \notin S
BY DEF TypeOK, Released

(* A copy into the buffer keeps the indices and the array well formed, and *)
(* adds the bytes it copied to lenLocked.                                  *)
LEMMA WriteLockedFacts ==
  ASSUME TypeOK, NEW p \in Seq(Byte), p # <<>>, Free > 0,
         writeLocked(p), cap' = cap, r' = r
  PROVE  /\ buf' \in [0 .. cap - 1 -> Byte]
         /\ w' \in 0 .. cap - 1
         /\ full' \in BOOLEAN /\ (full' => r' = w')
         /\ lenLocked' = lenLocked + Min2(Len(p), Free)
         /\ unread' = unread + Min2(Len(p), Free)
         /\ Min2(Len(p), Free) \in 1 .. Free
<1> DEFINE n     == Min2(Len(p), Free)
           first == Min2(cap - w, n)
<1>1. cap \in Nat \ {0} /\ r \in 0 .. cap - 1 /\ w \in 0 .. cap - 1
  BY LenFacts
<1>2. Len(p) \in Nat \ {0} OBVIOUS
<1>3. n \in 1 .. Free /\ n =< Len(p) /\ n \in 1 .. cap
  BY <1>1, <1>2, LenFacts DEF Min2
<1>4. first \in 1 .. n /\ w + first =< cap /\ (first = n \/ w + first = cap)
  BY <1>1, <1>3 DEF Min2
<1>5. w' = (w + n) % cap /\ full' = (IF w' = r THEN TRUE ELSE full) /\ unread' = unread + n
  BY DEF writeLocked
<1>6. buf' = [i \in 0 .. cap - 1 |->
                IF w =< i /\ i < w + first THEN p[i - w + 1]
                ELSE IF i < n - first THEN p[first + i + 1]
                ELSE buf[i]]
  BY DEF writeLocked
<1> HIDE DEF n, first
<1>7. PICK v \in 0 .. cap - 1 : v = w' /\ v = IF w + n < cap THEN w + n ELSE w + n - cap
  <2>1. n \in 0 .. cap BY <1>1, <1>3
  <2>2. (w + n) % cap \in 0 .. cap - 1
        /\ (w + n) % cap = IF w + n < cap THEN w + n ELSE w + n - cap
    BY <1>1, <2>1, AdvanceCases
  <2> QED BY <2>2, <1>5, Zenon
<1>8. ~full /\ lenLocked \in 0 .. cap /\ Free = cap - lenLocked
      /\ lenLocked = IF r =< w THEN w - r ELSE w - r + cap
  BY LenFacts
<1>9. (IF v = r THEN cap ELSE IF r =< v THEN v - r ELSE v - r + cap) = lenLocked + n
  BY <1>1, <1>3, <1>7, <1>8, WriteIndex
<1>10. full' = (v = r)
  <2>1. full = FALSE BY <1>8, LenFacts
  <2> QED BY <2>1, <1>5, <1>7, Zenon
<1>11. lenLocked' = lenLocked + n
  <2>1. LenOf(cap, r, v, FALSE) = IF r =< v THEN v - r ELSE v - r + cap
    BY <1>1, LenOfCases
  <2>2. lenLocked' = IF v = r THEN cap ELSE LenOf(cap, r, v, FALSE)
    BY <1>7, <1>10 DEF lenLocked, LenOf
  <2>3. CASE v = r BY <2>2, <2>3, <1>9
  <2>4. CASE v # r
    <3>1. lenLocked' = LenOf(cap, r, v, FALSE) BY <2>2, <2>4
    <3>2. LenOf(cap, r, v, FALSE) = lenLocked + n
      <4>1. CASE r =< v BY <4>1, <2>1, <2>4, <1>9
      <4>2. CASE ~(r =< v) BY <4>2, <2>1, <2>4, <1>9
      <4> QED BY <4>1, <4>2
    <3> QED BY <3>1, <3>2, Zenon
  <2> QED BY <2>3, <2>4
<1>12. buf' \in [0 .. cap - 1 -> Byte]
  <2>1. ASSUME NEW i \in 0 .. cap - 1, w =< i, i < w + first PROVE p[i - w + 1] \in Byte
    <3>1. i - w + 1 \in 1 .. Len(p) BY <2>1, <1>1, <1>2, <1>3, <1>4
    <3> QED BY <3>1
  <2>2. ASSUME NEW i \in 0 .. cap - 1, i < n - first PROVE p[first + i + 1] \in Byte
    <3>1. first + i + 1 \in 1 .. Len(p) BY <2>2, <1>1, <1>2, <1>3, <1>4
    <3> QED BY <3>1
  <2>3. \A i \in 0 .. cap - 1 : buf[i] \in Byte BY DEF TypeOK
  <2> QED BY <1>6, <2>1, <2>2, <2>3
<1>13. full' \in BOOLEAN /\ (full' => r' = w') BY <1>7, <1>10
<1> QED BY <1>3, <1>5, <1>7, <1>11, <1>12, <1>13 DEF n

(* A copy out of the buffer keeps the index and the bytes well formed, and *)
(* takes what it copied from lenLocked unless it copies nothing.           *)
LEMMA ReadLockedFacts ==
  ASSUME TypeOK, NEW size \in Nat, lenLocked > 0,
         readLocked(size), cap' = cap, w' = w, buf' = buf
  PROVE  /\ last' \in Seq(Byte)
         /\ r' \in 0 .. cap - 1
         /\ full' = FALSE
         /\ unread' = unread - Min2(size, lenLocked)
         /\ Min2(size, lenLocked) \in 0 .. lenLocked
         /\ size # 0 => lenLocked' = lenLocked - Min2(size, lenLocked)
<1> DEFINE n     == Min2(size, lenLocked)
           first == Min2(cap - r, n)
<1>1. cap \in Nat \ {0} /\ r \in 0 .. cap - 1 /\ w \in 0 .. cap - 1
  BY LenFacts
<1>2. lenLocked \in 0 .. cap BY LenFacts
<1>3. n \in 0 .. lenLocked /\ n \in 0 .. cap /\ (size # 0 => n > 0)
  BY <1>1, <1>2 DEF Min2
<1> HIDE DEF n
<1>4. first \in 0 .. n /\ r + first =< cap /\ (first = n \/ r + first = cap)
  BY <1>1, <1>3 DEF Min2
<1>5. r' = (r + n) % cap /\ full' = FALSE /\ unread' = unread - n
  BY DEF readLocked, n
<1>6. last' = [j \in 1 .. n |-> IF j =< first THEN buf[r + j - 1] ELSE buf[j - first - 1]]
  BY DEF readLocked, n
<1> HIDE DEF first
<1>7. PICK v \in 0 .. cap - 1 : v = r' /\ v = IF r + n < cap THEN r + n ELSE r + n - cap
  <2>1. (r + n) % cap \in 0 .. cap - 1
        /\ (r + n) % cap = IF r + n < cap THEN r + n ELSE r + n - cap
    BY <1>1, <1>3, AdvanceCases
  <2> QED BY <2>1, <1>5, Zenon
<1>8. ASSUME size # 0 PROVE lenLocked' = lenLocked - n
  <2>1. (IF v =< w THEN w - v ELSE w - v + cap) = lenLocked - n
    BY <1>1, <1>2, <1>3, <1>7, <1>8, LenFacts, ReadIndex
  <2>2. LenOf(cap, v, w, FALSE) = IF v =< w THEN w - v ELSE w - v + cap
    BY <1>1, LenOfCases
  <2>3. lenLocked' = LenOf(cap, v, w, FALSE) BY <1>5, <1>7 DEF lenLocked, LenOf
  <2>4. CASE v =< w BY <2>1, <2>2, <2>3, <2>4
  <2>5. CASE ~(v =< w) BY <2>1, <2>2, <2>3, <2>5
  <2> QED BY <2>4, <2>5
<1>9. last' \in Seq(Byte)
  <2>1. ASSUME NEW j \in 1 .. n, j =< first PROVE buf[r + j - 1] \in Byte
    <3>1. r + j - 1 \in 0 .. cap - 1 BY <2>1, <1>1, <1>3, <1>4
    <3> QED BY <3>1 DEF TypeOK
  <2>2. ASSUME NEW j \in 1 .. n, ~(j =< first) PROVE buf[j - first - 1] \in Byte
    <3>1. j - first - 1 \in 0 .. cap - 1 BY <2>2, <1>1, <1>2, <1>3, <1>4
    <3> QED BY <3>1 DEF TypeOK
  <2>3. last' \in [1 .. n -> Byte] BY <1>6, <2>1, <2>2
  <2> QED BY <2>3, <1>3
<1> QED BY <1>3, <1>5, <1>7, <1>8, <1>9 DEF n
-----------------------------------------------------------------------------
(* Grow moves the unread bytes to the start of a larger array. *)
LEMMA GrowFacts ==
  ASSUME TypeOK, Grow
  PROVE  /\ cap' \in Caps /\ buf' \in [0 .. cap' - 1 -> Byte]
         /\ r' \in 0 .. cap' - 1 /\ w' \in 0 .. cap' - 1
         /\ full' = FALSE
         /\ lenLocked' = lenLocked
<1>1. PICK newCap \in Caps :
        /\ newCap > cap /\ cap' = newCap
        /\ buf' = [i \in 0 .. newCap - 1 |->
                     IF i >= lenLocked THEN 0
                     ELSE IF r < w \/ i < cap - r THEN buf[r + i]
                     ELSE buf[i - (cap - r)]]
        /\ r' = 0 /\ w' = lenLocked /\ full' = FALSE
  BY DEF Grow
<1>2. cap \in Nat \ {0} /\ r \in 0 .. cap - 1 /\ w \in 0 .. cap - 1 /\ lenLocked \in 0 .. cap
  BY LenFacts
<1>3. newCap \in Nat \ {0} BY CapsAssumption
<1>4. lenLocked = IF full THEN cap ELSE IF r =< w THEN w - r ELSE w - r + cap
  BY LenFacts
<1>5. full \in BOOLEAN /\ (full => r = w) BY LenFacts
<1>6. buf' \in [0 .. newCap - 1 -> Byte]
  <2>1. ASSUME NEW i \in 0 .. newCap - 1, ~(i >= lenLocked), r < w \/ i < cap - r
        PROVE  buf[r + i] \in Byte
    <3>1. r + i \in 0 .. cap - 1
      <4>1. CASE i < cap - r BY <4>1, <2>1, <1>2, <1>3
      <4>2. CASE r < w
        <5>1. lenLocked = w - r BY <4>2, <1>2, <1>4, <1>5
        <5> QED BY <5>1, <2>1, <1>2, <1>3
      <4> QED BY <4>1, <4>2, <2>1
    <3> QED BY <3>1 DEF TypeOK
  <2>2. ASSUME NEW i \in 0 .. newCap - 1, ~(i >= lenLocked), ~(r < w \/ i < cap - r)
        PROVE  buf[i - (cap - r)] \in Byte
    <3>1. i - (cap - r) \in 0 .. cap - 1 BY <2>2, <1>2, <1>3
    <3> QED BY <3>1 DEF TypeOK
  <2> QED BY <1>1, <2>1, <2>2, ByteAssumption
<1>7. lenLocked \in 0 .. newCap - 1 BY <1>1, <1>2, <1>3
<1>8. lenLocked' = lenLocked
  <2>1. LenOf(newCap, 0, lenLocked, FALSE) = lenLocked
    <3>1. 0 \in 0 .. newCap - 1 /\ 0 =< lenLocked BY <1>2, <1>3
    <3>2. lenLocked - 0 = lenLocked BY <1>2
    <3> QED BY <3>1, <3>2, <1>3, <1>7, LenOfCases
  <2>2. lenLocked' = LenOf(newCap, 0, lenLocked, FALSE) BY <1>1 DEF lenLocked, LenOf
  <2> QED BY <2>1, <2>2, Zenon
<1>9. r' \in 0 .. cap' - 1 /\ w' \in 0 .. cap' - 1 BY <1>1, <1>3, <1>7
<1> QED BY <1>1, <1>6, <1>8, <1>9

(* The type invariant is preserved by every step. *)
LEMMA TypeStep == TypeOK /\ [Next]_vars => TypeOK'
<1> SUFFICES ASSUME TypeOK, [Next]_vars PROVE TypeOK'
  OBVIOUS
<1> DEFINE PC == [Writers \cup Readers -> {"idle", "loop", "parked", "woken"}]
<1>1. ASSUME NEW p \in Writers, WriteCall(p) PROVE TypeOK'
  BY <1>1, PayloadAssumption DEF WriteCall, Start, TypeOK
<1>2. ASSUME NEW p \in Writers, WriteReturn(p) PROVE TypeOK'
  BY <1>2 DEF WriteReturn, TypeOK
<1>3. ASSUME NEW p \in Writers, WritePark(p) PROVE TypeOK'
  BY <1>3 DEF WritePark, TypeOK
<1>4. ASSUME NEW p \in Writers, WriteCopy(p) PROVE TypeOK'
  <2>1. rest[p] \in Seq(Byte) /\ rest[p] # <<>> BY <1>4 DEF WriteCopy, TypeOK
  <2>2. writeLocked(rest[p]) /\ cap' = cap /\ r' = r /\ Free > 0
    BY <1>4 DEF WriteCopy
  <2>3. /\ buf' \in [0 .. cap - 1 -> Byte] /\ w' \in 0 .. cap - 1
        /\ full' \in BOOLEAN /\ (full' => r' = w')
        /\ unread' = unread + Min2(Len(rest[p]), Free)
        /\ Min2(Len(rest[p]), Free) \in 1 .. Free
    BY <2>1, <2>2, WriteLockedFacts
  <2>4. unread' \in Int BY <2>3, LenFacts DEF TypeOK
  <2>5. pc' \in PC BY <1>4, ReleasedType DEF WriteCopy
  <2>6. rest' \in [Writers -> Seq(Byte)]
    <3>1. SubSeq(rest[p], Min2(Len(rest[p]), Free) + 1, Len(rest[p])) \in Seq(Byte)
      BY <2>1, <2>3, LenFacts
    <3> QED BY <3>1, <1>4 DEF WriteCopy, TypeOK
  <2> QED BY <2>2, <2>3, <2>4, <2>5, <2>6, <1>4 DEF WriteCopy, TypeOK
<1>5. ASSUME NEW p \in Writers, WriteDone(p) PROVE TypeOK'
  BY <1>5 DEF WriteDone, TypeOK
<1>6. ASSUME NEW p \in Readers, ReadCall(p) PROVE TypeOK'
  BY <1>6 DEF ReadCall, Start, TypeOK
<1>7. ASSUME NEW p \in Readers, ReadCopy(p) PROVE TypeOK'
  <2>1. PICK size \in ReadSizes : readLocked(size) BY <1>7 DEF ReadCopy
  <2>2. size \in Nat /\ lenLocked > 0 /\ cap' = cap /\ w' = w /\ buf' = buf
    BY <1>7, SizeAssumption DEF ReadCopy
  <2>3. /\ last' \in Seq(Byte) /\ r' \in 0 .. cap - 1 /\ full' = FALSE
        /\ unread' = unread - Min2(size, lenLocked)
        /\ Min2(size, lenLocked) \in 0 .. lenLocked
    BY <2>1, <2>2, ReadLockedFacts
  <2>4. unread' \in Int BY <2>3, LenFacts DEF TypeOK
  <2>5. pc' \in PC BY <1>7, ReleasedType DEF ReadCopy
  <2> QED BY <2>2, <2>3, <2>4, <2>5, <1>7 DEF ReadCopy, TypeOK
<1>8. ASSUME NEW p \in Readers, ReadEOF(p) PROVE TypeOK'
  BY <1>8 DEF ReadEOF, TypeOK
<1>9. ASSUME NEW p \in Readers, ReadPark(p) PROVE TypeOK'
  BY <1>9 DEF ReadPark, TypeOK
<1>10. ASSUME NEW p \in Readers, ReadDone(p) PROVE TypeOK'
  BY <1>10 DEF ReadDone, TypeOK
<1>11. CASE ReadNoBlock
  <2>1. PICK size \in ReadSizes : readLocked(size) BY <1>11 DEF ReadNoBlock
  <2>2. size \in Nat /\ lenLocked > 0 /\ cap' = cap /\ w' = w /\ buf' = buf
    BY <1>11, SizeAssumption DEF ReadNoBlock
  <2>3. /\ last' \in Seq(Byte) /\ r' \in 0 .. cap - 1 /\ full' = FALSE
        /\ unread' = unread - Min2(size, lenLocked)
        /\ Min2(size, lenLocked) \in 0 .. lenLocked
    BY <2>1, <2>2, ReadLockedFacts
  <2>4. unread' \in Int BY <2>3, LenFacts DEF TypeOK
  <2>5. pc' \in PC BY <1>11, ReleasedType DEF ReadNoBlock
  <2>6. full' \in BOOLEAN /\ (full' => r' = w') BY <2>3
  <2>7. calls' \in Nat BY <1>11 DEF ReadNoBlock, TypeOK
  <2>8. UNCHANGED <<closed, done, rest, eof>> BY <1>11 DEF ReadNoBlock
  <2> QED BY <2>2, <2>3, <2>4, <2>5, <2>6, <2>7, <2>8 DEF TypeOK
<1>12. CASE WriteNoBlock
  <2>1. PICK p \in Payloads : writeLocked(p) BY <1>12 DEF WriteNoBlock
  <2>2. p \in Seq(Byte) /\ p # <<>> BY PayloadAssumption
  <2>3. cap' = cap /\ r' = r /\ Free > 0 BY <1>12 DEF WriteNoBlock
  <2>4. /\ buf' \in [0 .. cap - 1 -> Byte] /\ w' \in 0 .. cap - 1
        /\ full' \in BOOLEAN /\ (full' => r' = w')
        /\ unread' = unread + Min2(Len(p), Free)
        /\ Min2(Len(p), Free) \in 1 .. Free
    BY <2>1, <2>2, <2>3, WriteLockedFacts
  <2>5. unread' \in Int BY <2>4, LenFacts DEF TypeOK
  <2>6. pc' \in PC BY <1>12, ReleasedType DEF WriteNoBlock
  <2> QED BY <2>3, <2>4, <2>5, <2>6, <1>12 DEF WriteNoBlock, TypeOK
<1>13. CASE Grow
  <2>1. pc' \in PC
    <3>1. pc' = Released(Writers) BY <1>13 DEF Grow
    <3> QED BY <3>1, ReleasedType
  <2> QED BY <2>1, <1>13, GrowFacts DEF Grow, TypeOK
<1>14. CASE CloseWrite
  <2>1. pc' \in PC BY <1>14, ReleasedType DEF CloseWrite
  <2> QED BY <2>1, <1>14 DEF CloseWrite, TypeOK
<1>15. CASE closeDone BY <1>15 DEF closeDone, TypeOK
<1>16. CASE UNCHANGED vars BY <1>16 DEF vars, TypeOK
<1> QED
  BY <1>1, <1>2, <1>3, <1>4, <1>5, <1>6, <1>7, <1>8, <1>9, <1>10, <1>11, <1>12,
     <1>13, <1>14, <1>15, <1>16 DEF Next, WriterStep, ReaderStep

(* The types hold in every reachable state: the indices stay inside the    *)
(* array whatever Write, Read, Grow and CloseWrite do, so no method of     *)
(* ringbuf.go indexes out of range, and full is only set when r = w.       *)
THEOREM TypeCorrect == Spec => []TypeOK
BY InitType, TypeStep, PTL DEF Spec
-----------------------------------------------------------------------------
(* What a step does to the length, by the kind of step. *)
LEMMA WritesAdd ==
  ASSUME TypeOK, WriteNoBlock \/ \E p \in Writers : WriteCopy(p)
  PROVE  \E n \in Nat \ {0} : lenLocked' = lenLocked + n /\ unread' = unread + n
<1>1. CASE WriteNoBlock
  <2>1. PICK p \in Payloads : writeLocked(p) BY <1>1 DEF WriteNoBlock
  <2>2. p \in Seq(Byte) /\ p # <<>> BY PayloadAssumption
  <2>3. cap' = cap /\ r' = r /\ Free > 0 BY <1>1 DEF WriteNoBlock
  <2>4. /\ lenLocked' = lenLocked + Min2(Len(p), Free)
        /\ unread' = unread + Min2(Len(p), Free)
        /\ Min2(Len(p), Free) \in 1 .. Free
    BY <2>1, <2>2, <2>3, WriteLockedFacts
  <2>5. Min2(Len(p), Free) \in Nat \ {0} BY <2>4, LenFacts
  <2> QED BY <2>4, <2>5
<1>2. ASSUME NEW p \in Writers, WriteCopy(p)
      PROVE  \E n \in Nat \ {0} : lenLocked' = lenLocked + n /\ unread' = unread + n
  <2>1. rest[p] \in Seq(Byte) /\ rest[p] # <<>> BY <1>2 DEF WriteCopy, TypeOK
  <2>2. writeLocked(rest[p]) /\ cap' = cap /\ r' = r /\ Free > 0
    BY <1>2 DEF WriteCopy
  <2>3. /\ lenLocked' = lenLocked + Min2(Len(rest[p]), Free)
        /\ unread' = unread + Min2(Len(rest[p]), Free)
        /\ Min2(Len(rest[p]), Free) \in 1 .. Free
    BY <2>1, <2>2, WriteLockedFacts
  <2>4. Min2(Len(rest[p]), Free) \in Nat \ {0} BY <2>3, LenFacts
  <2> QED BY <2>3, <2>4
<1> QED BY <1>1, <1>2

LEMMA ReadsTake ==
  ASSUME TypeOK, 0 \notin ReadSizes, ReadNoBlock \/ \E p \in Readers : ReadCopy(p)
  PROVE  \E n \in 0 .. lenLocked : lenLocked' = lenLocked - n /\ unread' = unread - n
<1>1. PICK size \in ReadSizes : readLocked(size) BY DEF ReadNoBlock, ReadCopy
<1>2. size \in Nat /\ size # 0 /\ lenLocked > 0 /\ cap' = cap /\ w' = w /\ buf' = buf
  BY SizeAssumption DEF ReadNoBlock, ReadCopy
<1>3. /\ lenLocked' = lenLocked - Min2(size, lenLocked)
      /\ unread' = unread - Min2(size, lenLocked)
      /\ Min2(size, lenLocked) \in 0 .. lenLocked
  BY <1>1, <1>2, ReadLockedFacts
<1> QED BY <1>3

(* The indices, and so the length, are untouched by every other step. *)
Quiet == UNCHANGED <<cap, r, w, full>>

LEMMA QuietLen == Quiet => lenLocked' = lenLocked /\ Free' = Free
BY DEF Quiet, lenLocked, Free

(* Preservation of NoLostWakeup: the steps that change the length or close *)
(* the buffer signal the callers it matters to, and a caller parks only    *)
(* when it has to.                                                         *)
LEMMA WakeStep == TypeOK /\ NoLostWakeup /\ [Next]_vars => NoLostWakeup'
<1> SUFFICES ASSUME TypeOK, NoLostWakeup, [Next]_vars PROVE NoLostWakeup'
  OBVIOUS
<1>0. pc \in [Writers \cup Readers -> {"idle", "loop", "parked", "woken"}]
      /\ Writers \cap Readers = {}
  BY CallerAssumption DEF TypeOK
<1>1. ASSUME NEW p \in Writers, WriteCall(p) \/ WriteReturn(p) \/ WritePark(p) \/ WriteDone(p)
      PROVE  NoLostWakeup'
  <2>1. Quiet /\ closed' = closed
    BY <1>1 DEF WriteCall, WriteReturn, WritePark, WriteDone, Quiet
  <2>2. pc' = [pc EXCEPT ![p] = pc'[p]] /\ (pc'[p] = "parked" => Free = 0)
    BY <1>0, <1>1 DEF WriteCall, WriteReturn, WritePark, WriteDone
  <2> QED BY <2>1, <2>2, <1>0, QuietLen DEF NoLostWakeup
<1>2. ASSUME NEW p \in Readers, ReadCall(p) \/ ReadEOF(p) \/ ReadPark(p) \/ ReadDone(p)
      PROVE  NoLostWakeup'
  <2>1. Quiet /\ closed' = closed
    BY <1>2 DEF ReadCall, ReadEOF, ReadPark, ReadDone, Quiet
  <2>2. pc' = [pc EXCEPT ![p] = pc'[p]] /\ (pc'[p] = "parked" => lenLocked = 0 /\ ~closed)
    BY <1>0, <1>2 DEF ReadCall, ReadEOF, ReadPark, ReadDone
  <2> QED BY <2>1, <2>2, <1>0, QuietLen DEF NoLostWakeup
<1>3. CASE WriteNoBlock \/ \E p \in Writers : WriteCopy(p)
  <2>1. Free > 0 /\ Free \in Nat BY <1>3, LenFacts DEF WriteNoBlock, WriteCopy
  <2>2. \A q \in Writers : pc[q] # "parked" BY <2>1 DEF NoLostWakeup
  <2>3. \A q \in Writers \cup Readers : pc'[q] = "parked" => Released(Readers)[q] = "parked"
    <3>1. CASE WriteNoBlock BY <3>1 DEF WriteNoBlock
    <3>2. ASSUME NEW p \in Writers, WriteCopy(p)
          PROVE \A q \in Writers \cup Readers : pc'[q] = "parked" => Released(Readers)[q] = "parked"
      <4>1. pc' = [Released(Readers) EXCEPT ![p] = "loop"] BY <3>2 DEF WriteCopy
      <4> QED BY <4>1, ReleasedType
    <3> QED BY <1>3, <3>1, <3>2
  <2>4. \A q \in Writers \cup Readers : pc'[q] # "parked" BY <2>2, <2>3, ReleasedType
  <2> QED BY <2>4 DEF NoLostWakeup
<1>4. CASE ReadNoBlock \/ \E p \in Readers : ReadCopy(p)
  <2>1. lenLocked > 0 /\ lenLocked \in Nat BY <1>4, LenFacts DEF ReadNoBlock, ReadCopy
  <2>2. \A q \in Readers : pc[q] # "parked" BY <2>1 DEF NoLostWakeup
  <2>3. \A q \in Writers \cup Readers : pc'[q] = "parked" => Released(Writers)[q] = "parked"
    <3>1. CASE ReadNoBlock BY <3>1 DEF ReadNoBlock
    <3>2. ASSUME NEW p \in Readers, ReadCopy(p)
          PROVE \A q \in Writers \cup Readers : pc'[q] = "parked" => Released(Writers)[q] = "parked"
      <4>1. pc' = [Released(Writers) EXCEPT ![p] = "idle"] BY <3>2 DEF ReadCopy
      <4> QED BY <4>1, ReleasedType
    <3> QED BY <1>4, <3>1, <3>2
  <2>4. \A q \in Writers \cup Readers : pc'[q] # "parked" BY <2>2, <2>3, ReleasedType
  <2> QED BY <2>4 DEF NoLostWakeup
<1>5. CASE Grow
  <2>1. lenLocked' = lenLocked BY <1>5, GrowFacts
  <2>2. closed' = closed /\ pc' = Released(Writers) BY <1>5 DEF Grow
  <2> QED BY <2>1, <2>2, ReleasedType DEF NoLostWakeup
<1>6. CASE CloseWrite
  <2>1. Quiet /\ pc' = Released(Readers) BY <1>6 DEF CloseWrite, Quiet
  <2> QED BY <2>1, QuietLen, ReleasedType DEF NoLostWakeup
<1>7. CASE closeDone \/ UNCHANGED vars
  <2>1. Quiet /\ closed' = closed /\ pc' = pc BY <1>7 DEF closeDone, vars, Quiet
  <2> QED BY <2>1, QuietLen DEF NoLostWakeup
<1> QED
  BY <1>1, <1>2, <1>3, <1>4, <1>5, <1>6, <1>7 DEF Next, WriterStep, ReaderStep

(* No interleaving of blocking and non-blocking calls leaves a caller      *)
(* parked on a channel whose condition already holds: every method of      *)
(* ringbuf.go that frees space, adds bytes or closes signals the callers   *)
(* that wait for it.                                                       *)
THEOREM WakeupsAreNotLost == Spec => []NoLostWakeup
<1>1. Init => NoLostWakeup
  BY CallerAssumption DEF Init, NoLostWakeup
<1> QED BY <1>1, InitType, TypeStep, WakeStep, PTL DEF Spec
-----------------------------------------------------------------------------
(* What EOFOnlyWhenDrained needs to be inductive: the ghost count is what  *)
(* lenLocked returns, and EOF is only seen on a closed, empty buffer.      *)
Accounted ==
  /\ unread = lenLocked
  /\ eof # {} => closed /\ lenLocked = 0

LEMMA AccountedStep ==
  ASSUME 0 \notin ReadSizes, TypeOK, Accounted, [Next]_vars
  PROVE  Accounted'
<1>1. CASE WriteNoBlock \/ \E p \in Writers : WriteCopy(p)
  <2>1. eof' = eof /\ ~closed BY <1>1 DEF WriteNoBlock, WriteCopy
  <2> QED BY <2>1, <1>1, WritesAdd DEF Accounted
<1>2. CASE ReadNoBlock \/ \E p \in Readers : ReadCopy(p)
  <2>1. eof' = eof /\ lenLocked > 0 /\ lenLocked \in Nat
    BY <1>2, LenFacts DEF ReadNoBlock, ReadCopy
  <2>2. eof = {} BY <2>1 DEF Accounted
  <2> QED BY <2>1, <2>2, <1>2, ReadsTake DEF Accounted
<1>3. CASE Grow
  <2>1. eof' = eof /\ closed' = closed /\ unread' = unread BY <1>3 DEF Grow
  <2> QED BY <2>1, <1>3, GrowFacts DEF Accounted
<1>4. CASE CloseWrite \/ closeDone \/ UNCHANGED vars
  <2>1. Quiet /\ eof' = eof /\ unread' = unread /\ (closed => closed')
    BY <1>4 DEF CloseWrite, closeDone, vars, Quiet
  <2> QED BY <2>1, QuietLen DEF Accounted
<1>5. ASSUME NEW p \in Writers, WriteCall(p) \/ WriteReturn(p) \/ WritePark(p) \/ WriteDone(p)
      PROVE  Accounted'
  <2>1. Quiet /\ eof' = eof /\ unread' = unread /\ closed' = closed
    BY <1>5 DEF WriteCall, WriteReturn, WritePark, WriteDone, Quiet
  <2> QED BY <2>1, QuietLen DEF Accounted
<1>6. ASSUME NEW p \in Readers, ReadCall(p) \/ ReadEOF(p) \/ ReadPark(p) \/ ReadDone(p)
      PROVE  Accounted'
  <2>1. Quiet /\ unread' = unread /\ closed' = closed
    BY <1>6 DEF ReadCall, ReadEOF, ReadPark, ReadDone, Quiet
  <2>2. eof' # {} => eof # {} \/ (lenLocked = 0 /\ closed)
    BY <1>6 DEF ReadCall, ReadEOF, ReadPark, ReadDone
  <2> QED BY <2>1, <2>2, QuietLen DEF Accounted
<1> QED
  BY <1>1, <1>2, <1>3, <1>4, <1>5, <1>6 DEF Next, WriterStep, ReaderStep

(* If no caller passes an empty slice, io.EOF means that every byte ever   *)
(* copied in has been copied out, as the comment on Read promises.  The    *)
(* hypothesis is needed: a Read of length 0 on a full buffer clears full.  *)
THEOREM EOFMeansDrained ==
  ASSUME 0 \notin ReadSizes
  PROVE  Spec => []EOFOnlyWhenDrained
<1>1. Init => Accounted
  <2>1. Init => lenLocked = 0
    <3> SUFFICES ASSUME Init PROVE lenLocked = 0 OBVIOUS
    <3>1. TypeOK BY InitType
    <3>2. ~full /\ r = 0 /\ w = 0 BY DEF Init
    <3> QED BY <3>1, <3>2, LenFacts
  <2> QED BY <2>1 DEF Init, Accounted
<1>2. Accounted => EOFOnlyWhenDrained BY DEF Accounted, EOFOnlyWhenDrained
<1>3. TypeOK /\ Accounted /\ [Next]_vars => Accounted' BY AccountedStep
<1> QED BY <1>1, <1>2, <1>3, InitType, TypeStep, PTL DEF Spec
-----------------------------------------------------------------------------
(* Contents as a function of the array, the read index and the length. *)
ContentsOf(b, c, rr, len) == [i \in 1 .. len |-> b[(rr + i - 1) % c]]

(* The unread bytes without the remainder: from index rr on, then from 0. *)
LEMMA ContentsCases ==
  ASSUME NEW c \in Nat \ {0}, NEW rr \in 0 .. c - 1, NEW len \in 0 .. c,
         NEW b \in [0 .. c - 1 -> Byte]
  PROVE  /\ ContentsOf(b, c, rr, len) \in Seq(Byte) /\ Len(ContentsOf(b, c, rr, len)) = len
         /\ \A i \in 1 .. len : ContentsOf(b, c, rr, len)[i] =
                                  b[IF rr + i - 1 < c THEN rr + i - 1 ELSE rr + i - 1 - c]
<1> DEFINE s == ContentsOf(b, c, rr, len)
<1>1. ASSUME NEW i \in 1 .. len
      PROVE  /\ s[i] = b[IF rr + i - 1 < c THEN rr + i - 1 ELSE rr + i - 1 - c]
             /\ s[i] \in Byte
  <2>1. i - 1 \in 0 .. c /\ rr + i - 1 = rr + (i - 1) OBVIOUS
  <2>2. /\ (rr + (i - 1)) % c = IF rr + (i - 1) < c THEN rr + (i - 1) ELSE rr + (i - 1) - c
        /\ (rr + (i - 1)) % c \in 0 .. c - 1
    BY <2>1, AdvanceCases
  <2>3. s[i] = b[(rr + (i - 1)) % c] BY <2>1 DEF ContentsOf
  <2>4. b[(rr + (i - 1)) % c] \in Byte BY <2>2
  <2>5. s[i] = b[IF rr + (i - 1) < c THEN rr + (i - 1) ELSE rr + (i - 1) - c]
    BY <2>2, <2>3
  <2> QED BY <2>1, <2>3, <2>4, <2>5
<1>2. s \in [1 .. len -> Byte] BY <1>1 DEF ContentsOf
<1>3. s \in Seq(Byte) /\ Len(s) = len BY <1>2
<1> QED BY <1>1, <1>3

(* Contents in a state of the right type, and in the state after a step. *)
LEMMA ContentsNow ==
  ASSUME TypeOK
  PROVE  /\ Contents \in Seq(Byte) /\ Len(Contents) = lenLocked
         /\ \A i \in 1 .. lenLocked :
              Contents[i] = buf[IF r + i - 1 < cap THEN r + i - 1 ELSE r + i - 1 - cap]
<1>1. cap \in Nat \ {0} /\ r \in 0 .. cap - 1 /\ lenLocked \in 0 .. cap BY LenFacts
<1>2. buf \in [0 .. cap - 1 -> Byte] BY DEF TypeOK
<1>3. Contents = ContentsOf(buf, cap, r, lenLocked) BY DEF Contents, ContentsOf
<1> QED BY <1>1, <1>2, <1>3, ContentsCases

LEMMA ContentsThen ==
  ASSUME TypeOK', lenLocked' \in 0 .. cap'
  PROVE  /\ Contents' \in Seq(Byte) /\ Len(Contents') = lenLocked'
         /\ \A i \in 1 .. lenLocked' :
              Contents'[i] = buf'[IF r' + i - 1 < cap' THEN r' + i - 1 ELSE r' + i - 1 - cap']
<1>1. cap' \in Nat \ {0} /\ r' \in 0 .. cap' - 1 /\ buf' \in [0 .. cap' - 1 -> Byte]
  BY CapsAssumption DEF TypeOK
<1>2. Contents' = ContentsOf(buf', cap', r', lenLocked') BY DEF Contents, ContentsOf
<1> QED BY <1>1, <1>2, ContentsCases

(* Where the two copies of writeLocked go: never over an unread byte, and   *)
(* the k-th byte copied is found k places after the unread ones.           *)
LEMMA WriteMisses ==
  ASSUME NEW c \in Nat \ {0}, NEW rr \in 0 .. c - 1, NEW ww \in 0 .. c - 1,
         NEW len \in 0 .. c - 1, len = (IF rr =< ww THEN ww - rr ELSE ww - rr + c),
         NEW n \in 1 .. c - len, NEW first \in 1 .. n,
         first = (IF c - ww =< n THEN c - ww ELSE n),
         NEW i \in 1 .. len, NEW j \in Int,
         j = (IF rr + i - 1 < c THEN rr + i - 1 ELSE rr + i - 1 - c)
  PROVE  j \in 0 .. c - 1 /\ ~(ww =< j /\ j < ww + first) /\ ~(j < n - first)
OBVIOUS

LEMMA WriteHits ==
  ASSUME NEW c \in Nat \ {0}, NEW rr \in 0 .. c - 1, NEW ww \in 0 .. c - 1,
         NEW len \in 0 .. c - 1, len = (IF rr =< ww THEN ww - rr ELSE ww - rr + c),
         NEW n \in 1 .. c - len, NEW first \in 1 .. n,
         first = (IF c - ww =< n THEN c - ww ELSE n),
         NEW k \in 1 .. n, NEW j \in Int,
         j = (IF rr + (len + k) - 1 < c THEN rr + (len + k) - 1 ELSE rr + (len + k) - 1 - c)
  PROVE  /\ j \in 0 .. c - 1
         /\ IF k =< first THEN ww =< j /\ j < ww + first /\ j - ww + 1 = k
            ELSE ~(ww =< j /\ j < ww + first) /\ j < n - first /\ first + j + 1 = k
OBVIOUS

(* writeLocked appends what it copies to the unread bytes. *)
LEMMA WriteContents ==
  ASSUME TypeOK, TypeOK', NEW p \in Seq(Byte), p # <<>>, Free > 0,
         writeLocked(p), cap' = cap, r' = r
  PROVE  /\ Contents' \in Seq(Byte)
         /\ Len(Contents') = lenLocked + Min2(Len(p), Free) /\ Len(Contents') =< cap
         /\ Min2(Len(p), Free) \in 1 .. Len(p)
         /\ \A i \in 1 .. lenLocked : Contents'[i] = Contents[i]
         /\ \A k \in 1 .. Min2(Len(p), Free) : Contents'[lenLocked + k] = p[k]
<1> DEFINE n     == Min2(Len(p), Free)
           first == Min2(cap - w, n)
           len   == lenLocked
           At(i) == IF r + i - 1 < cap THEN r + i - 1 ELSE r + i - 1 - cap
<1>1. cap \in Nat \ {0} /\ r \in 0 .. cap - 1 /\ w \in 0 .. cap - 1
  BY LenFacts
<1>2. Len(p) \in Nat \ {0} OBVIOUS
<1>3. n \in 1 .. Free /\ n =< Len(p) /\ n \in 1 .. cap
  BY <1>1, <1>2, LenFacts DEF Min2
<1>4. len \in 0 .. cap - 1 /\ Free = cap - len /\ len = IF r =< w THEN w - r ELSE w - r + cap
  BY LenFacts
<1>5. first \in 1 .. n /\ first = IF cap - w =< n THEN cap - w ELSE n
  BY <1>1, <1>3 DEF Min2
<1>6. lenLocked' = len + n BY WriteLockedFacts
<1>7. buf' = [i \in 0 .. cap - 1 |->
                IF w =< i /\ i < w + first THEN p[i - w + 1]
                ELSE IF i < n - first THEN p[first + i + 1]
                ELSE buf[i]]
  BY DEF writeLocked
<1> HIDE DEF n, first, len
<1>8. n \in 1 .. cap - len /\ lenLocked' \in 0 .. cap' BY <1>1, <1>3, <1>4, <1>6
<1>9. /\ Contents' \in Seq(Byte) /\ Len(Contents') = len + n
      /\ \A i \in 1 .. len + n : Contents'[i] = buf'[At(i)]
  BY <1>6, <1>8, ContentsThen
<1>10. \A i \in 1 .. len : Contents[i] = buf[At(i)] BY ContentsNow DEF len
<1>11. ASSUME NEW i \in 1 .. len PROVE Contents'[i] = Contents[i]
  <2>0. At(i) \in Int BY <1>1, <1>4
  <2>1. PICK j \in Int : j = At(i) BY <2>0, Zenon
  <2>2. j \in 0 .. cap - 1 /\ ~(w =< j /\ j < w + first) /\ ~(j < n - first)
    BY <1>1, <1>4, <1>5, <1>8, <2>1, WriteMisses
  <2>3. buf'[j] = buf[j] BY <1>7, <2>2
  <2>4. i \in 1 .. len + n BY <1>3, <1>4
  <2> QED BY <1>9, <1>10, <2>1, <2>3, <2>4
<1>12. ASSUME NEW k \in 1 .. n PROVE Contents'[len + k] = p[k]
  <2>0. At(len + k) \in Int BY <1>1, <1>3, <1>4
  <2>1. PICK j \in Int : j = At(len + k) BY <2>0, Zenon
  <2>2. /\ j \in 0 .. cap - 1
        /\ IF k =< first THEN w =< j /\ j < w + first /\ j - w + 1 = k
           ELSE ~(w =< j /\ j < w + first) /\ j < n - first /\ first + j + 1 = k
    BY <1>1, <1>4, <1>5, <1>8, <2>1, WriteHits
  <2>3. buf'[j] = p[k] BY <1>7, <2>2
  <2>4. len + k \in 1 .. len + n BY <1>3, <1>4
  <2> QED BY <1>9, <2>1, <2>3, <2>4
<1>13. len + n =< cap /\ n \in 1 .. Len(p) BY <1>1, <1>2, <1>3, <1>4, <1>8
<1> QED BY <1>9, <1>11, <1>12, <1>13 DEF n, len

(* Where readLocked reads: the k-th byte is the k-th unread one, and the    *)
(* others move up by n.                                                    *)
LEMMA ReadHits ==
  ASSUME NEW c \in Nat \ {0}, NEW rr \in 0 .. c - 1, NEW n \in 0 .. c,
         NEW first \in 0 .. n, first = (IF c - rr =< n THEN c - rr ELSE n), NEW k \in 1 .. n
  PROVE  (IF rr + k - 1 < c THEN rr + k - 1 ELSE rr + k - 1 - c) =
         (IF k =< first THEN rr + k - 1 ELSE k - first - 1)
OBVIOUS

LEMMA ReadShifts ==
  ASSUME NEW c \in Nat \ {0}, NEW rr \in 0 .. c - 1, NEW n \in 0 .. c,
         NEW v \in 0 .. c - 1, v = (IF rr + n < c THEN rr + n ELSE rr + n - c),
         NEW k \in 1 .. c - n
  PROVE  (IF v + k - 1 < c THEN v + k - 1 ELSE v + k - 1 - c) =
         (IF rr + (n + k) - 1 < c THEN rr + (n + k) - 1 ELSE rr + (n + k) - 1 - c)
OBVIOUS

(* readLocked takes the oldest unread bytes. *)
LEMMA ReadContents ==
  ASSUME TypeOK, TypeOK', NEW size \in Nat \ {0}, lenLocked > 0,
         readLocked(size), cap' = cap, w' = w, buf' = buf
  PROVE  \E n \in 1 .. Len(Contents) : /\ last' = SubSeq(Contents, 1, n)
                                       /\ Contents' = SubSeq(Contents, n + 1, Len(Contents))
<1> DEFINE n     == Min2(size, lenLocked)
           first == Min2(cap - r, n)
           len   == lenLocked
           At(i) == IF r + i - 1 < cap THEN r + i - 1 ELSE r + i - 1 - cap
<1>1. cap \in Nat \ {0} /\ r \in 0 .. cap - 1 /\ len \in 0 .. cap
  BY LenFacts
<1>2. n \in 1 .. len /\ n \in 0 .. cap BY <1>1 DEF Min2
<1>3. lenLocked' = len - n BY ReadLockedFacts
<1>4. /\ last' = [j \in 1 .. n |-> IF j =< first THEN buf[r + j - 1] ELSE buf[j - first - 1]]
      /\ r' = (r + n) % cap
  BY DEF readLocked
<1> HIDE DEF n
<1>5. first \in 0 .. n /\ first = IF cap - r =< n THEN cap - r ELSE n
  BY <1>1, <1>2 DEF Min2
<1> HIDE DEF first, len
<1>6. PICK v \in 0 .. cap - 1 : v = r' /\ v = IF r + n < cap THEN r + n ELSE r + n - cap
  <2>1. (r + n) % cap \in 0 .. cap - 1
        /\ (r + n) % cap = IF r + n < cap THEN r + n ELSE r + n - cap
    BY <1>1, <1>2, AdvanceCases
  <2> QED BY <2>1, <1>4, Zenon
<1>7. /\ Contents \in Seq(Byte) /\ Len(Contents) = len
      /\ \A i \in 1 .. len : Contents[i] = buf[At(i)]
  BY ContentsNow DEF len
<1>8. /\ Contents' \in Seq(Byte) /\ Len(Contents') = len - n
      /\ \A i \in 1 .. len - n : Contents'[i] = buf[IF v + i - 1 < cap THEN v + i - 1 ELSE v + i - 1 - cap]
  <2>1. lenLocked' \in 0 .. cap' BY <1>1, <1>2, <1>3
  <2> QED BY <2>1, <1>3, <1>6, ContentsThen
<1>9. last' = SubSeq(Contents, 1, n)
  <2>1. ASSUME NEW k \in 1 .. n PROVE last'[k] = Contents[k]
    <3>1. At(k) = IF k =< first THEN r + k - 1 ELSE k - first - 1
      BY <1>1, <1>2, <1>5, ReadHits
    <3>2. k \in 1 .. len BY <1>1, <1>2
    <3> QED BY <3>1, <3>2, <1>4, <1>7
  <2>2. SubSeq(Contents, 1, n) = [k \in 1 .. n |-> Contents[k]] BY <1>1, <1>2, <1>7
  <2> QED BY <2>1, <2>2, <1>4
<1>10. Contents' = SubSeq(Contents, n + 1, len)
  <2>1. ASSUME NEW k \in 1 .. len - n PROVE Contents'[k] = Contents[n + k]
    <3>1. (IF v + k - 1 < cap THEN v + k - 1 ELSE v + k - 1 - cap) = At(n + k)
      <4>1. k \in 1 .. cap - n BY <1>1, <1>2
      <4> QED BY <4>1, <1>1, <1>2, <1>6, ReadShifts
    <3>2. n + k \in 1 .. len BY <1>1, <1>2
    <3> QED BY <3>1, <3>2, <1>7, <1>8
  <2>2. /\ SubSeq(Contents, n + 1, len) \in Seq(Byte)
        /\ Len(SubSeq(Contents, n + 1, len)) = len - n
        /\ \A k \in 1 .. len - n : SubSeq(Contents, n + 1, len)[k] = Contents[n + k]
    BY <1>1, <1>2, <1>7
  <2> QED BY <2>1, <2>2, <1>8, SeqEqual
<1> QED BY <1>2, <1>7, <1>9, <1>10

(* Grow moves the unread bytes and loses none. *)
LEMMA GrowContents ==
  ASSUME TypeOK, TypeOK', Grow
  PROVE  Contents' = Contents
<1> DEFINE len   == lenLocked
           At(i) == IF r + i - 1 < cap THEN r + i - 1 ELSE r + i - 1 - cap
<1>1. PICK newCap \in Caps :
        /\ newCap > cap /\ cap' = newCap
        /\ buf' = [i \in 0 .. newCap - 1 |->
                     IF i >= lenLocked THEN 0
                     ELSE IF r < w \/ i < cap - r THEN buf[r + i]
                     ELSE buf[i - (cap - r)]]
        /\ r' = 0
  BY DEF Grow
<1>2. cap \in Nat \ {0} /\ r \in 0 .. cap - 1 /\ w \in 0 .. cap - 1 /\ len \in 0 .. cap
  BY LenFacts
<1>3. newCap \in Nat \ {0} BY CapsAssumption
<1>4. r < w => r + len < cap + 1 BY <1>2, LenFacts
<1>5. lenLocked' = len BY GrowFacts
<1>6. /\ Contents' \in Seq(Byte) /\ Len(Contents') = len
      /\ \A i \in 1 .. len : Contents'[i] = buf'[i - 1]
  <2>1. lenLocked' \in 0 .. cap' BY <1>1, <1>2, <1>3, <1>5
  <2>2. \A i \in 1 .. len : (IF 0 + i - 1 < newCap THEN 0 + i - 1 ELSE 0 + i - 1 - newCap) = i - 1
    BY <1>1, <1>2, <1>3
  <2> QED BY <2>1, <2>2, <1>1, <1>5, ContentsThen
<1>7. /\ Contents \in Seq(Byte) /\ Len(Contents) = len
      /\ \A i \in 1 .. len : Contents[i] = buf[At(i)]
  BY ContentsNow
<1>8. ASSUME NEW i \in 1 .. len PROVE Contents'[i] = Contents[i]
  <2>1. i - 1 \in 0 .. newCap - 1 /\ ~(i - 1 >= len) BY <1>1, <1>2, <1>3
  <2>2. buf'[i - 1] = IF r < w \/ i - 1 < cap - r THEN buf[r + (i - 1)]
                      ELSE buf[i - 1 - (cap - r)]
    BY <1>1, <2>1
  <2>3. At(i) = IF r < w \/ i - 1 < cap - r THEN r + (i - 1) ELSE i - 1 - (cap - r)
    BY <1>2, <1>4
  <2> QED BY <2>2, <2>3, <1>6, <1>7
<1> QED BY <1>6, <1>7, <1>8, SeqEqual

(* Every step of the ring buffer is a step of the bounded FIFO or leaves   *)
(* the FIFO's variables alone.                                             *)
LEMMA FIFOStep ==
  ASSUME 0 \notin ReadSizes, TypeOK, TypeOK', [Next]_vars
  PROVE  [FIFO!Next]_(FIFO!vars)
<1>1. ASSUME NEW p \in Seq(Byte), p # <<>>, Free > 0, ~closed, writeLocked(p),
             cap' = cap, r' = r, closed' = closed, last' = last
      PROVE  FIFO!Put
  <2>1. /\ Contents' \in Seq(Byte) /\ Len(Contents') =< cap
        /\ \E n \in Nat \ {0} : Len(Contents') = lenLocked + n
        /\ \A i \in 1 .. lenLocked : Contents'[i] = Contents[i]
    BY <1>1, WriteContents
  <2>2. Contents \in Seq(Byte) /\ Len(Contents) = lenLocked /\ lenLocked \in Nat
    BY ContentsNow, LenFacts
  <2>3. Len(Contents) < Len(Contents') BY <2>1, <2>2
  <2>4. /\ SubSeq(Contents', 1, lenLocked) \in Seq(Byte)
        /\ Len(SubSeq(Contents', 1, lenLocked)) = lenLocked
        /\ \A i \in 1 .. lenLocked : SubSeq(Contents', 1, lenLocked)[i] = Contents'[i]
    BY <2>1, <2>2
  <2>5. SubSeq(Contents', 1, Len(Contents)) = Contents
    BY <2>1, <2>2, <2>4, SeqEqual
  <2> QED BY <1>1, <2>1, <2>3, <2>5 DEF FIFO!Put
<1>2. ASSUME NEW size \in ReadSizes, lenLocked > 0, readLocked(size),
             cap' = cap, w' = w, buf' = buf, closed' = closed
      PROVE  FIFO!Take
  <2>1. size \in Nat \ {0} BY SizeAssumption
  <2> QED BY <1>2, <2>1, ReadContents DEF FIFO!Take
<1>3. ASSUME NEW p \in Writers, WriteCopy(p) PROVE FIFO!Put
  <2>1. rest[p] \in Seq(Byte) BY DEF TypeOK
  <2> QED BY <1>1, <1>3, <2>1 DEF WriteCopy
<1>4. ASSUME WriteNoBlock PROVE FIFO!Put
  <2>1. PICK p \in Payloads : writeLocked(p) BY <1>4 DEF WriteNoBlock
  <2>2. p \in Seq(Byte) /\ p # <<>> BY PayloadAssumption
  <2> QED BY <1>1, <1>4, <2>1, <2>2 DEF WriteNoBlock
<1>5. ASSUME ReadNoBlock \/ \E p \in Readers : ReadCopy(p) PROVE FIFO!Take
  <2>1. PICK size \in ReadSizes : readLocked(size) BY <1>5 DEF ReadNoBlock, ReadCopy
  <2> QED BY <1>2, <1>5, <2>1 DEF ReadNoBlock, ReadCopy
<1>6. ASSUME Grow PROVE FIFO!Enlarge
  <2>1. cap' > cap /\ cap' \in Nat /\ closed' = closed /\ last' = last
    BY <1>6, CapsAssumption DEF Grow
  <2> QED BY <2>1, <1>6, GrowContents DEF FIFO!Enlarge
<1>7. ASSUME UNCHANGED <<cap, buf, r, w, full>> PROVE UNCHANGED Contents
  BY <1>7 DEF Contents, lenLocked
<1>8. ASSUME CloseWrite PROVE FIFO!Shut
  BY <1>7, <1>8 DEF CloseWrite, FIFO!Shut
<1>9. ASSUME NEW p \in Writers, WriteCall(p) \/ WriteReturn(p) \/ WritePark(p) \/ WriteDone(p)
      PROVE  UNCHANGED FIFO!vars
  BY <1>7, <1>9 DEF WriteCall, WriteReturn, WritePark, WriteDone, FIFO!vars
<1>10. ASSUME NEW p \in Readers, ReadCall(p) \/ ReadEOF(p) \/ ReadPark(p) \/ ReadDone(p)
       PROVE  UNCHANGED FIFO!vars
  BY <1>7, <1>10 DEF ReadCall, ReadEOF, ReadPark, ReadDone, FIFO!vars
<1>11. ASSUME closeDone \/ UNCHANGED vars PROVE UNCHANGED FIFO!vars
  BY <1>7, <1>11 DEF closeDone, vars, FIFO!vars
<1> QED
  BY <1>3, <1>4, <1>5, <1>6, <1>8, <1>9, <1>10, <1>11
     DEF Next, WriterStep, ReaderStep, FIFO!Next

(* The ring buffer implements the bounded FIFO: for every capacity, every   *)
(* interleaving of callers, across wrap-around, Grow and CloseWrite, what  *)
(* readLocked copies out is the oldest bytes writeLocked copied in, in     *)
(* order, none lost and none twice.  As in EOFMeansDrained no caller       *)
(* passes an empty slice.                                                  *)
THEOREM ImplementsFIFO ==
  ASSUME 0 \notin ReadSizes
  PROVE  Spec => FIFOSpec
<1>1. Init => FIFO!Init
  <2> SUFFICES ASSUME Init PROVE FIFO!Init OBVIOUS
  <2>1. TypeOK BY InitType
  <2>2. lenLocked = 0
    <3>1. ~full /\ r = 0 /\ w = 0 BY DEF Init
    <3> QED BY <2>1, <3>1, LenFacts
  <2>3. Contents \in Seq(Byte) /\ Len(Contents) = 0 BY <2>1, <2>2, ContentsNow
  <2>4. Contents = <<>> BY <2>3
  <2> QED BY <2>4, CapsAssumption DEF Init, FIFO!Init
<1>2. TypeOK /\ TypeOK' /\ [Next]_vars => [FIFO!Next]_(FIFO!vars) BY FIFOStep
<1> QED BY <1>1, <1>2, InitType, TypeStep, PTL DEF Spec, FIFOSpec, FIFO!Spec
=============================================================================
