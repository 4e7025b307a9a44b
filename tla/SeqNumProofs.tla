---------------------------- MODULE SeqNumProofs ----------------------------
(***************************************************************************)
(* Facts about sequence-number comparison for every even sequence space.   *)
(***************************************************************************)
EXTENDS SeqNum, TLAPS

(* The remainder of a difference of two sequence numbers, case by case. *)
LEMMA SubCases ==
  ASSUME NEW a \in SeqNums, NEW b \in SeqNums
  PROVE  /\ a >= b => seqSub(a, b) = a - b
         /\ a < b  => seqSub(a, b) = a - b + SeqSpace
BY SeqSpaceAssumption DEF seqSub, SeqNums

LEMMA AddCases ==
  ASSUME NEW a \in SeqNums, NEW n \in 0 .. SeqSpace - 1
  PROVE  /\ seqAdd(a, n) \in SeqNums
         /\ a + n < SeqSpace  => seqAdd(a, n) = a + n
         /\ a + n >= SeqSpace => seqAdd(a, n) = a + n - SeqSpace
BY SeqSpaceAssumption DEF seqAdd, SeqNums

LEMMA HalfFact == Half \in Nat /\ Half >= 2 /\ SeqSpace = 2 * Half
BY SeqSpaceAssumption DEF Half

(* seqLessThan and seqGreaterThan are converses, and never both hold       *)
(* (int32(a-b) < 0 and int32(b-a) > 0), except at distance exactly half    *)
(* the space, where each number is less than the other.                    *)
THEOREM Trichotomy ==
  ASSUME NEW a \in SeqNums, NEW b \in SeqNums, seqSub(a, b) # Half
  PROVE  /\ a = b \/ seqLessThan(a, b) \/ seqGreaterThan(a, b)
         /\ seqLessThan(a, b) <=> seqGreaterThan(b, a)
         /\ ~(seqLessThan(a, b) /\ seqGreaterThan(a, b))
<1>1. /\ a >= b => seqSub(a, b) = a - b
      /\ a < b  => seqSub(a, b) = a - b + SeqSpace
  BY SubCases
<1>2. /\ b >= a => seqSub(b, a) = b - a
      /\ b < a  => seqSub(b, a) = b - a + SeqSpace
  BY SubCases
<1>3. a \in 0 .. SeqSpace - 1 /\ b \in 0 .. SeqSpace - 1 BY DEF SeqNums
<1> QED
  BY <1>1, <1>2, <1>3, HalfFact DEF seqLessThan, seqGreaterThan

(* Comparison is distance: a number d ahead of another, less than half the *)
(* space away, compares greater, also across the wrap-around.              *)
THEOREM AheadIsGreater ==
  ASSUME NEW a \in SeqNums, NEW d \in 1 .. Half - 1
  PROVE  /\ seqGreaterThan(seqAdd(a, d), a)
         /\ seqLessThan(a, seqAdd(a, d))
         /\ seqSub(seqAdd(a, d), a) = d
<1> DEFINE s == seqAdd(a, d)
<1>1. d \in 0 .. SeqSpace - 1 /\ a \in 0 .. SeqSpace - 1 BY HalfFact DEF SeqNums
<1>2. /\ s \in SeqNums
      /\ a + d < SeqSpace  => s = a + d
      /\ a + d >= SeqSpace => s = a + d - SeqSpace
  BY <1>1, AddCases
<1> HIDE DEF s
<1>3. /\ s >= a => seqSub(s, a) = s - a
      /\ s < a  => seqSub(s, a) = s - a + SeqSpace
      /\ a >= s => seqSub(a, s) = a - s
      /\ a < s  => seqSub(a, s) = a - s + SeqSpace
  BY <1>2, SubCases
<1>4. seqSub(s, a) = d /\ seqSub(a, s) = SeqSpace - d
  BY <1>1, <1>2, <1>3, HalfFact DEF SeqNums
<1>5. seqGreaterThan(s, a) /\ seqLessThan(a, s) /\ seqSub(s, a) = d
  BY <1>4, HalfFact DEF seqGreaterThan, seqLessThan
<1> QED BY <1>5 DEF s

(* seqWithinWindow(seq, start, wnd) is membership in the wnd numbers from  *)
(* start on, for every window smaller than half the space.                 *)
THEOREM WindowMembership ==
  ASSUME NEW start \in SeqNums, NEW w \in 0 .. Half - 1, NEW d \in 0 .. Half - 1
  PROVE  seqWithinWindow(seqAdd(start, d), start, w) <=> d < w
<1> DEFINE s == seqAdd(start, d)
           e == seqAdd(start, w)
<1>1. /\ d \in 0 .. SeqSpace - 1 /\ w \in 0 .. SeqSpace - 1
      /\ start \in 0 .. SeqSpace - 1
  BY HalfFact DEF SeqNums
<1>2. /\ s \in SeqNums
      /\ start + d < SeqSpace  => s = start + d
      /\ start + d >= SeqSpace => s = start + d - SeqSpace
  BY <1>1, AddCases
<1>3. /\ e \in SeqNums
      /\ start + w < SeqSpace  => e = start + w
      /\ start + w >= SeqSpace => e = start + w - SeqSpace
  BY <1>1, AddCases
<1> HIDE DEF s, e
<1>4. /\ s >= start => seqSub(s, start) = s - start
      /\ s < start  => seqSub(s, start) = s - start + SeqSpace
      /\ s >= e => seqSub(s, e) = s - e
      /\ s < e  => seqSub(s, e) = s - e + SeqSpace
  BY <1>2, <1>3, SubCases
<1>5. seqSub(s, start) = d
  BY <1>1, <1>2, <1>4, HalfFact DEF SeqNums
<1>6. seqSub(s, e) = IF d >= w THEN d - w ELSE d - w + SeqSpace
  BY <1>1, <1>2, <1>3, <1>4, HalfFact DEF SeqNums
<1>7. ~seqLessThan(s, start) BY <1>5, HalfFact DEF seqLessThan
<1>8. seqLessThan(s, e) <=> d < w BY <1>6, HalfFact DEF seqLessThan
<1> QED BY <1>7, <1>8 DEF seqWithinWindow, s, e
=============================================================================
