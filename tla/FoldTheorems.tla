---------------------------- MODULE FoldTheorems ----------------------------
(***************************************************************************)
(* What a fold over a sequence computes, step by step, for any operator.   *)
(* A module that folds takes an instance for the operator it folds with;   *)
(* the sequences need not be bounded.                                      *)
(*                                                                         *)
(* Induction is a hypothesis here, so that an instance of this module is   *)
(* small; lemma NatSetInduction of NatInduction proves it.                 *)
(***************************************************************************)
EXTENDS Integers, TLAPS

CONSTANT Op(_, _)   \* a step of the fold: the value so far and an element

(* FoldLeft(Op, base, seq), its definition written out. *)
Last(s) == CHOOSE x \in s : \A y \in s : x >= y

Fold(base, seq) ==
  LET iter[s \in SUBSET DOMAIN seq] ==
        IF s = {} THEN base ELSE Op(iter[s \ {Last(s)}], seq[Last(s)])
  IN  iter[DOMAIN seq]

(* A set that has 0, and with each number the next, has them all. *)
SetInduction == \A S : 0 \in S /\ (\A n \in Nat : n \in S => n + 1 \in S) => Nat \subseteq S

(***************************************************************************)
(* A fold goes through the values h[0], ..., h[n], each made from the one  *)
(* before and the next element of the sequence: what a loop over the       *)
(* sequence computes.                                                      *)
(***************************************************************************)
THEOREM FoldTrace ==
  ASSUME SetInduction, NEW n \in Nat, NEW seq, DOMAIN seq = 1 .. n, NEW base
  PROVE  \E h : /\ h[0] = base /\ h[n] = Fold(base, seq)
                /\ \A k \in 1 .. n : h[k] = Op(h[k - 1], seq[k])
<1> DEFINE Body(g, s) == IF s = {} THEN base ELSE Op(g[s \ {Last(s)}], seq[Last(s)])
           Solves(g, m) == g = [s \in SUBSET (1 .. m) |-> Body(g, s)]
           T == {m \in Nat : \E g : Solves(g, m)}
<1>1. ASSUME NEW m \in Nat, NEW s \in SUBSET (1 .. m + 1), m + 1 \in s
      PROVE  Last(s) = m + 1
  <2>1. \A y \in s : y \in Int /\ m + 1 >= y
    OBVIOUS
  <2>2. m + 1 \in s /\ \A x \in s : x >= m + 1 => x = m + 1
    BY <1>1, <2>1
  <2> QED  BY <2>1, <2>2 DEF Last
<1>2. 0 \in T
  <2> DEFINE g == [s \in SUBSET (1 .. 0) |-> base]
  <2>1. \A s \in SUBSET (1 .. 0) : s = {}
    OBVIOUS
  <2>2. Solves(g, 0)
    BY <2>1
  <2> QED  BY <2>2
<1>3. ASSUME NEW m \in Nat, m \in T PROVE m + 1 \in T
  <2>1. PICK g : Solves(g, m)
    BY <1>3
  <2> DEFINE h == [s \in SUBSET (1 .. m + 1) |->
                     IF m + 1 \in s THEN Op(g[s \ {m + 1}], seq[m + 1]) ELSE g[s]]
  <2>2. ASSUME NEW s \in SUBSET (1 .. m + 1) PROVE h[s] = Body(h, s)
    <3>1. CASE m + 1 \in s
      <4>1. s \ {m + 1} \in SUBSET (1 .. m) /\ s \ {m + 1} \in SUBSET (1 .. m + 1)
        OBVIOUS
      <4>2. h[s \ {m + 1}] = g[s \ {m + 1}]
        BY <4>1
      <4>3. Last(s) = m + 1
        BY <1>1, <3>1
      <4> QED  BY <4>2, <4>3, <3>1
    <3>2. CASE m + 1 \notin s
      <4>1. s \in SUBSET (1 .. m)
        BY <3>2
      <4>2. h[s] = g[s] /\ g[s] = Body(g, s)
        BY <4>1, <2>1, <3>2
      <4>3. /\ s \ {Last(s)} \in SUBSET (1 .. m + 1)
            /\ m + 1 \notin s \ {Last(s)}
        BY <3>2
      <4>4. h[s \ {Last(s)}] = g[s \ {Last(s)}]
        BY <4>3
      <4> QED  BY <4>2, <4>4
    <3> QED  BY <3>1, <3>2
  <2>3. Solves(h, m + 1)
    BY <2>2
  <2> HIDE DEF h, Solves
  <2> QED  BY <2>3
<1>4. n \in T
  <2> HIDE DEF T
  <2> QED  BY <1>2, <1>3 DEF SetInduction
<1> DEFINE f == CHOOSE g : g = [s \in SUBSET (1 .. n) |-> Body(g, s)]
<1>5. f = [s \in SUBSET (1 .. n) |-> Body(f, s)]
  BY <1>4
<1>6. Fold(base, seq) = f[1 .. n]
  BY Zenon DEF Fold
<1> HIDE DEF f
<1> DEFINE h == [k \in 0 .. n |-> f[1 .. k]]
<1>7. h[0] = base
  <2>1. 1 .. 0 = {} /\ 1 .. 0 \in SUBSET (1 .. n)
    OBVIOUS
  <2>2. f[1 .. 0] = Body(f, 1 .. 0)
    BY <1>5, <2>1
  <2> QED  BY <2>1, <2>2
<1>8. ASSUME NEW k \in 1 .. n PROVE h[k] = Op(h[k - 1], seq[k])
  <2>1. Last(1 .. k) = k
    BY DEF Last
  <2>2. (1 .. k) \ {k} = 1 .. k - 1
    OBVIOUS
  <2>3. 1 .. k \in SUBSET (1 .. n) /\ 1 \in 1 .. k
    OBVIOUS
  <2>4. f[1 .. k] = Body(f, 1 .. k)
    BY <1>5, <2>3
  <2>5. f[1 .. k] = Op(f[1 .. k - 1], seq[k])
    BY <2>1, <2>2, <2>3, <2>4
  <2> QED  BY <2>5
<1>9. h[n] = Fold(base, seq)
  BY <1>6
<1> HIDE DEF h
<1> QED  BY <1>7, <1>8, <1>9
=============================================================================
