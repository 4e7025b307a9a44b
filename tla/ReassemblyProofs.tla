-------------------------- MODULE ReassemblyProofs --------------------------
(***************************************************************************)
(* Proofs about the reassembler of stack/fragmentation.go, for any set of  *)
(* datagrams, any MTUs and any thresholds.                                 *)
(*                                                                         *)
(* The operators of Reassembly take the reassembler as a record r; so do   *)
(* the lemmas.  RInv(r) holds throughout process, Between(r) between its   *)
(* calls: no set in the table is ready to be assembled, and the memory is  *)
(* under the high threshold.                                               *)
(***************************************************************************)
EXTENDS Reassembly, NatInduction, FiniteSetTheorems, TLAPS

(* evictExpiredLocked and trimMemoryLocked release sets in a loop. *)
F == INSTANCE FoldTheorems WITH Op <- releaseSet

(***************************************************************************)
(* The set of key k: its header, total length and fragments are of         *)
(* datagrams with that key, no two fragments share a byte, and its memory  *)
(* is the number of bytes.  A set that has the first fragment has the      *)
(* header; one that has the last fragment knows its total length.          *)
(***************************************************************************)
SetOK(k, s) ==
  /\ s.header # None => s.header \in Datagrams /\ s.header.key = k
  /\ s.totalLen # -1 => \E d \in Datagrams : d.key = k /\ d.len = s.totalLen
  /\ s.fragments \subseteq [offset : Nat, len : Nat \ {0}, from : Datagrams]
  /\ \A f \in s.fragments :
       /\ f.from.key = k /\ End(f) =< f.from.len
       /\ f.offset = 0 => s.header # None
       /\ End(f) = f.from.len => s.totalLen = f.from.len
  /\ \A f, g \in s.fragments : f # g => End(f) =< g.offset \/ End(g) =< f.offset
  /\ IsFiniteSet(Bytes(s)) /\ s.mem = Cardinality(Bytes(s))

(* A set that process assembles as soon as it is so. *)
Ready(s) == s.totalLen >= 0 /\ s.header # None /\ complete(s)

(* The bytes that a table of sets holds. *)
Held(ss) == UNION {{k} \X Bytes(ss[k]) : k \in DOMAIN ss}

(* The reassembler at any point of process. *)
RInv(r) ==
  /\ DOMAIN r = {"sets", "order", "mem", "out"}
  /\ r.order \in Seq(Keys) /\ IsInjective(r.order)
  /\ r.sets = [k \in KeysOf(r) |-> r.sets[k]]
  /\ \A k \in KeysOf(r) : SetOK(k, r.sets[k])
  /\ IsFiniteSet(Held(r.sets)) /\ r.mem = Cardinality(Held(r.sets))

(* RemoveFirst finds the only occurrence of an element. *)
LEMMA RemoveFirstFacts ==
  ASSUME NEW S, NEW q \in Seq(S), IsInjective(q), NEW i \in 1 .. Len(q)
  PROVE  RemoveFirst(q, q[i]) = SubSeq(q, 1, i - 1) \o SubSeq(q, i + 1, Len(q))
<1> DEFINE I == {j \in 1 .. Len(q) : q[j] = q[i]}
<1>1. I = {i}
  BY DEF IsInjective
<1>2. Min(I) = i
  BY <1>1 DEF Min
<1>3. SelectInSeq(q, LAMBDA v : v = q[i]) = i
  BY <1>1, <1>2, Zenon DEF SelectInSeq
<1>4. QED  BY <1>3, Zenon DEF RemoveFirst, RemoveAt

(* A sequence without repetitions, one element removed. *)
LEMMA Removed ==
  ASSUME NEW S, NEW q \in Seq(S), IsInjective(q), NEW i \in 1 .. Len(q)
  PROVE  LET p == RemoveFirst(q, q[i])
         IN  /\ p \in Seq(S) /\ Len(p) = Len(q) - 1 /\ IsInjective(p)
             /\ {p[j] : j \in DOMAIN p} = {q[j] : j \in DOMAIN q} \ {q[i]}
             /\ i = 1 => \A j \in 1 .. Len(p) : p[j] = q[j + 1]
<1> DEFINE a == SubSeq(q, 1, i - 1)  b == SubSeq(q, i + 1, Len(q))  p == a \o b
<1>1. a \in Seq(S) /\ Len(a) = i - 1 /\ \A j \in 1 .. i - 1 : a[j] = q[j]
  OBVIOUS
<1>2. b \in Seq(S) /\ Len(b) = Len(q) - i /\ \A j \in 1 .. Len(q) - i : b[j] = q[i + j]
  OBVIOUS
<1> HIDE DEF a, b
<1>3. p \in Seq(S) /\ Len(p) = Len(q) - 1
  <2>1. Len(q) \in Nat
    OBVIOUS
  <2>2. a \o b \in Seq(S) /\ Len(a \o b) = Len(a) + Len(b)
    <3>1. a \in Seq(S) /\ b \in Seq(S)
      BY <1>1, <1>2
    <3>2. QED  BY <3>1
  <2>3. QED  BY <1>1, <1>2, <2>1, <2>2
<1>4. ASSUME NEW j \in 1 .. Len(q) - 1  PROVE p[j] = IF j < i THEN q[j] ELSE q[j + 1]
  BY <1>1, <1>2
<1> HIDE DEF p
<1>5. DOMAIN p = 1 .. Len(q) - 1 /\ DOMAIN q = 1 .. Len(q) /\ Len(q) \in Nat
  BY <1>3
<1>6. IsInjective(p)
  <2> SUFFICES ASSUME NEW j \in 1 .. Len(q) - 1, NEW k \in 1 .. Len(q) - 1, p[j] = p[k]
               PROVE  j = k
    BY <1>5 DEF IsInjective
  <2>1. \A m, n \in 1 .. Len(q) : q[m] = q[n] => m = n
    BY <1>5 DEF IsInjective
  <2>2. QED  BY <1>4, <1>5, <2>1
<1>7. ASSUME NEW j \in DOMAIN p  PROVE p[j] \in {q[k] : k \in DOMAIN q} \ {q[i]}
  <2>1. \A m, n \in 1 .. Len(q) : q[m] = q[n] => m = n
    BY <1>5 DEF IsInjective
  <2>2. CASE j < i
    BY <1>4, <1>5, <2>1, <2>2
  <2>3. CASE ~(j < i)
    BY <1>4, <1>5, <2>1, <2>3
  <2>4. QED  BY <2>2, <2>3
<1>8. ASSUME NEW k \in DOMAIN q, q[k] # q[i]  PROVE \E j \in DOMAIN p : p[j] = q[k]
  <2>1. CASE k < i
    BY <1>4, <1>5, <2>1
  <2>2. CASE k > i
    <3>1. k - 1 \in DOMAIN p /\ p[k - 1] = q[k]
      BY <1>4, <1>5, <2>2
    <3>2. QED  BY <3>1
  <2>3. QED  BY <1>5, <1>8, <2>1, <2>2
<1>9. {p[j] : j \in DOMAIN p} = {q[j] : j \in DOMAIN q} \ {q[i]}
  BY <1>7, <1>8
<1>10. RemoveFirst(q, q[i]) = p
  BY RemoveFirstFacts, Zenon DEF p, a, b
<1>11. i = 1 => \A j \in 1 .. Len(p) : p[j] = q[j + 1]
  BY <1>3, <1>4, <1>5
<1>12. QED  BY <1>3, <1>6, <1>9, <1>10, <1>11, Zenon

(* The bytes of a set that is taken out of the table. *)
LEMMA HeldRemove ==
  ASSUME NEW ss, NEW k \in DOMAIN ss, NEW tt, DOMAIN tt = DOMAIN ss \ {k},
         \A j \in DOMAIN tt : tt[j] = ss[j],
         IsFiniteSet(Held(ss)), IsFiniteSet(Bytes(ss[k]))
  PROVE  /\ IsFiniteSet(Held(tt))
         /\ Cardinality(Held(ss)) \in Nat /\ Cardinality(Bytes(ss[k])) \in Nat
         /\ Cardinality(Held(tt)) = Cardinality(Held(ss)) - Cardinality(Bytes(ss[k]))
<1> DEFINE T == {k} \X Bytes(ss[k])
<1>1. Held(tt) = Held(ss) \ T /\ Held(ss) \cap T = T
  BY DEF Held
<1>2. IsFiniteSet({k}) /\ Cardinality({k}) = 1
  BY FS_Singleton, Zenon
<1>3. IsFiniteSet(T) /\ Cardinality(T) = Cardinality({k}) * Cardinality(Bytes(ss[k]))
  BY <1>2, FS_Product, Zenon
<1>4. Cardinality(Held(ss)) \in Nat /\ Cardinality(Bytes(ss[k])) \in Nat
  BY FS_CardinalityType
<1>5. Cardinality(T) = Cardinality(Bytes(ss[k]))
  BY <1>2, <1>3, <1>4
<1> HIDE DEF T
<1>6. /\ IsFiniteSet(Held(ss) \ T)
      /\ Cardinality(Held(ss) \ T) = Cardinality(Held(ss)) - Cardinality(Held(ss) \cap T)
  BY FS_Difference, Zenon
<1>7. QED  BY <1>1, <1>4, <1>5, <1>6, Zenon

(***************************************************************************)
(* releaseSet takes the set of a key out of the table, and its bytes out   *)
(* of the counter, which is never clamped.                                 *)
(***************************************************************************)
Released(r, k, n) ==
  /\ RInv(n) /\ n.out = r.out /\ Len(n.order) = Len(r.order) - 1
  /\ KeysOf(n) = KeysOf(r) \ {k}
  /\ \A j \in KeysOf(n) : n.sets[j] = r.sets[j]
  /\ n.mem \in Nat /\ r.mem \in Nat /\ r.sets[k].mem \in Nat /\ n.mem = r.mem - r.sets[k].mem
  /\ r.order[1] = k => \A j \in 1 .. Len(n.order) : n.order[j] = r.order[j + 1]

LEMMA ReleaseSet ==
  ASSUME NEW r, RInv(r), NEW k \in KeysOf(r)
  PROVE  Released(r, k, releaseSet(r, k))
<1> DEFINE n == releaseSet(r, k)
           p == RemoveFirst(r.order, k)
<1>1. r.order \in Seq(Keys) /\ IsInjective(r.order) /\ DOMAIN r.order = 1 .. Len(r.order)
  BY DEF RInv
<1>0. PICK i \in 1 .. Len(r.order) : k = r.order[i]
  BY <1>1 DEF KeysOf
<1>2. /\ p \in Seq(Keys) /\ Len(p) = Len(r.order) - 1 /\ IsInjective(p)
      /\ {p[j] : j \in DOMAIN p} = {r.order[j] : j \in DOMAIN r.order} \ {k}
      /\ i = 1 => \A j \in 1 .. Len(p) : p[j] = r.order[j + 1]
  <2> DEFINE w == RemoveFirst(r.order, r.order[i])
  <2>1. /\ w \in Seq(Keys) /\ Len(w) = Len(r.order) - 1 /\ IsInjective(w)
        /\ {w[j] : j \in DOMAIN w} = {r.order[j] : j \in DOMAIN r.order} \ {r.order[i]}
        /\ i = 1 => \A j \in 1 .. Len(w) : w[j] = r.order[j + 1]
    BY <1>1, Removed, Zenon
  <2>2. w = p
    BY <1>0
  <2> HIDE DEF w, p
  <2>3. QED  BY <1>0, <2>1, <2>2, Zenon
<1> HIDE DEF p
<1>3. /\ DOMAIN n = {"sets", "order", "mem", "out"}
      /\ n.sets = [j \in KeysOf(r) \ {k} |-> r.sets[j]] /\ n.order = p /\ n.out = r.out
      /\ n.mem = IF r.mem < r.sets[k].mem THEN 0 ELSE r.mem - r.sets[k].mem
  <2>1. DOMAIN r = {"sets", "order", "mem", "out"}
    BY DEF RInv
  <2>2. QED  BY <2>1 DEF releaseSet, p
<1> HIDE DEF n
<1>4. KeysOf(n) = KeysOf(r) \ {k}
  <2>1. KeysOf(n) = {p[j] : j \in DOMAIN p}
    BY <1>3 DEF KeysOf
  <2>2. QED  BY <1>2, <2>1, Zenon DEF KeysOf
<1>5. DOMAIN n.sets = KeysOf(r) \ {k} /\ \A j \in KeysOf(r) \ {k} : n.sets[j] = r.sets[j]
  BY <1>3
<1>6. DOMAIN r.sets = KeysOf(r)
  BY DEF RInv
<1>7. SetOK(k, r.sets[k]) /\ IsFiniteSet(Held(r.sets)) /\ r.mem = Cardinality(Held(r.sets))
  BY <1>4 DEF RInv
<1>8. /\ IsFiniteSet(Held(n.sets)) /\ r.mem \in Nat /\ r.sets[k].mem \in Nat
      /\ Cardinality(Held(n.sets)) = r.mem - r.sets[k].mem
  <2>1. IsFiniteSet(Bytes(r.sets[k])) /\ r.sets[k].mem = Cardinality(Bytes(r.sets[k]))
    BY <1>7 DEF SetOK
  <2>2. /\ k \in DOMAIN r.sets /\ DOMAIN n.sets = DOMAIN r.sets \ {k}
        /\ \A j \in DOMAIN n.sets : n.sets[j] = r.sets[j]
    BY <1>4, <1>5, <1>6
  <2>3. /\ IsFiniteSet(Held(n.sets))
        /\ Cardinality(Held(r.sets)) \in Nat /\ Cardinality(Bytes(r.sets[k])) \in Nat
        /\ Cardinality(Held(n.sets)) = Cardinality(Held(r.sets)) - Cardinality(Bytes(r.sets[k]))
    <3> DEFINE tt == n.sets  ss == r.sets
    <3>1. /\ k \in DOMAIN ss /\ DOMAIN tt = DOMAIN ss \ {k} /\ \A j \in DOMAIN tt : tt[j] = ss[j]
          /\ IsFiniteSet(Held(ss)) /\ IsFiniteSet(Bytes(ss[k]))
      BY <1>7, <2>1, <2>2
    <3> HIDE DEF ss, tt
    <3>2. /\ IsFiniteSet(Held(tt))
          /\ Cardinality(Held(ss)) \in Nat /\ Cardinality(Bytes(ss[k])) \in Nat
          /\ Cardinality(Held(tt)) = Cardinality(Held(ss)) - Cardinality(Bytes(ss[k]))
      BY <3>1, HeldRemove, Zenon
    <3>3. QED  BY <3>2 DEF ss, tt
  <2>4. QED  BY <1>7, <2>1, <2>3
<1>9. Cardinality(Held(n.sets)) \in Nat
  BY <1>8, FS_CardinalityType
<1>10. n.mem = r.mem - r.sets[k].mem
  BY <1>3, <1>8, <1>9
<1>11. \A j \in KeysOf(n) : SetOK(j, n.sets[j])
  BY <1>4, <1>5 DEF RInv
<1>12. n.sets = [j \in KeysOf(n) |-> n.sets[j]]
  BY <1>3, <1>4
<1>13. RInv(n)
  BY <1>2, <1>3, <1>8, <1>10, <1>11, <1>12 DEF RInv
<1>14. n.mem \in Nat /\ Len(n.order) = Len(r.order) - 1
  BY <1>2, <1>3, <1>8, <1>9, <1>10
<1>15. \A j \in KeysOf(n) : n.sets[j] = r.sets[j]
  BY <1>4, <1>5
<1>16. r.order[1] = k => \A j \in 1 .. Len(n.order) : n.order[j] = r.order[j + 1]
  <2>1. r.order[1] = k => i = 1
    BY <1>0, <1>1 DEF IsInjective
  <2>2. QED  BY <1>2, <1>3, <2>1
<1>17. QED  BY <1>3, <1>4, <1>8, <1>10, <1>13, <1>14, <1>15, <1>16, SMTT(30) DEF Released, n

(* A table that has kept some of the sets of r as they were. *)
Kept(r, m) ==
  /\ RInv(m) /\ m.out = r.out
  /\ KeysOf(m) \subseteq KeysOf(r) /\ \A j \in KeysOf(m) : m.sets[j] = r.sets[j]
  /\ m.mem \in Nat /\ r.mem \in Nat /\ m.mem =< r.mem

(* releaseOldest folds releaseSet over the keys of the oldest sets. *)
LEMMA OldestIsFold ==
  ASSUME NEW r, NEW n
  PROVE  releaseOldest(r, n) = F!Fold(r, SubSeq(r.order, 1, n))
  BY Zenon DEF releaseOldest, F!Fold, F!Last, FoldLeft, MapThenFoldSet, Max

(***************************************************************************)
(* The n oldest sets released one after the other: the table keeps the     *)
(* others as they were.                                                    *)
(***************************************************************************)
LEMMA ReleaseOldest ==
  ASSUME NEW r, RInv(r), NEW n \in 0 .. Len(r.order)
  PROVE  Kept(r, releaseOldest(r, n)) /\ Len(releaseOldest(r, n).order) = Len(r.order) - n
<1> DEFINE q == SubSeq(r.order, 1, n)
<1>1. r.order \in Seq(Keys) /\ Len(r.order) \in Nat /\ n \in Nat
  BY DEF RInv
<1>2. DOMAIN q = 1 .. n /\ \A k \in 1 .. n : q[k] = r.order[k]
  BY <1>1
<1> HIDE DEF q
<1>3. PICK h : /\ h[0] = r /\ h[n] = F!Fold(r, q)
               /\ \A k \in 1 .. n : h[k] = releaseSet(h[k - 1], q[k])
  <2>1. DOMAIN q = 1 .. n
    BY <1>2
  <2>2. F!SetInduction
    BY NatSetInduction DEF F!SetInduction
  <2>3. QED  BY <1>1, <2>1, <2>2, F!FoldTrace
<1> DEFINE P(k) == /\ RInv(h[k]) /\ h[k].out = r.out /\ Len(h[k].order) = Len(r.order) - k
                   /\ \A j \in 1 .. Len(r.order) - k : h[k].order[j] = r.order[j + k]
                   /\ KeysOf(h[k]) \subseteq KeysOf(r)
                   /\ \A j \in KeysOf(h[k]) : h[k].sets[j] = r.sets[j]
                   /\ h[k].mem \in Nat /\ h[k].mem =< r.mem
           T == {k \in Nat : k =< n => P(k)}
<1>4. r.mem \in Nat
  BY FS_CardinalityType DEF RInv
<1>5. 0 \in T
  BY <1>1, <1>3, <1>4
<1>6. ASSUME NEW k \in Nat, k \in T  PROVE k + 1 \in T
  <2> SUFFICES ASSUME k + 1 =< n  PROVE P(k + 1)
    OBVIOUS
  <2> DEFINE d == h[k]  e == h[k + 1]
  <2>1. /\ RInv(d) /\ d.out = r.out /\ Len(d.order) = Len(r.order) - k
        /\ \A j \in 1 .. Len(r.order) - k : d.order[j] = r.order[j + k]
        /\ KeysOf(d) \subseteq KeysOf(r)
        /\ \A j \in KeysOf(d) : d.sets[j] = r.sets[j]
        /\ d.mem \in Nat /\ d.mem =< r.mem
    BY <1>1, <1>6
  <2>2. e = releaseSet(d, r.order[k + 1])
    BY <1>1, <1>2, <1>3
  <2>3. d.order[1] = r.order[k + 1] /\ d.order[1] \in KeysOf(d)
    <3>1. 1 \in 1 .. Len(d.order) /\ d.order[1] = r.order[k + 1]
      BY <1>1, <2>1
    <3>2. DOMAIN d.order = 1 .. Len(d.order)
      BY <2>1 DEF RInv
    <3>3. QED  BY <3>1, <3>2 DEF KeysOf
  <2> HIDE DEF d, e
  <2>4. Released(d, d.order[1], e)
    BY <2>1, <2>2, <2>3, ReleaseSet
  <2>5. /\ e.out = r.out /\ Len(e.order) = Len(r.order) - (k + 1)
        /\ KeysOf(e) \subseteq KeysOf(r) /\ \A j \in KeysOf(e) : e.sets[j] = r.sets[j]
        /\ e.mem \in Nat /\ e.mem =< r.mem
    BY <1>1, <1>4, <2>1, <2>4 DEF Released
  <2>6. ASSUME NEW j \in 1 .. Len(r.order) - (k + 1)  PROVE e.order[j] = r.order[j + (k + 1)]
    <3>1. e.order[j] = d.order[j + 1] /\ j + 1 \in 1 .. Len(r.order) - k
      <4>1. j \in 1 .. Len(e.order) /\ j + 1 \in 1 .. Len(r.order) - k
        BY <1>1, <2>5
      <4>2. QED  BY <2>4, <4>1 DEF Released
    <3>2. QED  BY <1>1, <2>1, <3>1
  <2>7. QED  BY <2>4, <2>5, <2>6, Zenon DEF e, Released
<1> HIDE DEF T
<1>7. n \in T
  BY <1>1, <1>5, <1>6, NatSetInduction
<1>8. P(n)
  BY <1>1, <1>7 DEF T
<1>9. h[n] = releaseOldest(r, n)
  BY <1>3, OldestIsFold DEF q
<1>10. QED  BY <1>4, <1>8, <1>9, Zenon DEF Kept

(***************************************************************************)
(* trimMemoryLocked brings the memory under the high threshold, if need be *)
(* by releasing all the sets.                                              *)
(***************************************************************************)
LEMMA TrimMemory ==
  ASSUME NEW r, RInv(r)
  PROVE  Kept(r, trimMemory(r)) /\ trimMemory(r).mem =< HighThreshold
<1> DEFINE N == {n \in 0 .. Len(r.order) : trimStops(r, n)}
           C(n) == trimStops(r, n) /\ \A m \in 0 .. n - 1 : ~trimStops(r, m)
           w == CHOOSE n \in 0 .. Len(r.order) : C(n)
<1>1. r.order \in Seq(Keys) /\ Len(r.order) \in Nat
  BY DEF RInv
<1>2. Len(r.order) \in N
  BY <1>1 DEF trimStops
<1>3. PICK n \in N : \A m \in N : n =< m
  <2>1. N \in SUBSET Nat
    BY <1>1
  <2> HIDE DEF N
  <2>2. QED  BY <1>2, <2>1, LeastElement
<1>4. n \in 0 .. Len(r.order) /\ C(n)
  BY <1>1, <1>3
<1>5. w \in 0 .. Len(r.order) /\ C(w)
  <2> HIDE DEF C
  <2>1. QED  BY <1>4
<1>6. trimMemory(r) = releaseOldest(r, w)
  BY DEF trimMemory
<1> HIDE DEF w
<1> DEFINE m == releaseOldest(r, w)
<1>7. Kept(r, m) /\ Len(m.order) = Len(r.order) - w
  BY <1>5, ReleaseOldest
<1> HIDE DEF m
<1>8. m.mem =< HighThreshold
  <2>1. CASE w = Len(r.order)
    <3>1. Len(m.order) = 0 /\ m.order \in Seq(Keys) /\ RInv(m)
      BY <1>1, <1>7, <2>1 DEF Kept, RInv
    <3>2. DOMAIN m.order = {}
      BY <3>1
    <3>3. KeysOf(m) = {}
      BY <3>2 DEF KeysOf
    <3>4. Held(m.sets) = {}
      BY <3>1, <3>3 DEF RInv, Held
    <3>5. m.mem = 0
      BY <3>1, <3>4, FS_EmptySet DEF RInv
    <3>6. QED  BY <3>5, ReassemblyAssumption
  <2>2. CASE m.mem =< HighThreshold \/ m.mem =< LowThreshold
    BY <1>7, <2>2, ReassemblyAssumption DEF Kept
  <2>3. QED  BY <1>5, <2>1, <2>2 DEF trimStops, m
<1>9. QED  BY <1>6, <1>7, <1>8 DEF m

(* The set of a key, made if there was none. *)
Found(r, k, n) ==
  /\ RInv(n) /\ n.out = r.out /\ n.mem = r.mem
  /\ KeysOf(n) = KeysOf(r) \cup {k} /\ \A j \in KeysOf(r) : n.sets[j] = r.sets[j]
  /\ k \notin KeysOf(r) => n.sets[k] = newSet

(* The lookup of process. *)
LEMMA FindSet ==
  ASSUME NEW r, RInv(r), NEW k \in Keys
  PROVE  Found(r, k, findSet(r, k))
<1> DEFINE n == findSet(r, k)
<1>1. CASE k \in KeysOf(r)
  BY <1>1 DEF findSet, Found
<1>2. CASE k \notin KeysOf(r)
  <2>1. /\ DOMAIN n = {"sets", "order", "mem", "out"}
        /\ n.sets = [j \in KeysOf(r) \cup {k} |-> IF j = k THEN newSet ELSE r.sets[j]]
        /\ n.order = Append(r.order, k) /\ n.mem = r.mem /\ n.out = r.out
    <3>1. DOMAIN r = {"sets", "order", "mem", "out"}
      BY DEF RInv
    <3>2. QED  BY <1>2, <3>1 DEF findSet
  <2> HIDE DEF n
  <2>2. r.order \in Seq(Keys) /\ Len(r.order) \in Nat /\ DOMAIN r.order = 1 .. Len(r.order)
    BY DEF RInv
  <2>3. /\ n.order \in Seq(Keys) /\ DOMAIN n.order = 1 .. Len(r.order) + 1
        /\ n.order[Len(r.order) + 1] = k /\ \A i \in 1 .. Len(r.order) : n.order[i] = r.order[i]
    BY <2>1, <2>2
  <2>4. KeysOf(n) = KeysOf(r) \cup {k}
    BY <2>2, <2>3, SMTT(30) DEF KeysOf
  <2>5. IsInjective(n.order)
    <3> SUFFICES ASSUME NEW i \in 1 .. Len(r.order) + 1, NEW j \in 1 .. Len(r.order) + 1,
                        n.order[i] = n.order[j]
                 PROVE  i = j
      BY <2>3 DEF IsInjective
    <3>1. \A x \in 1 .. Len(r.order) : r.order[x] # k
      BY <1>2, <2>2 DEF KeysOf
    <3>2. \A x, y \in 1 .. Len(r.order) : r.order[x] = r.order[y] => x = y
      BY <2>2 DEF RInv, IsInjective
    <3>3. CASE i = Len(r.order) + 1 \/ j = Len(r.order) + 1
      <4>1. n.order[i] = k /\ n.order[j] = k
        BY <2>3, <3>3
      <4>2. \A x \in 1 .. Len(r.order) : n.order[x] # k
        BY <2>3, <3>1
      <4>3. i \notin 1 .. Len(r.order) /\ j \notin 1 .. Len(r.order)
        BY <4>1, <4>2
      <4>4. QED  BY <2>2, <4>3
    <3>4. CASE i # Len(r.order) + 1 /\ j # Len(r.order) + 1
      <4>1. i \in 1 .. Len(r.order) /\ j \in 1 .. Len(r.order)
        BY <2>2, <3>4
      <4>2. QED  BY <2>3, <3>2, <4>1
    <3>5. QED  BY <3>3, <3>4
  <2>6. n.sets[k] = newSet /\ DOMAIN n.sets = KeysOf(n) /\ \A j \in KeysOf(r) : n.sets[j] = r.sets[j]
    BY <1>2, <2>1, <2>4
  <2>7. Bytes(newSet) = {} /\ SetOK(k, newSet)
    <3>1. Bytes(newSet) = {}
      BY DEF Bytes, newSet
    <3>2. IsFiniteSet({}) /\ Cardinality({}) = 0
      BY FS_EmptySet
    <3>3. QED  BY <3>1, <3>2 DEF SetOK, newSet
  <2>8. Held(n.sets) = Held(r.sets)
    <3>1. DOMAIN r.sets = KeysOf(r)
      BY DEF RInv
    <3>2. QED  BY <2>4, <2>6, <2>7, <3>1 DEF Held
  <2>9. \A j \in KeysOf(n) : SetOK(j, n.sets[j])
    BY <2>4, <2>6, <2>7 DEF RInv
  <2>10. n.sets = [j \in KeysOf(n) |-> n.sets[j]]
    BY <2>1, <2>4
  <2>11. RInv(n)
    BY <2>1, <2>3, <2>5, <2>8, <2>9, <2>10, Zenon DEF RInv
  <2>12. QED  BY <2>1, <2>4, <2>6, <2>11 DEF Found, n
<1>3. QED  BY <1>1, <1>2

(* Integer division, as the provers need it. *)
LEMMA DivFacts ==
  ASSUME NEW a \in Nat, NEW b \in Nat \ {0}
  PROVE  a \div b \in Nat /\ b * (a \div b) =< a /\ a < b * (a \div b) + b
  OBVIOUS

(* Multiples, in order. *)
LEMMA TimesMonotone ==
  ASSUME NEW m \in Nat, NEW n \in Nat, m =< n, NEW b \in Nat
  PROVE  m * b \in Nat /\ m * b =< b * n
  OBVIOUS

(***************************************************************************)
(* What fragmentIPv4Packet sends: pieces of a datagram, not empty, of      *)
(* which exactly the one that reaches the datagram's end has no more flag. *)
(***************************************************************************)
Valid(f) ==
  /\ f.from \in Datagrams /\ f.offset \in Nat /\ f.len \in Nat \ {0}
  /\ f.from.len \in Nat /\ End(f) =< f.from.len
  /\ f.more <=> End(f) # f.from.len

(* The payload of a fragment, for an MTU that can carry one. *)
LEMMA CutSize ==
  ASSUME NEW d \in Datagrams, NEW m \in MTUs, fragmentIPv4Packet(d, m) # {}
  PROVE  /\ ((m - HdrLen) \div 8) * 8 \in Nat \ {0} /\ d.len \in Nat \ {0}
         /\ fragmentIPv4Packet(d, m) = FragmentsOf(d, ((m - HdrLen) \div 8) * 8)
<1>1. d.len \in Nat \ {0} /\ m \in Nat /\ HdrLen \in Nat
  BY ReassemblyAssumption
<1>2. m - HdrLen >= 8
  BY <1>1 DEF fragmentIPv4Packet
<1>3. QED  BY <1>1, <1>2 DEF fragmentIPv4Packet

(* Every fragment on the wire is such a piece. *)
LEMMA FragmentFacts ==
  ASSUME NEW f \in Fragments
  PROVE  Valid(f)
<1>1. PICK d \in Datagrams, m \in MTUs : f \in fragmentIPv4Packet(d, m)
  BY DEF Fragments
<1> DEFINE mp == ((m - HdrLen) \div 8) * 8
<1>2. mp \in Nat \ {0} /\ d.len \in Nat \ {0} /\ f \in FragmentsOf(d, mp)
  BY <1>1, CutSize
<1> HIDE DEF mp
<1>3. PICK n \in 0 .. (d.len - 1) \div mp :
        f = [from |-> d, offset |-> n * mp, more |-> d.len - n * mp > mp,
             len |-> IF d.len - n * mp > mp THEN mp ELSE d.len - n * mp]
  BY <1>2 DEF FragmentsOf
<1>4. d.len - 1 \in Nat /\ (d.len - 1) \div mp \in Nat /\ mp * ((d.len - 1) \div mp) =< d.len - 1
  BY <1>2, DivFacts
<1>5. n * mp \in Nat /\ n * mp =< mp * ((d.len - 1) \div mp)
  BY <1>2, <1>4, TimesMonotone
<1> DEFINE o == n * mp  q == mp * ((d.len - 1) \div mp)
<1>6. o \in Nat /\ o =< d.len - 1
  <2>1. q \in Int
    BY <1>2, <1>4
  <2> HIDE DEF q
  <2>2. o \in Nat /\ o =< q /\ q =< d.len - 1
    BY <1>4, <1>5 DEF q
  <2> HIDE DEF o
  <2>3. QED  BY <1>2, <2>1, <2>2
<1>7. f = [from |-> d, offset |-> o, more |-> d.len - o > mp,
           len |-> IF d.len - o > mp THEN mp ELSE d.len - o]
  BY <1>3
<1> HIDE DEF o, q
<1>8. CASE d.len - o > mp
  <2>1. f.from = d /\ f.offset = o /\ f.len = mp /\ f.more
    BY <1>7, <1>8, Zenon
  <2>2. QED  BY <1>2, <1>6, <1>8, <2>1 DEF Valid, End
<1>9. CASE ~(d.len - o > mp)
  <2>1. f.from = d /\ f.offset = o /\ f.len = d.len - o /\ ~f.more
    BY <1>7, <1>9, Zenon
  <2>2. QED  BY <1>2, <1>6, <1>9, <2>1 DEF Valid, End
<1>10. QED  BY <1>8, <1>9

(***************************************************************************)
(* A fragment that overlaps none of a set's, and does not contradict its   *)
(* total length, is added to it.                                           *)
(***************************************************************************)
LEMMA AddFragment ==
  ASSUME NEW k, NEW s, SetOK(k, s), NEW f, Valid(f), f.from.key = k,
         Overlapping(s, f) = {},
         ~(~f.more /\ s.totalLen >= 0 /\ s.totalLen # End(f))
  PROVE  /\ SetOK(k, addFragment(s, f))
         /\ Bytes(addFragment(s, f)) = Bytes(s) \cup (f.offset .. End(f) - 1)
         /\ Bytes(s) \cap (f.offset .. End(f) - 1) = {}
         /\ IsFiniteSet(f.offset .. End(f) - 1) /\ Cardinality(f.offset .. End(f) - 1) = f.len
<1> DEFINE n == addFragment(s, f)  I == f.offset .. End(f) - 1
           p == [offset |-> f.offset, len |-> f.len, from |-> f.from]
<1>1. /\ n.header = (IF f.offset = 0 THEN f.from ELSE s.header)
      /\ n.totalLen = (IF f.more THEN s.totalLen ELSE End(f))
      /\ n.fragments = s.fragments \cup {p} /\ n.mem = s.mem + f.len
  BY DEF addFragment
<1> HIDE DEF n
<1>2. /\ f.offset \in Nat /\ f.len \in Nat \ {0} /\ End(f) = f.offset + f.len
      /\ f.from \in Datagrams /\ f.from.len \in Nat
  BY DEF Valid, End
<1>3. p \in [offset : Nat, len : Nat \ {0}, from : Datagrams] /\ End(p) = End(f)
      /\ p.offset = f.offset /\ p.len = f.len /\ p.from = f.from
  BY <1>2 DEF End
<1> HIDE DEF p
<1>4. IsFiniteSet(I) /\ Cardinality(I) = f.len
  <2>1. f.offset \in Int /\ End(f) - 1 \in Int
    BY <1>2
  <2>2. /\ IsFiniteSet(f.offset .. End(f) - 1)
        /\ Cardinality(f.offset .. End(f) - 1)
             = IF f.offset > End(f) - 1 THEN 0 ELSE End(f) - 1 - f.offset + 1
    BY <2>1, FS_Interval
  <2>3. QED  BY <1>2, <2>2
<1>5. \A g \in s.fragments : /\ g \in [offset : Nat, len : Nat \ {0}, from : Datagrams]
                             /\ End(g) = g.offset + g.len /\ End(g) \in Nat
                             /\ End(g) =< f.offset \/ End(f) =< g.offset
  <2> TAKE g \in s.fragments
  <2>1. g \in [offset : Nat, len : Nat \ {0}, from : Datagrams]
    BY DEF SetOK
  <2>2. g \notin Overlapping(s, f)
    OBVIOUS
  <2>3. ~(f.offset < End(g) /\ g.offset < End(f))
    BY <2>2 DEF Overlapping
  <2>4. QED  BY <1>2, <2>1, <2>3 DEF End
<1>6. Bytes(n) = Bytes(s) \cup I
  BY <1>1, <1>3 DEF Bytes
<1>7. Bytes(s) \cap I = {}
  <2> SUFFICES ASSUME NEW b \in Bytes(s), b \in I PROVE FALSE
    OBVIOUS
  <2>1. PICK g \in s.fragments : b \in g.offset .. End(g) - 1
    BY DEF Bytes
  <2>2. g.offset \in Nat /\ End(g) \in Nat /\ b \in Int
    BY <1>5, <2>1
  <2>3. QED  BY <1>2, <1>5, <2>1, <2>2
<1>8. IsFiniteSet(Bytes(n)) /\ n.mem = Cardinality(Bytes(n))
  <2>1. IsFiniteSet(Bytes(s)) /\ s.mem = Cardinality(Bytes(s))
    BY DEF SetOK
  <2> HIDE DEF I
  <2>2. IsFiniteSet(Bytes(s) \cup I)
        /\ Cardinality(Bytes(s) \cup I)
             = Cardinality(Bytes(s)) + Cardinality(I) - Cardinality(Bytes(s) \cap I)
    BY <1>4, <2>1, FS_Union
  <2>3. Cardinality({}) = 0 /\ Cardinality(Bytes(s)) \in Nat
    BY <2>1, FS_EmptySet, FS_CardinalityType
  <2>4. Cardinality(Bytes(s) \cap I) = 0
    BY <1>7, <2>3, Zenon DEF I
  <2>5. n.mem = Cardinality(Bytes(s) \cup I)
    BY <1>1, <1>2, <1>4, <2>1, <2>2, <2>3, <2>4, SMTT(30)
  <2>6. QED  BY <1>6, <2>2, <2>5, Zenon DEF I
<1>9. n.header # None => n.header \in Datagrams /\ n.header.key = k
  BY <1>1, <1>2 DEF SetOK
<1>10. n.totalLen # -1 => \E d \in Datagrams : d.key = k /\ d.len = n.totalLen
  BY <1>1, <1>2 DEF SetOK, Valid
<1>11. n.fragments \subseteq [offset : Nat, len : Nat \ {0}, from : Datagrams]
  BY <1>1, <1>3, <1>5
<1>12. ASSUME NEW g \in n.fragments
       PROVE  /\ g.from.key = k /\ End(g) =< g.from.len
              /\ g.offset = 0 => n.header # None
              /\ End(g) = g.from.len => n.totalLen = g.from.len
  <2>1. CASE g = p
    BY <1>1, <1>2, <1>3, <2>1, ReassemblyAssumption, SMTT(30) DEF Valid
  <2>2. CASE g \in s.fragments
    <3>1. /\ g.from.key = k /\ End(g) =< g.from.len
          /\ g.offset = 0 => s.header # None
          /\ End(g) = g.from.len => s.totalLen = g.from.len
      BY <2>2 DEF SetOK
    <3>2. g.offset = 0 => n.header # None
      BY <1>1, <1>2, <3>1, ReassemblyAssumption
    <3>3. ASSUME End(g) = g.from.len PROVE n.totalLen = g.from.len
      <4>1. s.totalLen >= 0 /\ s.totalLen = g.from.len
        BY <1>5, <2>2, <3>1, <3>3
      <4>2. QED  BY <1>1, <4>1
    <3>4. QED  BY <3>1, <3>2, <3>3
  <2>3. QED  BY <1>1, <2>1, <2>2
<1>13. \A g, h \in n.fragments : g # h => End(g) =< h.offset \/ End(h) =< g.offset
  <2>1. \A g, h \in s.fragments : g # h => End(g) =< h.offset \/ End(h) =< g.offset
    BY DEF SetOK
  <2>2. QED  BY <1>1, <1>3, <1>5, <2>1
<1>14. SetOK(k, n)
  BY <1>8, <1>9, <1>10, <1>11, <1>12, <1>13, SMTT(30) DEF SetOK
<1>15. QED  BY <1>4, <1>6, <1>7, <1>14 DEF n

(* A table with a fragment added to the set of a key. *)
Added(r, k, f, n) ==
  /\ RInv(n) /\ n.out = r.out /\ KeysOf(n) = KeysOf(r)
  /\ \A j \in KeysOf(r) \ {k} : n.sets[j] = r.sets[j]
  /\ n.sets[k].mem = r.sets[k].mem + f.len /\ n.mem = r.mem + f.len
  /\ r.mem \in Nat /\ r.sets[k].mem \in Nat /\ f.len \in Nat

(* The counters of the set and of the table grow by the new bytes. *)
LEMMA AddedFacts ==
  ASSUME NEW r, RInv(r), NEW k \in KeysOf(r), NEW f, Valid(f), f.from.key = k,
         Overlapping(r.sets[k], f) = {},
         ~(~f.more /\ r.sets[k].totalLen >= 0 /\ r.sets[k].totalLen # End(f))
  PROVE  Added(r, k, f, added(r, k, f))
<1> DEFINE n == added(r, k, f)  I == f.offset .. End(f) - 1  s == r.sets[k]
           H == Held(r.sets)  D == {k} \X I
<1>1. /\ DOMAIN n = {"sets", "order", "mem", "out"} /\ n.order = r.order /\ n.out = r.out
      /\ n.sets = [r.sets EXCEPT ![k] = addFragment(s, f)] /\ n.mem = r.mem + f.len
  <2>1. DOMAIN r = {"sets", "order", "mem", "out"}
    BY DEF RInv
  <2>2. QED  BY <2>1 DEF added
<1> HIDE DEF n
<1>2. DOMAIN r.sets = KeysOf(r) /\ SetOK(k, s)
  BY DEF RInv
<1>3. KeysOf(n) = KeysOf(r) /\ DOMAIN n.sets = KeysOf(r)
      /\ n.sets[k] = addFragment(s, f) /\ \A j \in KeysOf(r) \ {k} : n.sets[j] = r.sets[j]
  BY <1>1, <1>2 DEF KeysOf
<1>4. /\ SetOK(k, n.sets[k]) /\ Bytes(n.sets[k]) = Bytes(s) \cup I /\ Bytes(s) \cap I = {}
      /\ IsFiniteSet(I) /\ Cardinality(I) = f.len
  <2> HIDE DEF s
  <2>1. Overlapping(s, f) = {} /\ ~(~f.more /\ s.totalLen >= 0 /\ s.totalLen # End(f))
    BY DEF s
  <2>2. /\ SetOK(k, addFragment(s, f))
        /\ Bytes(addFragment(s, f)) = Bytes(s) \cup I /\ Bytes(s) \cap I = {}
        /\ IsFiniteSet(I) /\ Cardinality(I) = f.len
    BY <1>2, <2>1, AddFragment
  <2>3. QED  BY <1>3, <2>2, Zenon
<1>5. Held(n.sets) = H \cup D
  BY <1>2, <1>3, <1>4 DEF Held
<1>6. H \cap D = {}
  BY <1>2, <1>4 DEF Held
<1>7. IsFiniteSet(H) /\ r.mem = Cardinality(H) /\ r.mem \in Nat
  BY FS_CardinalityType DEF RInv
<1>8. IsFiniteSet(Bytes(s)) /\ s.mem = Cardinality(Bytes(s)) /\ s.mem \in Nat
  BY <1>2, FS_CardinalityType DEF SetOK
<1>9. f.len \in Nat
  BY DEF Valid
<1>10. IsFiniteSet(D) /\ Cardinality(D) = f.len
  <2> HIDE DEF I
  <2>1. IsFiniteSet({k}) /\ Cardinality({k}) = 1
    BY FS_Singleton, Zenon
  <2>2. IsFiniteSet(D) /\ Cardinality(D) = Cardinality({k}) * Cardinality(I)
    BY <1>4, <2>1, FS_Product, Zenon DEF I
  <2>3. QED  BY <1>4, <1>9, <2>1, <2>2 DEF I
<1>11. IsFiniteSet(Held(n.sets)) /\ n.mem = Cardinality(Held(n.sets))
  <2> HIDE DEF H, D
  <2>1. IsFiniteSet(H \cup D)
        /\ Cardinality(H \cup D) = Cardinality(H) + Cardinality(D) - Cardinality(H \cap D)
    BY <1>7, <1>10, FS_Union, Zenon
  <2>2. Cardinality(H \cap D) = 0
    BY <1>6, FS_EmptySet, Zenon
  <2>3. n.mem = Cardinality(H \cup D)
    BY <1>1, <1>7, <1>9, <1>10, <2>1, <2>2, SMTT(30)
  <2>4. QED  BY <1>5, <2>1, <2>3, Zenon
<1>12. n.sets[k].mem = s.mem + f.len
  BY <1>3 DEF addFragment
<1>13. \A j \in KeysOf(n) : SetOK(j, n.sets[j])
  BY <1>3, <1>4 DEF RInv
<1>14. n.sets = [j \in KeysOf(n) |-> n.sets[j]]
  BY <1>1, <1>2, <1>3
<1>15. n.order \in Seq(Keys) /\ IsInjective(n.order)
  BY <1>1 DEF RInv
<1>16. RInv(n)
  BY <1>1, <1>11, <1>13, <1>14, <1>15 DEF RInv
<1>17. QED  BY <1>1, <1>3, <1>7, <1>8, <1>9, <1>12, <1>16, SMTT(30) DEF Added, n

(***************************************************************************)
(* The table between calls: no set is ready, or process would have         *)
(* returned it, and the memory is under the high threshold.                *)
(***************************************************************************)
Between(r) ==
  /\ RInv(r) /\ r.mem \in Nat /\ r.mem =< HighThreshold
  /\ \A k \in KeysOf(r) : ~Ready(r.sets[k])

(* What process returns: nothing, or a ready set assembled. *)
Outcome(o) == o = None \/ \E k \in Keys : \E s : SetOK(k, s) /\ Ready(s) /\ o = assemble(s)

(* What a call leaves. *)
Result(n) == Between(n) /\ Outcome(n.out)

(* Sets that are only released leave no ready set and no more memory. *)
LEMMA KeptBetween ==
  ASSUME NEW r, Between(r), NEW m, Kept(r, m)
  PROVE  Between(m)
<1>1. m.mem \in Nat /\ m.mem =< HighThreshold
  BY ReassemblyAssumption DEF Between, Kept
<1>2. QED  BY <1>1 DEF Between, Kept

(* releaseSet keeps the other sets. *)
LEMMA ReleasedKept ==
  ASSUME NEW r, NEW k \in KeysOf(r), NEW n, Released(r, k, n)
  PROVE  Kept(r, n)
<1>1. n.mem =< r.mem
  BY DEF Released
<1>2. QED  BY <1>1 DEF Released, Kept

(***************************************************************************)
(* The end of process: the set that has become ready is taken out, which   *)
(* leaves no more memory than there was; otherwise the memory is trimmed.  *)
(***************************************************************************)
LEMMA Finish ==
  ASSUME NEW r, Between(r), r.out = None, NEW k \in KeysOf(r), NEW f, NEW n, Added(r, k, f, n)
  PROVE  Result(finish(n, k))
<1>1. k \in KeysOf(n) /\ RInv(n) /\ n.out = None
  BY DEF Added
<1>2. SetOK(k, n.sets[k]) /\ k \in Keys
  <2>1. n.order \in Seq(Keys) /\ SetOK(k, n.sets[k])
    BY <1>1 DEF RInv
  <2>2. QED  BY <1>1, <2>1 DEF KeysOf
<1>3. CASE Ready(n.sets[k])
  <2> DEFINE m == releaseSet(n, k)  w == finish(n, k)
  <2>1. Released(n, k, m)
    BY <1>1, ReleaseSet
  <2>2. w = [m EXCEPT !.out = assemble(n.sets[k])]
    BY <1>3 DEF finish, Ready
  <2> HIDE DEF m, w
  <2>3. RInv(m) /\ DOMAIN m = {"sets", "order", "mem", "out"}
    BY <2>1 DEF Released, RInv
  <2>4. /\ DOMAIN w = {"sets", "order", "mem", "out"} /\ w.out = assemble(n.sets[k])
        /\ w.sets = m.sets /\ w.order = m.order /\ w.mem = m.mem
    BY <2>2, <2>3
  <2>5. RInv(w) /\ KeysOf(w) = KeysOf(m)
    <3>1. KeysOf(w) = KeysOf(m)
      BY <2>4 DEF KeysOf
    <3>2. QED  BY <2>3, <2>4, <3>1, Zenon DEF RInv
  <2>6. w.mem \in Nat /\ w.mem =< HighThreshold
    <3>1. m.mem = r.mem - r.sets[k].mem /\ r.mem \in Nat /\ r.sets[k].mem \in Nat /\ m.mem \in Nat
      BY <2>1 DEF Released, Added
    <3>2. QED  BY <2>4, <3>1, ReassemblyAssumption DEF Between
  <2>7. \A j \in KeysOf(w) : ~Ready(w.sets[j])
    <3> TAKE j \in KeysOf(w)
    <3>1. j \in KeysOf(r) \ {k} /\ w.sets[j] = n.sets[j]
      BY <2>1, <2>4, <2>5 DEF Released, Added
    <3>2. w.sets[j] = r.sets[j]
      BY <3>1 DEF Added
    <3>3. QED  BY <3>1, <3>2 DEF Between
  <2>8. QED  BY <1>2, <1>3, <2>4, <2>5, <2>6, <2>7, SMTT(30) DEF Result, Outcome, Between, w
<1>4. CASE ~Ready(n.sets[k])
  <2> DEFINE w == trimMemory(n)
  <2>1. finish(n, k) = w
    BY <1>4 DEF finish, Ready
  <2>2. Kept(n, w) /\ w.mem =< HighThreshold
    BY <1>1, TrimMemory
  <2> HIDE DEF w
  <2>3. \A j \in KeysOf(w) : ~Ready(w.sets[j])
    <3> TAKE j \in KeysOf(w)
    <3>1. j \in KeysOf(r) /\ w.sets[j] = n.sets[j]
      BY <2>2 DEF Kept, Added
    <3>2. CASE j = k
      BY <1>4, <3>1, <3>2
    <3>3. CASE j # k
      <4>1. n.sets[j] = r.sets[j]
        BY <3>1, <3>3 DEF Added
      <4>2. QED  BY <3>1, <4>1 DEF Between
    <3>4. QED  BY <3>2, <3>3
  <2>4. QED  BY <1>1, <2>1, <2>2, <2>3 DEF Result, Outcome, Between, Kept
<1>5. QED  BY <1>3, <1>4

(* process from the lookup on: overlaps and contradictions drop the set. *)
LEMMA Place ==
  ASSUME NEW r, Between(r), r.out = None, NEW k \in KeysOf(r), NEW f, Valid(f), f.from.key = k
  PROVE  Result(place(r, k, f))
<1> DEFINE o == Overlapping(r.sets[k], f) # {}
           bad == ~f.more /\ r.sets[k].totalLen >= 0 /\ r.sets[k].totalLen # End(f)
<1>1. Result(r)
  BY DEF Result, Outcome
<1>2. Result(releaseSet(r, k))
  <2>1. Released(r, k, releaseSet(r, k))
    BY ReleaseSet DEF Between
  <2>2. Kept(r, releaseSet(r, k))
    BY <2>1, ReleasedKept
  <2>3. Between(releaseSet(r, k))
    BY <2>2, KeptBetween
  <2>4. releaseSet(r, k).out = None
    BY <2>1 DEF Released
  <2>5. QED  BY <2>3, <2>4 DEF Result, Outcome
<1>3. CASE o
  BY <1>1, <1>2, <1>3 DEF place
<1>4. CASE ~o /\ bad
  BY <1>2, <1>4 DEF place
<1>5. CASE ~o /\ ~bad
  <2>1. Added(r, k, f, added(r, k, f))
    BY <1>5, AddedFacts DEF Between
  <2>2. Result(finish(added(r, k, f), k))
    BY <2>1, Finish
  <2>3. QED  BY <1>5, <2>2 DEF place
<1>6. QED  BY <1>3, <1>4, <1>5

(* Whatever fragment arrives, and whichever sets have timed out. *)
LEMMA Process ==
  ASSUME NEW r, Between(r), r.out = None, NEW n \in 0 .. Len(r.order), NEW f \in Fragments
  PROVE  Result(process(r, n, f))
<1> DEFINE m == releaseOldest(r, n)  k == f.from.key  w == findSet(m, k)
<1>1. Valid(f) /\ k \in Keys
  BY FragmentFacts DEF Valid, Keys
<1>2. CASE dropped(f)
  BY <1>2 DEF process, Result, Outcome
<1>3. CASE ~dropped(f)
  <2>1. Kept(r, m)
    BY ReleaseOldest DEF Between
  <2>2. Between(m) /\ m.out = None
    BY <2>1, KeptBetween DEF Kept
  <2>3. Found(m, k, w)
    BY <1>1, <2>2, FindSet DEF Between
  <2>4. process(r, n, f) = place(w, k, f)
    BY <1>3 DEF process
  <2> HIDE DEF m, w, k
  <2>5. ASSUME NEW j \in KeysOf(w) PROVE ~Ready(w.sets[j])
    <3>1. CASE j \in KeysOf(m)
      BY <2>2, <2>3, <3>1, SMTT(30) DEF Found, Between
    <3>2. CASE j \notin KeysOf(m)
      <4>1. w.sets[j] = newSet
        BY <2>3, <3>2 DEF Found
      <4>2. QED  BY <4>1 DEF newSet, Ready
    <3>3. QED  BY <3>1, <3>2
  <2>6. Between(w) /\ w.out = None /\ k \in KeysOf(w)
    BY <2>2, <2>3, <2>5 DEF Found, Between
  <2>7. Result(place(w, k, f))
    BY <1>1, <2>6, Place DEF k
  <2>8. QED  BY <2>4, <2>7
<1>4. QED  BY <1>2, <1>3

(***************************************************************************)
(* A set that is complete has every byte up to its total length: were one  *)
(* missing, the first fragment behind it would not follow another.         *)
(***************************************************************************)
LEMMA Covered ==
  ASSUME NEW k, NEW s, SetOK(k, s), complete(s), NEW b \in 0 .. s.totalLen - 1
  PROVE  \E f \in s.fragments : f.offset =< b /\ b < End(f)
<1> SUFFICES ASSUME \A f \in s.fragments : ~(f.offset =< b /\ b < End(f))
             PROVE  FALSE
  OBVIOUS
<1>1. \A f \in s.fragments : f.offset \in Nat /\ f.len \in Nat /\ End(f) \in Nat
  BY DEF SetOK, End
<1>2. PICK f \in s.fragments : /\ End(f) = s.totalLen
                              /\ \A g \in Before(s, f) \cup {f} : Follows(s, g)
  BY DEF complete
<1> DEFINE B == {g \in s.fragments : g.offset =< f.offset /\ Follows(s, g) /\ b < g.offset}
           T == {g.offset : g \in B}
<1>3. f \in B
  BY <1>1, <1>2
<1>4. T \in SUBSET Nat /\ T # {}
  BY <1>1, <1>3
<1>5. PICK o \in T : \A p \in T : o =< p
  <2> HIDE DEF T
  <2>1. QED  BY <1>4, LeastElement
<1>6. PICK g \in B : g.offset = o
  BY <1>5
<1>7. PICK h \in Before(s, g) : g.offset = End(h)
  BY <1>1, <1>6 DEF Follows
<1>8. h \in s.fragments /\ h.offset < g.offset
  BY <1>7 DEF Before
<1>9. b < h.offset
  BY <1>1, <1>6, <1>7, <1>8, SMTT(30)
<1>10. Follows(s, h) /\ h.offset =< f.offset
  BY <1>1, <1>2, <1>6, <1>8, SMTT(30) DEF Before
<1>11. h \in B
  BY <1>8, <1>9, <1>10
<1>12. o =< h.offset
  BY <1>5, <1>11
<1>13. QED  BY <1>1, <1>6, <1>8, <1>12

(* No two datagrams under way have the same key. *)
DistinctKeys == \A d, e \in Datagrams : d.key = e.key => d = e

(* What is assembled from a ready set. *)
LEMMA Assembled ==
  ASSUME DistinctKeys, NEW k \in Keys, NEW s, SetOK(k, s), Ready(s), NEW o, o = assemble(s)
  PROVE  \E d \in Datagrams : /\ o.header = d /\ o.len = d.len /\ o.inBounds
                              /\ o.bytes = [b \in 0 .. d.len - 1 |-> d]
<1> DEFINE d == s.header  C(b, f) == f.offset =< b /\ b < End(f)
<1>1. d \in Datagrams /\ d.key = k
  BY DEF SetOK, Ready
<1>2. s.totalLen = d.len /\ d.len \in Nat
  <2>1. d.len \in Nat
    BY <1>1, ReassemblyAssumption
  <2>2. s.totalLen # -1
    BY DEF Ready
  <2>3. PICK e \in Datagrams : e.key = k /\ e.len = s.totalLen
    BY <2>2 DEF SetOK
  <2>4. e = d
    BY <1>1, <2>3 DEF DistinctKeys
  <2>5. QED  BY <2>1, <2>3, <2>4
<1>3. \A f \in s.fragments : f.from = d /\ f.offset =< d.len
  <2> TAKE f \in s.fragments
  <2>1. /\ f \in [offset : Nat, len : Nat \ {0}, from : Datagrams]
        /\ f.from.key = k /\ End(f) =< f.from.len
    BY DEF SetOK
  <2>2. f.from = d
    BY <1>1, <2>1 DEF DistinctKeys
  <2>3. QED  BY <1>2, <2>1, <2>2 DEF End
<1>4. ASSUME NEW b \in 0 .. d.len - 1
      PROVE  /\ \E f \in s.fragments : C(b, f)
             /\ (CHOOSE f \in s.fragments : C(b, f)).from = d
  <2>1. \E f \in s.fragments : C(b, f)
    BY <1>2, Covered DEF Ready
  <2> HIDE DEF C
  <2>2. QED  BY <1>3, <2>1
<1>5. o.bytes = [b \in 0 .. d.len - 1 |-> IF \E f \in s.fragments : C(b, f)
                                         THEN (CHOOSE f \in s.fragments : C(b, f)).from
                                         ELSE None]
  BY <1>2 DEF assemble
<1>6. o.bytes = [b \in 0 .. d.len - 1 |-> d]
  <2> HIDE DEF C, d
  <2>1. QED  BY <1>4, <1>5
<1>7. o.header = d /\ o.len = d.len /\ o.inBounds
  BY <1>2, <1>3 DEF assemble
<1>8. QED  BY <1>1, <1>6, <1>7, SMTT(30)

(* Every byte of a datagram is in one of its fragments. *)
LEMMA Piece ==
  ASSUME NEW d, d.len \in Nat \ {0}, NEW mp \in Nat \ {0}, NEW b \in 0 .. d.len - 1
  PROVE  \E f \in FragmentsOf(d, mp) :
           /\ f.offset \in Nat /\ f.len \in Nat /\ f.offset =< b /\ b < End(f)
           /\ b = d.len - 1 => End(f) = d.len
           /\ b = 0 => f.offset = 0
<1> DEFINE L == d.len  n == b \div mp  q == (L - 1) \div mp  x == mp * n  y == mp * q
<1>1. n \in Nat /\ x =< b /\ b < x + mp
  BY DivFacts
<1>2. q \in Nat /\ y =< L - 1 /\ L - 1 < y + mp
  BY DivFacts
<1>3. x \in Nat /\ y \in Nat /\ x = n * mp /\ y = q * mp
  BY <1>1, <1>2
<1>4. n =< q
  <2> SUFFICES ASSUME q + 1 =< n PROVE FALSE
    BY <1>1, <1>2
  <2>1. (q + 1) * mp =< mp * n
    BY <1>1, <1>2, TimesMonotone
  <2>2. (q + 1) * mp = y + mp
    BY <1>2
  <2> HIDE DEF n, q
  <2>3. y + mp =< x
    BY <2>1, <2>2
  <2> HIDE DEF x, y
  <2>4. QED  BY <1>1, <1>2, <1>3, <2>3
<1>5. b = 0 => x = 0
  BY <1>1, <1>3
<1> DEFINE f == [from |-> d, offset |-> n * mp, more |-> L - n * mp > mp,
                 len |-> IF L - n * mp > mp THEN mp ELSE L - n * mp]
<1>6. f \in FragmentsOf(d, mp)
  BY <1>1, <1>2, <1>4 DEF FragmentsOf
<1>7. f.offset = x /\ f.len = (IF L - x > mp THEN mp ELSE L - x)
  BY <1>3
<1> HIDE DEF f, x
<1>8. QED  BY <1>1, <1>3, <1>5, <1>6, <1>7 DEF End

(* A set with all the fragments of a datagram, cut in one way, is ready. *)
LEMMA AllIsReady ==
  ASSUME NEW d \in Datagrams, NEW s, SetOK(d.key, s), NEW m \in MTUs,
         fragmentIPv4Packet(d, m) # {},
         \A f \in fragmentIPv4Packet(d, m) :
           [offset |-> f.offset, len |-> f.len, from |-> d] \in s.fragments
  PROVE  Ready(s)
<1> DEFINE mp == ((m - HdrLen) \div 8) * 8
<1>1. mp \in Nat \ {0} /\ d.len \in Nat \ {0} /\ fragmentIPv4Packet(d, m) = FragmentsOf(d, mp)
  BY CutSize
<1> HIDE DEF mp
<1>2. ASSUME NEW b \in 0 .. d.len - 1
      PROVE  \E g \in s.fragments : /\ g.offset =< b /\ b < End(g) /\ g.from = d
                                    /\ b = d.len - 1 => End(g) = d.len
                                    /\ b = 0 => g.offset = 0
  <2>1. PICK f \in FragmentsOf(d, mp) :
           /\ f.offset \in Nat /\ f.len \in Nat /\ f.offset =< b /\ b < End(f)
           /\ b = d.len - 1 => End(f) = d.len
           /\ b = 0 => f.offset = 0
    BY <1>1, Piece
  <2> DEFINE g == [offset |-> f.offset, len |-> f.len, from |-> d]
  <2>2. g \in s.fragments
    BY <1>1, <2>1, SMTT(30)
  <2>3. g.offset = f.offset /\ g.from = d /\ End(g) = End(f)
    BY DEF End
  <2>4. QED  BY <2>1, <2>2, <2>3
<1>3. \A g \in s.fragments : /\ g.offset \in Nat /\ g.len \in Nat \ {0}
                             /\ End(g) = g.offset + g.len /\ End(g) \in Nat
  BY DEF SetOK, End
<1>4. \A g, h \in s.fragments : g # h => End(g) =< h.offset \/ End(h) =< g.offset
  BY DEF SetOK
<1>5. s.header # None
  <2>1. 0 \in 0 .. d.len - 1
    BY <1>1
  <2>2. PICK g \in s.fragments : g.offset = 0
    BY <1>2, <2>1
  <2>3. QED  BY <2>2 DEF SetOK
<1>6. PICK f \in s.fragments : End(f) = d.len /\ f.from = d /\ f.offset =< d.len - 1
  BY <1>1, <1>2
<1>7. s.totalLen = d.len
  BY <1>6 DEF SetOK
<1>8. ASSUME NEW g \in Before(s, f) \cup {f} PROVE Follows(s, g)
  <2>1. g \in s.fragments /\ g.offset =< f.offset
    BY <1>3, <1>6, <1>8 DEF Before
  <2>2. CASE g.offset = 0
    <3>1. Before(s, g) = {}
      BY <1>3, <2>2 DEF Before
    <3>2. QED  BY <2>2, <3>1 DEF Follows
  <2>3. CASE g.offset # 0
    <3>1. g.offset - 1 \in 0 .. d.len - 1
      BY <1>1, <1>3, <1>6, <2>1, <2>3, SMTT(30)
    <3>2. PICK h \in s.fragments : h.offset =< g.offset - 1 /\ g.offset - 1 < End(h)
      BY <1>2, <3>1
    <3>3. h.offset < g.offset /\ h # g
      BY <1>3, <2>1, <3>2, SMTT(30)
    <3>4. End(h) = g.offset
      BY <1>3, <1>4, <2>1, <3>2, <3>3, SMTT(30)
    <3>5. ASSUME NEW i \in Before(s, g) PROVE i.offset =< h.offset
      <4>1. i \in s.fragments /\ i.offset < g.offset
        BY DEF Before
      <4>2. i = h \/ End(h) =< i.offset \/ End(i) =< h.offset
        BY <1>4, <4>1
      <4>3. QED  BY <1>3, <2>1, <3>4, <4>1, <4>2, SMTT(30)
    <3>6. h \in Before(s, g)
      BY <3>3 DEF Before
    <3>7. QED  BY <3>4, <3>5, <3>6, SMTT(30) DEF Follows
  <2>4. QED  BY <2>2, <2>3
<1>9. complete(s)
  BY <1>6, <1>7, <1>8 DEF complete
<1>10. QED  BY <1>1, <1>5, <1>7, <1>9 DEF Ready
-----------------------------------------------------------------------------
(* The inductive invariant. *)
RInvariant == Between(R) /\ Outcome(out)

(* Between does not depend on what was returned. *)
LEMMA BetweenFields ==
  ASSUME NEW m, Between(m), NEW w, DOMAIN w = {"sets", "order", "mem", "out"},
         w.sets = m.sets, w.order = m.order, w.mem = m.mem
  PROVE  Between(w)
<1>1. KeysOf(w) = KeysOf(m)
  BY DEF KeysOf
<1>2. RInv(m)
  BY DEF Between
<1>3. RInv(w)
  BY <1>1, <1>2, Zenon DEF RInv
<1>4. QED  BY <1>1, <1>3 DEF Between

(* The empty reassembler. *)
LEMMA InitBetween == Init => RInvariant
<1> SUFFICES ASSUME Init PROVE RInvariant
  OBVIOUS
<1> DEFINE r == R
<1>1. /\ DOMAIN r = {"sets", "order", "mem", "out"}
      /\ r.sets = <<>> /\ r.order = <<>> /\ r.mem = 0 /\ out = None
  BY DEF Init, R
<1> HIDE DEF r
<1>2. KeysOf(r) = {}
  BY <1>1 DEF KeysOf
<1>3. Held(r.sets) = {}
  BY <1>1 DEF Held
<1>4. r.order \in Seq(Keys) /\ IsInjective(r.order)
  BY <1>1 DEF IsInjective
<1>5. r.sets = [k \in KeysOf(r) |-> r.sets[k]]
  BY <1>1, <1>2
<1>6. IsFiniteSet(Held(r.sets)) /\ r.mem = Cardinality(Held(r.sets))
  BY <1>1, <1>3, FS_EmptySet
<1>7. RInv(r)
  BY <1>1, <1>2, <1>4, <1>5, <1>6, SMTT(30) DEF RInv
<1>8. QED  BY <1>1, <1>2, <1>7, ReassemblyAssumption DEF RInvariant, Between, Outcome, r

(* Every call of process keeps the invariant. *)
LEMMA StepBetween == RInvariant /\ [Next]_vars => RInvariant'
<1> SUFFICES ASSUME RInvariant, [Next]_vars PROVE Between(R') /\ Outcome(out')
  BY DEF RInvariant
<1>1. ASSUME NEW f \in Fragments, NEW n \in 0 .. Len(order), Arrives(f, n)
      PROVE  Between(R') /\ Outcome(out')
  <2> DEFINE r == R  m == process(r, n, f)  w == R'
  <2>1. Between(r) /\ r.out = None /\ n \in 0 .. Len(r.order)
    BY DEF RInvariant, R
  <2>2. sets' = m.sets /\ order' = m.order /\ mem' = m.mem /\ out' = m.out
    BY <1>1 DEF Arrives, Become
  <2> HIDE DEF r
  <2>3. Result(m)
    BY <2>1, Process
  <2> HIDE DEF m
  <2>4. DOMAIN w = {"sets", "order", "mem", "out"} /\ w.sets = m.sets /\ w.order = m.order
        /\ w.mem = m.mem
    BY <2>2 DEF R
  <2> HIDE DEF w
  <2>5. Between(w)
    BY <2>3, <2>4, BetweenFields DEF Result
  <2>6. QED  BY <2>2, <2>3, <2>5 DEF Result, w
<1>2. CASE UNCHANGED vars
  <2>1. R' = R /\ out' = out
    BY <1>2 DEF vars, R
  <2>2. QED  BY <2>1 DEF RInvariant
<1>3. QED  BY <1>1, <1>2 DEF Next

(* So it holds always. *)
LEMMA AlwaysBetween == Spec => []RInvariant
  BY InitBetween, StepBetween, PTL DEF Spec

(* The invariant in the words of the module's variables. *)
LEMMA Table ==
  ASSUME RInvariant
  PROVE  /\ order \in Seq(Keys) /\ IsInjective(order)
         /\ DOMAIN sets = {order[i] : i \in DOMAIN order} /\ DOMAIN sets \subseteq Keys
         /\ \A k \in DOMAIN sets : SetOK(k, sets[k]) /\ ~Ready(sets[k])
         /\ mem = Cardinality(Held(sets)) /\ mem \in Nat /\ mem =< HighThreshold
<1> DEFINE r == R
<1>1. r.sets = sets /\ r.order = order /\ r.mem = mem /\ Between(r)
  BY DEF R, RInvariant
<1> HIDE DEF r
<1>2. RInv(r) /\ mem \in Nat /\ mem =< HighThreshold /\ \A k \in KeysOf(r) : ~Ready(sets[k])
  BY <1>1 DEF Between
<1>3. order \in Seq(Keys) /\ IsInjective(order) /\ mem = Cardinality(Held(sets))
  BY <1>1, <1>2 DEF RInv
<1>4. KeysOf(r) = {order[i] : i \in DOMAIN order} /\ KeysOf(r) \subseteq Keys
  BY <1>1, <1>3 DEF KeysOf
<1>5. DOMAIN sets = KeysOf(r)
  BY <1>1, <1>2 DEF RInv
<1>6. \A k \in KeysOf(r) : SetOK(k, sets[k])
  BY <1>1, <1>2 DEF RInv
<1>7. QED  BY <1>2, <1>3, <1>4, <1>5, <1>6

(***************************************************************************)
(* The table of the reassembler: a set for each key of the order in which  *)
(* they were made, whose fragments are disjoint.                           *)
(***************************************************************************)
THEOREM TableTyped == Spec => []TypeOK
<1>1. ASSUME RInvariant PROVE TypeOK
  <2>1. ASSUME NEW k \in DOMAIN sets
        PROVE  /\ sets[k].header \in Datagrams \cup {None}
               /\ sets[k].totalLen \in {-1} \cup 1 .. MaxPayloadSize
               /\ sets[k].fragments \subseteq [offset : Nat, len : Nat, from : Datagrams]
               /\ \A f, g \in sets[k].fragments :
                    f # g => End(f) =< g.offset \/ End(g) =< f.offset
    <3>1. SetOK(k, sets[k])
      BY <1>1, Table
    <3>2. sets[k].totalLen \in {-1} \cup 1 .. MaxPayloadSize
      BY <3>1, ReassemblyAssumption, SMTT(30) DEF SetOK
    <3>3. QED  BY <3>1, <3>2 DEF SetOK
  <2>2. QED  BY <1>1, <2>1, Table, SMTT(30) DEF TypeOK
<1>2. QED  BY <1>1, AlwaysBetween, PTL

(***************************************************************************)
(* r.mem is the number of bytes the table holds, so that releaseSetLocked  *)
(* never clamps it, and no call of process leaves it above the threshold.  *)
(***************************************************************************)
THEOREM MemoryIsAccounted == Spec => []MemAccounted
<1>1. ASSUME RInvariant PROVE MemAccounted
  BY <1>1, Table, SMTT(30) DEF MemAccounted, Held
<1>2. QED  BY <1>1, AlwaysBetween, PTL

(***************************************************************************)
(* A datagram all of whose fragments have arrived, cut for one MTU, is     *)
(* returned by the call of process that gets the last: it is not left in   *)
(* the table, whatever else was evicted, repeated or cut differently.      *)
(***************************************************************************)
THEOREM CompleteIsReturned == Spec => []NeverHoldsAll
<1>1. ASSUME RInvariant PROVE NeverHoldsAll
  <2> SUFFICES ASSUME NEW d \in Datagrams, NEW m \in MTUs,
                      d.key \in DOMAIN sets, fragmentIPv4Packet(d, m) # {},
                      \A f \in fragmentIPv4Packet(d, m) :
                        [offset |-> f.offset, len |-> f.len, from |-> d] \in sets[d.key].fragments
               PROVE  FALSE
    BY DEF NeverHoldsAll
  <2> DEFINE s == sets[d.key]
  <2>1. SetOK(d.key, s) /\ ~Ready(s)
    BY <1>1, Table
  <2> HIDE DEF s
  <2>2. Ready(s)
    BY <2>1, AllIsReady DEF s
  <2>3. QED  BY <2>1, <2>2
<1>2. QED  BY <1>1, AlwaysBetween, PTL

(***************************************************************************)
(* What process returns is a datagram that was sent, with every byte its   *)
(* own, when no two datagrams under way have the same source, destination, *)
(* protocol and identification (the key).                                  *)
(***************************************************************************)
THEOREM ReassemblyIsFaithful ==
  ASSUME DistinctKeys
  PROVE  Spec => []AssembledIntact
<1>1. ASSUME RInvariant PROVE AssembledIntact
  BY <1>1, Assembled DEF RInvariant, Outcome, AssembledIntact
<1>2. QED  BY <1>1, AlwaysBetween, PTL
=============================================================================
