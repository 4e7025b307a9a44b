----------------------------- MODULE Reassembly -----------------------------
(***************************************************************************)
(* IPv4 fragmentation and reassembly (stack/fragmentation.go).             *)
(*                                                                         *)
(* Datagrams are cut by fragmentIPv4Packet for one of the MTUs on the way; *)
(* the network loses, repeats and reorders the fragments, and process      *)
(* takes them one at a time, under the reassembler's mutex.  A fragment's  *)
(* bytes are known by the datagram they are from; offsets and lengths are  *)
(* the real ones.  Of the clock only the order in which sets were created  *)
(* is kept: at any call some of the oldest sets may have timed out.        *)
(***************************************************************************)
EXTENDS Integers, Sequences, FiniteSets, SequencesExt

CONSTANTS
  Datagrams,               \* records with an id, a key and a payload length
  MTUs,                    \* MTUs the datagrams may be fragmented for
  HdrLen,                  \* length of the IPv4 header
  MaxPayloadSize,          \* ipv4MaxPayloadSize
  HighThreshold, LowThreshold,
  None

ASSUME ReassemblyAssumption ==
  /\ None \notin Datagrams /\ MTUs \subseteq Nat /\ HdrLen \in Nat /\ MaxPayloadSize \in Nat
  /\ LowThreshold \in Nat /\ HighThreshold \in Nat /\ LowThreshold =< HighThreshold
  /\ \A d \in Datagrams : d.len \in 1 .. MaxPayloadSize

VARIABLES
  sets,      \* r.sets
  order,     \* the keys of sets, oldest createdAt first
  mem,       \* r.mem
  out        \* what the last call of process returned

vars == <<sets, order, mem, out>>

Keys == {d.key : d \in Datagrams}

(* Where a fragment ends in the datagram's payload. *)
End(f) == f.offset + f.len
-----------------------------------------------------------------------------
(* Fault: a full last fragment says that more follow. *)
FragmentsOfMoreFollow(d, maxPayload) ==
  { [from |-> d, offset |-> o, more |-> d.len - o >= maxPayload,
     len |-> IF d.len - o > maxPayload THEN maxPayload ELSE d.len - o]
    : o \in {n * maxPayload : n \in 0 .. (d.len - 1) \div maxPayload} }

(* fragmentIPv4Packet: the fragments of d for an MTU.  A datagram that fits *)
(* is sent whole and never reaches process; none is sent when the MTU has  *)
(* no room for eight bytes of payload.  Datagrams may all be fragmented.   *)
FragmentsOf(d, maxPayload) ==
  { [from |-> d, offset |-> o, more |-> d.len - o > maxPayload,
     len |-> IF d.len - o > maxPayload THEN maxPayload ELSE d.len - o]
    : o \in {n * maxPayload : n \in 0 .. (d.len - 1) \div maxPayload} }

fragmentIPv4Packet(d, mtu) ==
  IF HdrLen + d.len =< mtu \/ mtu - HdrLen < 8
  THEN {}
  ELSE FragmentsOf(d, ((mtu - HdrLen) \div 8) * 8)

Fragments == UNION {fragmentIPv4Packet(d, m) : d \in Datagrams, m \in MTUs}
-----------------------------------------------------------------------------
(* The reassembler as a record, so that the steps of process compose. *)
R == [sets |-> sets, order |-> order, mem |-> mem, out |-> None]

KeysOf(r) == {r.order[i] : i \in DOMAIN r.order}

(* Fault: the memory of the set is not given back. *)
releaseSetKeepsMem(r, k) ==
  [r EXCEPT !.sets  = [j \in KeysOf(r) \ {k} |-> r.sets[j]],
            !.order = RemoveFirst(@, k)]

releaseSet(r, k) ==
  [r EXCEPT !.sets  = [j \in KeysOf(r) \ {k} |-> r.sets[j]],
            !.order = RemoveFirst(@, k),
            !.mem   = IF @ < r.sets[k].mem THEN 0 ELSE @ - r.sets[k].mem]

(* The n oldest sets released; evictExpiredLocked releases those that are  *)
(* past the timeout, trimMemoryLocked one after the other until it stops.  *)
releaseOldest(r, n) == FoldLeft(releaseSet, r, SubSeq(r.order, 1, n))

trimStops(r, n) ==
  \/ n = Len(r.order)
  \/ releaseOldest(r, n).mem =< HighThreshold
  \/ n > 0 /\ releaseOldest(r, n).mem =< LowThreshold

trimMemory(r) ==
  releaseOldest(r, CHOOSE n \in 0 .. Len(r.order) :
                     trimStops(r, n) /\ \A m \in 0 .. n - 1 : ~trimStops(r, m))

newSet == [header |-> None, fragments |-> {}, totalLen |-> -1, mem |-> 0]

findSet(r, k) ==
  IF k \in KeysOf(r) THEN r
  ELSE [r EXCEPT !.sets = [j \in KeysOf(r) \cup {k} |-> IF j = k THEN newSet ELSE r.sets[j]],
                 !.order = Append(@, k)]

(* complete: sorted by offset, the fragments follow each other from 0 until *)
(* one ends at totalLen.                                                   *)
Before(set, f) == {g \in set.fragments : g.offset < f.offset}

Follows(set, f) ==
  IF Before(set, f) = {}
  THEN f.offset = 0
  ELSE \E g \in Before(set, f) : /\ \A h \in Before(set, f) : h.offset =< g.offset
                               /\ f.offset = End(g)

(* Fault: the last fragment completes the set. *)
completeWithLast(set) == \E f \in set.fragments : End(f) = set.totalLen

complete(set) ==
  \E f \in set.fragments :
    /\ End(f) = set.totalLen
    /\ \A g \in Before(set, f) \cup {f} : Follows(set, g)

(* assemble copies every fragment to its offset of a buffer of totalLen     *)
(* bytes; a slice that starts behind the buffer's end panics.  A byte that  *)
(* no fragment covers stays zero (None).                                    *)
assemble(set) ==
  [header   |-> set.header, len |-> set.totalLen,
   inBounds |-> \A f \in set.fragments : f.offset =< set.totalLen,
   bytes    |-> [b \in 0 .. set.totalLen - 1 |->
                   IF \E f \in set.fragments : f.offset =< b /\ b < End(f)
                   THEN (CHOOSE f \in set.fragments : f.offset =< b /\ b < End(f)).from
                   ELSE None]]

(* Fault: only a fragment that starts inside another overlaps it. *)
OverlappingStart(set, f) == {g \in set.fragments : g.offset =< f.offset /\ f.offset < End(g)}

Overlapping(set, f) == {g \in set.fragments : f.offset < End(g) /\ g.offset < End(f)}

Duplicate(f, g) == f.offset = g.offset /\ f.len = g.len

(* The fragment added to its set, with the header if it is the first one   *)
(* and the total length if it is the last.                                 *)
addFragment(set, f) ==
  [header    |-> IF f.offset = 0 THEN f.from ELSE set.header,
   totalLen  |-> IF f.more THEN set.totalLen ELSE End(f),
   fragments |-> set.fragments \cup {[offset |-> f.offset, len |-> f.len, from |-> f.from]},
   mem       |-> set.mem + f.len]

added(r, k, f) ==
  [r EXCEPT !.sets[k] = addFragment(@, f), !.mem = @ + f.len]

finish(r, k) ==
  IF r.sets[k].totalLen >= 0 /\ r.sets[k].header # None /\ complete(r.sets[k])
  THEN [releaseSet(r, k) EXCEPT !.out = assemble(r.sets[k])]
  ELSE trimMemory(r)

(* process from the lookup on. *)
place(r, k, f) ==
  CASE Overlapping(r.sets[k], f) # {} ->
         IF \E g \in Overlapping(r.sets[k], f) : ~Duplicate(f, g) THEN releaseSet(r, k) ELSE r
    [] OTHER ->
         IF ~f.more /\ r.sets[k].totalLen >= 0 /\ r.sets[k].totalLen # End(f)
         THEN releaseSet(r, k)
         ELSE finish(added(r, k, f), k)

(* Fragments process drops before it takes the lock. *)
dropped(f) == f.len = 0 \/ End(f) > MaxPayloadSize \/ (f.more /\ f.len % 8 # 0)

process(r, expired, f) ==
  IF dropped(f) THEN r
  ELSE place(findSet(releaseOldest(r, expired), f.from.key), f.from.key, f)

Become(r) == sets' = r.sets /\ order' = r.order /\ mem' = r.mem /\ out' = r.out
-----------------------------------------------------------------------------
Init == sets = <<>> /\ order = <<>> /\ mem = 0 /\ out = None

(* A fragment arrives when the sets of the n oldest keys have timed out. *)
Arrives(f, n) == Become(process(R, n, f))

Next == \E f \in Fragments : \E n \in 0 .. Len(order) : Arrives(f, n)

Spec == Init /\ [][Next]_vars
-----------------------------------------------------------------------------
(* The table holds a set per key of order, each with disjoint fragments. *)
TypeOK ==
  /\ IsInjective(order) /\ DOMAIN sets = {order[i] : i \in DOMAIN order}
  /\ DOMAIN sets \subseteq Keys
  /\ mem \in Nat
  /\ \A k \in DOMAIN sets :
       /\ sets[k].header \in Datagrams \cup {None}
       /\ sets[k].totalLen \in {-1} \cup 1 .. MaxPayloadSize
       /\ sets[k].fragments \subseteq [offset : Nat, len : Nat, from : Datagrams]
       /\ \A f, g \in sets[k].fragments : f # g => End(f) =< g.offset \/ End(g) =< f.offset

(***************************************************************************)
(* What process returns is one of the datagrams sent: its header, its      *)
(* length, every byte its own and none missing (and assemble copied within *)
(* its buffer), in whatever order the fragments came, repeated or cut for  *)
(* different MTUs, and after any set was timed out or evicted half way.    *)
(***************************************************************************)
AssembledIntact ==
  out # None =>
    \E d \in Datagrams : /\ out.header = d /\ out.len = d.len /\ out.inBounds
                         /\ out.bytes = [b \in 0 .. d.len - 1 |-> d]

(***************************************************************************)
(* "It returns a complete packet buffer when all fragments for the datagram *)
(* have arrived": the reassembler never sits on all the fragments of a     *)
(* datagram.                                                               *)
(***************************************************************************)
NeverHoldsAll ==
  \A d \in Datagrams, m \in MTUs :
    d.key \in DOMAIN sets /\ fragmentIPv4Packet(d, m) # {} =>
      ~ \A f \in fragmentIPv4Packet(d, m) :
          [offset |-> f.offset, len |-> f.len, from |-> d] \in sets[d.key].fragments

(* The bytes a set holds, by their places in the datagram. *)
Bytes(set) == UNION {f.offset .. End(f) - 1 : f \in set.fragments}

(***************************************************************************)
(* The memory counter counts the bytes held, so that it is never clamped   *)
(* at zero, and between calls it does not exceed the high threshold.       *)
(***************************************************************************)
MemAccounted ==
  /\ mem = Cardinality(UNION {{k} \X Bytes(sets[k]) : k \in DOMAIN sets})
  /\ mem =< HighThreshold
=============================================================================
